------------------------ MODULE EnvironmentLifecycleProofs ------------------------
(***************************************************************************)
(* The safety properties of EnvironmentLifecycle for every lab, any number *)
(* of processes, releases and faults.                                      *)
(*                                                                         *)
(* OwnOK is about the processes alone and is kept by every way in which a  *)
(* command moves on; the rest relates where a command is to what it has    *)
(* found or left in Kubernetes, in the state file and on disk.             *)
(***************************************************************************)
EXTENDS EnvironmentLifecycle, TLAPS

-----------------------------------------------------------------------------
(* The inductive invariant.                                                *)

\* Labels at which at[p] is a position.
Walking == {"s_apply", "s_wait", "t_apply", "t_wait"}

\* Labels at which a command has a release of its own.
Releasing == StartLabels \cup StopLabels \cup {"s_begin", "s_lease", "t_lease"}

OwnTypes ==
  /\ lock \in Proc \cup {None}
  /\ pc \in [Proc -> Label]
  /\ call \in [Proc -> Call]
  /\ at \in [Proc -> 1..Len(Bundle)]
  /\ res \in [Proc -> Result]

\* The lease is held by the process that is between its Begin and its Close.
LeaseInv == \A p \in Proc : pc[p] \in Leased <=> lock = p

\* A command keeps the release it began with, has no result yet, and walks the
\* bundle or the workloads within their bounds.
CallInv ==
  \A p \in Proc :
    /\ pc[p] \in Releasing => call[p].rel \in Release
    /\ pc[p] # "idle" => res[p] = "none"
    /\ pc[p] \notin Walking => at[p] = 1
    /\ pc[p] \in {"s_wait", "t_apply", "t_wait"} => at[p] <= Len(Workloads)

OwnOK == OwnTypes /\ LeaseInv /\ CallInv

WorldTypes ==
  /\ known \in BOOLEAN /\ running \in BOOLEAN
  /\ ns \in {"absent", "ours", "foreign", "ending"}
  /\ wl \in [Workload -> Object \cup {None}]
  /\ aux \in [Aux -> {"absent", "ours", "foreign"}]
  /\ pvc \in BOOLEAN
  /\ dotenv \in Release \cup {None, "user"}
  /\ rendered \in Release \cup {None, "user"}
  /\ faults \in Nat
  /\ touched \in BOOLEAN

\* What the status of a workload says of its pods, although it lags behind.
Honest(o) ==
  /\ o.own => o.ver # None
  /\ ~o.own => o.pod = None /\ o.status = "none"
  /\ o.pod # None /\ o.pod = o.ver => o.ran
  /\ o.seen /\ o.status = "new" => o.ran
  /\ o.seen /\ o.status = "none" /\ o.rep = 0 => o.pod = None

ObjectInv == \A w \in Workload : wl[w] # None => Honest(wl[w])

\* The workloads that Start, or Stop, has applied, and those its wait has seen.
StartApplied(p, w) ==
  \/ pc[p] = "s_apply" /\ \E i \in 1..Len(Bundle) : i < at[p] /\ Bundle[i] = w
  \/ pc[p] \in {"s_wait", "s_set", "s_rend", "s_env", "s_status"}

StartPolled(p, w) ==
  \/ pc[p] = "s_wait" /\ \E i \in 1..Len(Workloads) : i < at[p] /\ Workloads[i] = w
  \/ pc[p] = "s_set"

StopApplied(p, w) ==
  \/ pc[p] = "t_apply" /\ \E i \in 1..Len(Workloads) : i < at[p] /\ Workloads[i] = w
  \/ pc[p] \in {"t_wait", "t_set"}

StopPolled(p, w) ==
  \/ pc[p] = "t_wait" /\ \E i \in 1..Len(Workloads) : i < at[p] /\ Workloads[i] = w
  \/ pc[p] = "t_set"

\* What is applied and polled stays as it was found, unless people interfere
\* or the namespace ends.
WorkOf(p, w) ==
  /\ (StartApplied(p, w) \/ StopApplied(p, w)) /\ ns = "ours" => wl[w] # None
  /\ StartApplied(p, w) /\ wl[w] # None => wl[w].ver = call[p].rel /\ wl[w].rep = 1
  /\ StartPolled(p, w) /\ wl[w] # None => wl[w].ran
  /\ StopApplied(p, w) /\ wl[w] # None => wl[w].rep = 0
  /\ StopPolled(p, w) /\ wl[w] # None => wl[w].pod = None

WorkInv == ~touched => \A p \in Proc, w \in Workload : WorkOf(p, w)

\* What the tail of a start has written, and the tail of a reset has removed.
RecordLabels == {"s_rend", "s_env", "s_status", "r_set", "r_env", "r_rend"}

RecordOf(p) ==
  /\ pc[p] \in {"s_rend", "s_env", "s_status"} => known /\ running
  /\ pc[p] \in {"s_env", "s_status"} /\ ~touched => rendered = call[p].rel
  /\ pc[p] = "s_status" /\ ~touched => dotenv = call[p].rel
  /\ pc[p] \in {"r_set", "r_env", "r_rend"} => ns \in {"absent", "foreign"}
  /\ pc[p] \in {"r_env", "r_rend"} => ~known /\ ~running
  /\ pc[p] = "r_rend" => dotenv \in {None, "user"}

RecordInv == \A p \in Proc : RecordOf(p)

Inv == OwnOK /\ WorldTypes /\ ObjectInv /\ WorkInv /\ RecordInv

-----------------------------------------------------------------------------
(* What a lab renders.                                                     *)

\* The walks over the objects of a lab stay within the bundle.
LEMMA BundleFacts ==
  /\ Len(Bundle) \in Nat /\ Len(Workloads) \in 1..Len(Bundle)
  /\ \A i \in 1..Len(Bundle) : Bundle[i] \in Workload \cup Aux \cup {"namespace"}
  /\ \A i \in 1..Len(Bundle) : Bundle[i] = "namespace" => i = 1
  /\ Workload \cap Aux = {} /\ "namespace" \notin Workload \cup Aux
  /\ \A i \in 1..Len(Workloads) : Workloads[i] \in Workload
  /\ \A w \in Workload : \E i \in 1..Len(Workloads) : Workloads[i] = w
  /\ \A w \in Workload : \E i \in 1..Len(Bundle) : Bundle[i] = w
<1>1. Lab \in Int /\ (Lab < 3 \/ Lab = 3 \/ Lab > 3)
  BY LabAssumption
<1>2. CASE Lab < 3
  <2>1. Workloads = <<"postgres">> /\ Bundle = <<"namespace", "postgres", "service">>
    BY <1>1, <1>2 DEF Workloads, Bundle
  <2>2. Workload = {"postgres"}
    BY <2>1 DEF Workload
  <2>3. {Bundle[i] : i \in 1..Len(Bundle)} = {"namespace", "postgres", "service"}
    BY <2>1
  <2>4. Aux = {"service"}
    BY <2>2, <2>3 DEF Aux
  <2> QED
    BY <2>1, <2>2, <2>4
<1>3. CASE Lab = 3
  <2>1. /\ Workloads = <<"postgres", "push-service">>
        /\ Bundle = <<"namespace", "postgres", "service", "push-service">>
    BY <1>1, <1>3 DEF Workloads, Bundle
  <2>2. Workload = {"postgres", "push-service"}
    BY <2>1 DEF Workload
  <2>3. {Bundle[i] : i \in 1..Len(Bundle)} = {"namespace", "postgres", "service", "push-service"}
    BY <2>1
  <2>4. Aux = {"service"}
    BY <2>2, <2>3 DEF Aux
  <2> QED
    BY <2>1, <2>2, <2>4
<1>4. CASE Lab > 3
  <2>1. /\ Workloads = <<"postgres", "push-service", "redpanda">>
        /\ Bundle = <<"namespace", "postgres", "service", "push-service", "redpanda", "topics">>
    BY <1>1, <1>4 DEF Workloads, Bundle
  <2>2. Workload = {"postgres", "push-service", "redpanda"}
    BY <2>1 DEF Workload
  <2>3. {Bundle[i] : i \in 1..Len(Bundle)} =
          {"namespace", "postgres", "service", "push-service", "redpanda", "topics"}
    BY <2>1
  <2>4. Aux = {"service", "topics"}
    BY <2>2, <2>3 DEF Aux
  <2> QED
    BY <2>1, <2>2, <2>4
<1> QED
  BY <1>1, <1>2, <1>3, <1>4

-----------------------------------------------------------------------------
(* The ways in which a command moves on.                                   *)

\* Nobody has applied or polled more than before.
Monotone ==
  \A q \in Proc, w \in Workload :
    /\ StartApplied(q, w)' => StartApplied(q, w) /\ call'[q] = call[q]
    /\ StartPolled(q, w)' => StartPolled(q, w)
    /\ StopApplied(q, w)' => StopApplied(q, w)
    /\ StopPolled(q, w)' => StopPolled(q, w)

\* Nobody has come to a label where something is recorded.
Unrecorded ==
  \A q \in Proc : pc'[q] \in RecordLabels => pc'[q] = pc[q] /\ call'[q] = call[q]

\* A label of the middle of a command.
LEMMA GotoMoves ==
  ASSUME OwnOK, NEW p \in Proc, NEW l \in Label \ {"idle"}, Goto(p, l),
         pc[p] # "idle", pc[p] \notin Walking,
         l \in Leased <=> pc[p] \in Leased,
         l \in Releasing => pc[p] \in Releasing,
         l \in {"s_wait", "s_set", "t_wait", "t_set"} => FALSE,
         l \in {"s_rend", "s_env", "s_status"} => pc[p] \in {"s_set", "s_rend", "s_env"}
  PROVE  /\ OwnOK' /\ Monotone
         /\ l \notin RecordLabels => Unrecorded
<1> USE DEF Goto
<1>1. pc' = [pc EXCEPT ![p] = l] /\ lock' = lock /\ call' = call /\ at' = at /\ res' = res
  OBVIOUS
<1>2. pc \in [Proc -> Label] /\ at \in [Proc -> 1..Len(Bundle)]
  BY DEF OwnOK, OwnTypes
<1>3. pc'[p] = l /\ \A q \in Proc \ {p} : pc'[q] = pc[q]
  BY <1>1, <1>2
<1>4. OwnTypes'
  BY <1>1, <1>2 DEF OwnOK, OwnTypes
<1>5. LeaseInv'
  BY <1>1, <1>3 DEF OwnOK, LeaseInv
<1>6. at[p] = 1
  BY DEF OwnOK, CallInv
<1>7. CallInv'
  BY <1>1, <1>3, <1>6, BundleFacts DEF OwnOK, CallInv
<1>8. Monotone
  <2> SUFFICES ASSUME NEW q \in Proc, NEW w \in Workload
               PROVE  /\ StartApplied(q, w)' => StartApplied(q, w) /\ call'[q] = call[q]
                      /\ StartPolled(q, w)' => StartPolled(q, w)
                      /\ StopApplied(q, w)' => StopApplied(q, w)
                      /\ StopPolled(q, w)' => StopPolled(q, w)
    BY DEF Monotone
  <2>1. CASE q # p
    BY <1>1, <1>3, <2>1 DEF StartApplied, StartPolled, StopApplied, StopPolled
  <2>2. CASE q = p
    BY <1>1, <1>3, <1>6, <2>2, BundleFacts
    DEF StartApplied, StartPolled, StopApplied, StopPolled
  <2> QED
    BY <2>1, <2>2
<1> QED
  BY <1>1, <1>3, <1>4, <1>5, <1>7, <1>8 DEF OwnOK, Unrecorded

\* A command ends.
LEMMA ReturnMoves ==
  ASSUME OwnOK, NEW p \in Proc, NEW r \in Result, Return(p, r)
  PROVE  OwnOK' /\ Monotone /\ Unrecorded
<1> USE DEF Return
<1>1. /\ pc \in [Proc -> Label] /\ at \in [Proc -> 1..Len(Bundle)]
      /\ call \in [Proc -> Call] /\ res \in [Proc -> Result]
  BY DEF OwnOK, OwnTypes
<1>2. /\ pc'[p] = "idle" /\ at'[p] = 1
      /\ \A q \in Proc \ {p} : /\ pc'[q] = pc[q] /\ at'[q] = at[q]
                               /\ call'[q] = call[q] /\ res'[q] = res[q]
  BY <1>1
<1>3. NoCall \in Call /\ "idle" \in Label /\ 1 \in 1..Len(Bundle)
  BY BundleFacts DEF NoCall, Call, Label
<1>4. OwnTypes'
  BY <1>1, <1>3 DEF OwnOK, OwnTypes
<1>5. "idle" \notin Leased \cup Releasing \cup Walking \cup RecordLabels
  BY DEF Leased, Releasing, Walking, RecordLabels, StartLabels, StopLabels, ResetLabels
<1>6. LeaseInv'
  BY <1>2, <1>5, EnvNoneAssumption DEF OwnOK, LeaseInv
<1>7. CallInv'
  BY <1>2, <1>5 DEF OwnOK, CallInv
<1>8. Monotone
  BY <1>2 DEF Monotone, StartApplied, StartPolled, StopApplied, StopPolled
<1> QED
  BY <1>2, <1>4, <1>5, <1>6, <1>7, <1>8 DEF OwnOK, Unrecorded

\* A command begins, without the lease.
LEMMA CommandMoves ==
  ASSUME OwnOK, NEW p \in Proc, NEW c \in {"start", "stop", "reset", "logs"},
         NEW r \in Release \cup {None}, NEW l \in {"s_begin", "t_lease", "r_prompt", "l_stream"},
         Command(p, c, r, l), l \in Releasing => r \in Release
  PROVE  OwnOK' /\ Monotone /\ Unrecorded
<1> USE DEF Command
<1>1. /\ pc \in [Proc -> Label] /\ call \in [Proc -> Call] /\ res \in [Proc -> Result]
  BY DEF OwnOK, OwnTypes
<1>2. /\ pc'[p] = l /\ call'[p].rel = r /\ res'[p] = "none"
      /\ \A q \in Proc \ {p} : pc'[q] = pc[q] /\ call'[q] = call[q] /\ res'[q] = res[q]
  BY <1>1
<1>3. [cmd |-> c, rel |-> r] \in Call /\ l \in Label
  BY DEF Call, Label
<1>4. OwnTypes'
  BY <1>1, <1>3 DEF OwnOK, OwnTypes, Result
<1>5. "idle" \notin Leased \cup Walking /\ l \notin Leased \cup Walking \cup RecordLabels
  BY DEF Leased, Walking, RecordLabels, StartLabels, StopLabels, ResetLabels
<1>6. LeaseInv'
  BY <1>2, <1>5 DEF OwnOK, LeaseInv
<1>7. CallInv'
  BY <1>2, <1>5 DEF OwnOK, CallInv, Walking
<1>8. Monotone
  BY <1>2 DEF Monotone, StartApplied, StartPolled, StopApplied, StopPolled
<1> QED
  BY <1>2, <1>4, <1>5, <1>6, <1>7, <1>8 DEF OwnOK, Unrecorded

\* A command takes the lease, or ends.
LEMMA LeaseMoves ==
  ASSUME OwnOK, NEW p \in Proc, NEW from \in {"s_lease", "t_lease", "r_lease"},
         NEW l \in {"s_ns", "t_verify", "r_ns"}, Lease(p, from, l),
         l \in Releasing => from \in Releasing
  PROVE  OwnOK' /\ Monotone /\ Unrecorded
<1>1. CASE Return(p, "conflict") \/ Return(p, "error")
  <2>1. "conflict" \in Result /\ "error" \in Result
    BY DEF Result
  <2> QED
    BY <1>1, <2>1, ReturnMoves
<1>2. CASE /\ pc[p] = from /\ lock = None /\ lock' = p
           /\ pc' = [pc EXCEPT ![p] = l] /\ UNCHANGED <<call, at, res>>
  <2>1. pc \in [Proc -> Label] /\ at \in [Proc -> 1..Len(Bundle)]
    BY DEF OwnOK, OwnTypes
  <2>2. pc'[p] = l /\ \A q \in Proc \ {p} : pc'[q] = pc[q]
    BY <1>2, <2>1
  <2>3. /\ l \in Label \cap Leased /\ l \notin Walking \cup RecordLabels /\ l # "idle"
        /\ from \notin Walking /\ from # "idle"
    BY DEF Label, Leased, Walking, RecordLabels, StartLabels, StopLabels, ResetLabels
  <2>4. OwnTypes'
    BY <1>2, <2>1, <2>3 DEF OwnOK, OwnTypes
  <2>5. LeaseInv'
    BY <1>2, <2>2, <2>3, EnvNoneAssumption DEF OwnOK, LeaseInv
  <2>6. CallInv'
    BY <1>2, <2>2, <2>3 DEF OwnOK, CallInv, Walking
  <2>7. Monotone
    BY <1>2, <2>2 DEF Monotone, StartApplied, StartPolled, StopApplied, StopPolled
  <2> QED
    BY <1>2, <2>2, <2>3, <2>4, <2>5, <2>6, <2>7 DEF OwnOK, Unrecorded
<1> QED
  BY <1>1, <1>2 DEF Lease, Fail

\* One step of a walk over n positions; the label after the last is l.
LEMMA AdvanceMoves ==
  ASSUME OwnOK, NEW p \in Proc, NEW n \in Nat, NEW l, Advance(p, n, l),
         \/ pc[p] = "s_apply" /\ n = Len(Bundle) /\ l = "s_wait"
         \/ pc[p] = "s_wait" /\ n = Len(Workloads) /\ l = "s_set"
         \/ pc[p] = "t_apply" /\ n = Len(Workloads) /\ l = "t_wait"
         \/ pc[p] = "t_wait" /\ n = Len(Workloads) /\ l = "t_set"
  PROVE  /\ OwnOK' /\ Unrecorded
         /\ at[p] \in 1..n
         /\ \/ at[p] = n /\ pc'[p] = l /\ at'[p] = 1
            \/ at[p] < n /\ pc'[p] = pc[p] /\ at'[p] = at[p] + 1
         /\ call' = call
         /\ \A q \in Proc \ {p} : pc'[q] = pc[q] /\ at'[q] = at[q]
<1>1. /\ pc \in [Proc -> Label] /\ at \in [Proc -> 1..Len(Bundle)]
      /\ Len(Bundle) \in Nat /\ Len(Workloads) \in 1..Len(Bundle)
  BY BundleFacts DEF OwnOK, OwnTypes
<1>2. at[p] \in 1..n /\ n <= Len(Bundle)
  BY <1>1 DEF OwnOK, CallInv
<1>3. /\ pc'[p] = IF at[p] = n THEN l ELSE pc[p]
      /\ at'[p] = IF at[p] = n THEN 1 ELSE at[p] + 1
      /\ lock' = lock /\ call' = call /\ res' = res
      /\ \A q \in Proc \ {p} : pc'[q] = pc[q] /\ at'[q] = at[q]
  BY <1>1 DEF Advance
<1>4. at'[p] \in 1..n
  BY <1>2, <1>3
<1>5. /\ l \in Label \cap Leased /\ l \notin RecordLabels /\ pc[p] \in Leased /\ l # "idle"
      /\ pc[p] \in Releasing /\ pc[p] # "idle"
  BY DEF Label, Leased, RecordLabels, Releasing, StartLabels, StopLabels, ResetLabels
<1>6. OwnTypes'
  <2>1. pc' \in [Proc -> Label]
    BY <1>1, <1>5 DEF Advance
  <2>2. at' = [at EXCEPT ![p] = at'[p]] /\ at'[p] \in 1..Len(Bundle)
    BY <1>1, <1>2, <1>3, <1>4 DEF Advance
  <2>3. at' \in [Proc -> 1..Len(Bundle)]
    BY <1>1, <2>2
  <2> QED
    BY <1>3, <2>1, <2>3 DEF OwnOK, OwnTypes
<1>7. LeaseInv'
  BY <1>3, <1>5 DEF OwnOK, LeaseInv
<1>8. CallInv'
  <2> SUFFICES ASSUME NEW q \in Proc
               PROVE  /\ pc'[q] \in Releasing => call'[q].rel \in Release
                      /\ pc'[q] # "idle" => res'[q] = "none"
                      /\ pc'[q] \notin Walking => at'[q] = 1
                      /\ pc'[q] \in {"s_wait", "t_apply", "t_wait"} => at'[q] <= Len(Workloads)
    BY DEF CallInv
  <2>1. CASE q # p
    BY <1>3, <2>1 DEF OwnOK, CallInv
  <2>2. CASE q = p
    <3>1. call[p].rel \in Release /\ res[p] = "none"
      BY <1>5 DEF OwnOK, CallInv
    <3>2. pc'[q] \notin Walking => at'[q] = 1
      BY <1>3, <2>2 DEF Walking
    <3>3. pc'[q] \in {"s_wait", "t_apply", "t_wait"} => at'[q] <= Len(Workloads)
      BY <1>1, <1>2, <1>3, <1>4, <2>2
    <3> QED
      BY <1>3, <2>2, <3>1, <3>2, <3>3
  <2> QED
    BY <2>1, <2>2
<1>9. Unrecorded
  BY <1>3, <1>5 DEF Unrecorded
<1> QED
  BY <1>2, <1>3, <1>6, <1>7, <1>8, <1>9 DEF OwnOK

\* A query answers at once.
LEMMA QueryMoves ==
  ASSUME OwnOK, NEW p \in Proc, NEW r \in Result, Query(p, r)
  PROVE  OwnOK' /\ Monotone /\ Unrecorded
<1>1. /\ pc[p] = "idle" /\ UNCHANGED <<lock, pc, call, at>>
      /\ \E x \in Result : res' = [res EXCEPT ![p] = x]
  BY DEF Query, Result
<1>2. OwnTypes'
  BY <1>1 DEF OwnOK, OwnTypes
<1>3. LeaseInv' /\ CallInv'
  BY <1>1 DEF OwnOK, OwnTypes, LeaseInv, CallInv
<1> QED
  BY <1>1, <1>2, <1>3
  DEF OwnOK, Unrecorded, Monotone, StartApplied, StartPolled, StopApplied, StopPolled

\* Nothing of the processes changes.
LEMMA OwnStays ==
  ASSUME OwnOK, UNCHANGED <<lock, own>>
  PROVE  OwnOK' /\ Monotone /\ Unrecorded
BY DEF own, OwnOK, OwnTypes, LeaseInv, CallInv, Unrecorded, Monotone, StartApplied, StartPolled,
       StopApplied, StopPolled

-----------------------------------------------------------------------------
(* The answers of the queries.                                             *)

\* What statusWith and the verdict of Stop can be.
LEMMA Verdicts ==
  /\ VerifyNamespace \in {"ok", "prereq", "conflict"}
  /\ VerifyRedpanda \in {"ok", "prereq", "conflict", "error"}
  /\ VerifyWorkloads \in {"ok", "prereq", "conflict"}
  /\ StopVerdict \in Result
  /\ StatusWith \in States \cup {"prereq", "conflict", "error"}
  /\ StatusResult \in Result
<1>1. VerifyNamespace \in {"ok", "prereq", "conflict"}
  BY DEF VerifyNamespace
<1>2. VerifyRedpanda \in {"ok", "prereq", "conflict", "error"}
  BY DEF VerifyRedpanda
<1>3. VerifyWorkloads \in {"ok", "prereq", "conflict"}
  BY DEF VerifyWorkloads
<1>4. StopVerdict \in Result
  BY <1>1, <1>2, <1>3 DEF StopVerdict, Result
<1>5. StatusWith \in States \cup {"prereq", "conflict", "error"}
  BY <1>1, <1>2, <1>3 DEF StatusWith, States
<1>6. StatusResult \in Result
  BY <1>5 DEF StatusResult, Result
<1> QED
  BY <1>1, <1>2, <1>3, <1>4, <1>5, <1>6

\* A status that is not an error has found every workload of ours.
LEMMA StatusFinds ==
  ASSUME WorldTypes, StatusResult = "ok"
  PROVE  NamespaceOwned /\ \A w \in Workload : wl[w] # None /\ wl[w].own
<1>1. StatusWith \in States
  BY Verdicts DEF StatusResult
<1>2. VerifyNamespace = "ok" /\ VerifyWorkloads = "ok"
  <2>1. VerifyNamespace \notin States /\ VerifyWorkloads \notin States /\ VerifyRedpanda \notin States
    BY Verdicts DEF States
  <2> QED
    BY <1>1, <2>1 DEF StatusWith, States
<1>3. {i \in 1..Len(Workloads) : wl[Workloads[i]] = None \/ ~wl[Workloads[i]].own} = {}
  BY <1>2 DEF VerifyWorkloads
<1>4. ns # "absent" /\ ns # "foreign"
  BY <1>2 DEF VerifyNamespace
<1> QED
  BY <1>3, <1>4, BundleFacts DEF NamespaceOwned, WorldTypes

-----------------------------------------------------------------------------
(* What a step leaves alone.                                               *)

\* Kubernetes moves on by itself: specs stay, and a namespace that is not
\* ending keeps what is in it.
Quiet ==
  /\ ns' = "ours" => ns = "ours" /\ \A w \in Workload : wl[w] # None => wl'[w] # None
  /\ \A w \in Workload :
       wl'[w] # None =>
         /\ wl[w] # None /\ wl'[w].ver = wl[w].ver /\ wl'[w].rep = wl[w].rep
         /\ wl[w].ran => wl'[w].ran
         /\ wl[w].rep = 0 /\ wl[w].pod = None => wl'[w].pod = None

\* Steps that add nothing to what was polled, and take nothing of it away.
LEMMA WorkKept ==
  ASSUME WorkInv, Monotone, Quiet, touched' = touched
  PROVE  WorkInv'
<1> SUFFICES ASSUME ~touched, NEW p \in Proc, NEW w \in Workload
             PROVE  WorkOf(p, w)'
  BY DEF WorkInv
<1>1. WorkOf(p, w)
  BY DEF WorkInv
<1>2. /\ StartApplied(p, w)' => StartApplied(p, w) /\ call'[p] = call[p]
      /\ StartPolled(p, w)' => StartPolled(p, w)
      /\ StopApplied(p, w)' => StopApplied(p, w)
      /\ StopPolled(p, w)' => StopPolled(p, w)
  BY DEF Monotone
<1>3. StopPolled(p, w)' => StopApplied(p, w)
  BY <1>2 DEF StopPolled, StopApplied
<1>4. /\ ns' = "ours" => ns = "ours" /\ (wl[w] # None => wl'[w] # None)
      /\ wl'[w] # None =>
         /\ wl[w] # None /\ wl'[w].ver = wl[w].ver /\ wl'[w].rep = wl[w].rep
         /\ wl[w].ran => wl'[w].ran
         /\ wl[w].rep = 0 /\ wl[w].pod = None => wl'[w].pod = None
  BY DEF Quiet
<1>5. /\ (StartApplied(p, w)' \/ StopApplied(p, w)') /\ ns' = "ours" => wl'[w] # None
      /\ StartApplied(p, w)' /\ wl'[w] # None => wl'[w].ver = call'[p].rel /\ wl'[w].rep = 1
      /\ StartPolled(p, w)' /\ wl'[w] # None => wl'[w].ran
      /\ StopApplied(p, w)' /\ wl'[w] # None => wl'[w].rep = 0
      /\ StopPolled(p, w)' /\ wl'[w] # None => wl'[w].pod = None
  BY <1>1, <1>2, <1>3, <1>4 DEF WorkOf
<1> QED
  BY <1>5 DEF WorkOf

\* A fault is counted.
LEMMA FaultCounts ==
  ASSUME WorldTypes, Fault \/ faults' = faults
  PROVE  faults' \in Nat
BY DEF Fault, WorldTypes

\* A step that only moves a command on, and records nothing.
LEMMA OnlyMoves ==
  ASSUME Inv, OwnOK', Monotone, Unrecorded, UNCHANGED <<kube, proj, disk, touched>>,
         Fault \/ faults' = faults
  PROVE  Inv'
<1> USE DEF kube, proj, disk
<1>1. WorldTypes'
  BY FaultCounts DEF Inv, WorldTypes
<1>2. ObjectInv'
  BY DEF Inv, ObjectInv
<1>3. Quiet
  BY DEF Quiet
<1>4. WorkInv'
  BY <1>3, WorkKept DEF Inv
<1>5. RecordInv'
  BY DEF Inv, RecordInv, RecordOf, RecordLabels, Unrecorded
<1> QED
  BY <1>1, <1>2, <1>4, <1>5 DEF Inv

\* The same for a command that fails.
LEMMA OnlyFails ==
  ASSUME Inv, NEW p \in Proc, Fail(p), UNCHANGED <<kube, proj, disk, touched>>
  PROVE  Inv'
<1>1. "error" \in Result
  BY DEF Result
<1> QED
  BY <1>1, ReturnMoves, OnlyMoves DEF Inv, Fail

\* While a process holds the lease nobody else is at a label of a leased step.
LEMMA OnlyHolder ==
  ASSUME OwnOK, NEW p \in Proc, pc[p] \in Leased
  PROVE  lock = p /\ \A q \in Proc \ {p} : pc[q] \notin Leased
BY DEF OwnOK, LeaseInv

\* Nobody is, while nobody holds it.
LEMMA NoHolder ==
  ASSUME OwnOK, lock = None, NEW q \in Proc
  PROVE  pc[q] \notin Leased
BY EnvNoneAssumption DEF OwnOK, LeaseInv

\* A process outside of the leased steps has nothing applied, polled, written
\* or removed.
LEMMA OutsideIsFree ==
  ASSUME NEW q \in Proc, pc[q] \notin Leased
  PROVE  /\ RecordOf(q)
         /\ \A w \in Workload : WorkOf(q, w)
BY DEF Leased, StartLabels, StopLabels, ResetLabels, RecordOf, WorkOf, StartApplied, StartPolled,
       StopApplied, StopPolled

\* Only the lease holder has work and records to keep.
LEMMA HolderSuffices ==
  ASSUME OwnOK, NEW p \in Proc, pc[p] \in Leased,
         \A q \in Proc \ {p} : pc'[q] = pc[q]
  PROVE  /\ RecordOf(p)' => RecordInv'
         /\ (~touched' => \A w \in Workload : WorkOf(p, w)') => WorkInv'
<1>1. \A q \in Proc \ {p} : pc'[q] \notin Leased
  BY OnlyHolder
<1>2. \A q \in Proc \ {p} : RecordOf(q)' /\ \A w \in Workload : WorkOf(q, w)'
  BY <1>1 DEF Leased, StartLabels, StopLabels, ResetLabels, RecordOf, WorkOf, StartApplied,
              StartPolled, StopApplied, StopPolled
<1> QED
  BY <1>2 DEF RecordInv, WorkInv

-----------------------------------------------------------------------------
(* Applying an object.                                                     *)

\* What apply leaves: our object, with the spec that was asked for.
LEMMA AppliedFacts ==
  ASSUME WorldTypes, ObjectInv, NEW w \in Workload, NEW ver \in Release, NEW rep \in 0..1,
         wl[w] # None => wl[w].own
  PROVE  /\ Applied(w, ver, rep) \in Object /\ Applied(w, ver, rep) # None
         /\ Honest(Applied(w, ver, rep))
         /\ Applied(w, ver, rep).own
         /\ Applied(w, ver, rep).ver = ver /\ Applied(w, ver, rep).rep = rep
<1>1. ver # None /\ None \notin Object
  BY EnvNoneAssumption
<1>2. CASE wl[w] = None
  <2>1. Applied(w, ver, rep) =
          [own |-> TRUE, ver |-> ver, rep |-> rep, seen |-> FALSE, status |-> "none",
           pod |-> None, held |-> FALSE, ran |-> FALSE]
    BY <1>2 DEF Applied
  <2>2. Applied(w, ver, rep) \in Object
    BY <2>1 DEF Object
  <2> DEFINE a == Applied(w, ver, rep)
  <2>3. /\ a.own = TRUE /\ a.ver = ver /\ a.rep = rep /\ a.status = "none" /\ a.pod = None
        /\ a.seen = FALSE
    BY <2>1
  <2>4. Honest(a)
    <3> HIDE DEF a
    <3> QED
      BY <1>1, <2>3 DEF Honest
  <2> QED
    BY <1>1, <2>2, <2>3, <2>4
<1>3. CASE wl[w] # None
  <2>1. wl[w] \in Object /\ Honest(wl[w]) /\ wl[w].own
    BY <1>3 DEF WorldTypes, ObjectInv
  <2> DEFINE same == wl[w].ver = ver /\ wl[w].rep = rep
             a == Applied(w, ver, rep)
  <2>2. a = [wl[w] EXCEPT !.ver = ver, !.rep = rep, !.seen = @ /\ same,
                          !.ran = (@ /\ same) \/ wl[w].pod = ver]
    BY <1>3 DEF Applied
  <2>3. a \in Object
    BY <2>1, <2>2 DEF Object
  <2>4. /\ a.own = wl[w].own /\ a.ver = ver /\ a.rep = rep /\ a.status = wl[w].status
        /\ a.pod = wl[w].pod
        /\ a.seen = (wl[w].seen /\ same)
        /\ a.ran = ((wl[w].ran /\ same) \/ wl[w].pod = ver)
    BY <2>1, <2>2 DEF Object
  <2>5. Honest(a)
    BY <1>1, <2>1, <2>4 DEF Honest
  <2> QED
    BY <1>1, <2>1, <2>3, <2>4, <2>5
<1> QED
  BY <1>2, <1>3

-----------------------------------------------------------------------------
(* Commands that begin, take the lease, look, wait or end.                 *)

\* A label that is reached with Goto and where nothing is recorded yet.
LEMMA PlainGoto ==
  ASSUME Inv, NEW p \in Proc, NEW from, NEW l, pc[p] = from, Goto(p, l),
         <<from, l>> \in {<<"s_begin", "s_lease">>, <<"s_ns", "s_image">>,
                          <<"s_image", "s_preflight">>, <<"s_preflight", "s_apply">>,
                          <<"t_verify", "t_apply">>, <<"t_set", "t_status">>,
                          <<"r_prompt", "r_lease">>, <<"r_ns", "r_wait">>}
  PROVE  OwnOK' /\ Monotone /\ Unrecorded
<1>1. /\ l \in Label \ {"idle"} /\ from # "idle" /\ from \notin Walking
      /\ l \in Leased <=> from \in Leased
      /\ l \in Releasing => from \in Releasing
      /\ l \notin RecordLabels /\ l \notin {"s_wait", "s_set", "t_wait", "t_set"}
  BY DEF Label, Leased, Releasing, Walking, RecordLabels, StartLabels, StopLabels, ResetLabels
<1>2. l \notin {"s_rend", "s_env", "s_status"}
  BY <1>1 DEF RecordLabels
<1> QED
  BY <1>1, <1>2, GotoMoves DEF Inv

\* Likewise for a label of the tail of a command.
LEMMA RecordGoto ==
  ASSUME Inv, NEW p \in Proc, NEW from, NEW l, pc[p] = from, Goto(p, l),
         <<from, l>> \in {<<"s_set", "s_rend">>, <<"s_rend", "s_env">>, <<"s_env", "s_status">>,
                          <<"r_ns", "r_set">>, <<"r_wait", "r_set">>, <<"r_set", "r_env">>,
                          <<"r_env", "r_rend">>}
  PROVE  /\ OwnOK' /\ Monotone
         /\ pc[p] \in Leased /\ pc'[p] = l /\ call'[p] = call[p]
         /\ \A q \in Proc \ {p} : pc'[q] = pc[q]
<1>1. /\ l \in Label \ {"idle"} /\ from # "idle" /\ from \notin Walking
      /\ l \in Leased /\ from \in Leased
      /\ l \in Releasing => from \in Releasing
      /\ l \notin {"s_wait", "s_set", "t_wait", "t_set"}
      /\ l \in {"s_rend", "s_env", "s_status"} => from \in {"s_set", "s_rend", "s_env"}
  BY DEF Label, Leased, Releasing, Walking, StartLabels, StopLabels, ResetLabels
<1>2. OwnOK' /\ Monotone
  BY <1>1, GotoMoves DEF Inv
<1> QED
  BY <1>1, <1>2 DEF Goto, Inv, OwnOK, OwnTypes

\* The queries, and the commands before they take the lease.
LEMMA BeginKeeps ==
  ASSUME Inv, NEW p \in Proc, Begin(p)
  PROVE  Inv'
<1> USE DEF Inv
<1>1. ASSUME NEW r \in Result, Query(p, r) PROVE Inv'
  <2>1. OwnOK' /\ Monotone /\ Unrecorded
    BY <1>1, QueryMoves
  <2>2. UNCHANGED <<kube, proj, disk, touched>> /\ (Fault \/ faults' = faults)
    BY <1>1 DEF Query
  <2> QED
    BY <2>1, <2>2, OnlyMoves
<1>2. ASSUME NEW c \in {"start", "stop", "reset", "logs"}, NEW r \in Release \cup {None},
             NEW l \in {"s_begin", "t_lease", "r_prompt", "l_stream"},
             l \in {"s_begin", "t_lease"} => r \in Release, Command(p, c, r, l),
             Fault \/ faults' = faults
      PROVE  Inv'
  <2>1. l \in Releasing => r \in Release
    BY <1>2 DEF Releasing, StartLabels, StopLabels
  <2>2. OwnOK' /\ Monotone /\ Unrecorded
    BY <1>2, <2>1, CommandMoves
  <2>3. UNCHANGED <<kube, proj, disk, touched>>
    BY <1>2 DEF Command
  <2> QED
    BY <1>2, <2>2, <2>3, OnlyMoves
<1>3. {"ok", "prereq", "conflict", "error"} \subseteq Result
  BY DEF Result
<1>4. CASE Status(p) \/ Connect(p)
  BY <1>1, <1>3, <1>4, Verdicts DEF Status, Connect
<1>5. CASE List(p)
  <2>1. ListResult \in Result
    BY <1>3 DEF ListResult
  <2> QED
    BY <1>1, <1>5, <2>1 DEF List
<1>6. CASE ResetBegin(p)
  BY <1>1, <1>2, <1>6, Verdicts DEF ResetBegin
<1>7. CASE LogsBegin(p)
  BY <1>1, <1>2, <1>3, <1>7 DEF LogsBegin
<1>8. CASE \E r \in Release : StartBegin(p, r) \/ StopBegin(p, r)
  BY <1>2, <1>8 DEF StartBegin, StopBegin
<1> QED
  BY <1>4, <1>5, <1>6, <1>7, <1>8 DEF Begin

\* A command ends without having changed anything in this step.
LEMMA OnlyReturns ==
  ASSUME Inv, NEW p \in Proc, NEW r \in Result, Return(p, r),
         UNCHANGED <<kube, proj, disk, touched>>, Fault \/ faults' = faults
  PROVE  Inv'
BY ReturnMoves, OnlyMoves DEF Inv

\* A command moves on without having changed anything in this step.
LEMMA OnlyGoes ==
  ASSUME Inv, NEW p \in Proc, NEW from, NEW l, pc[p] = from, Goto(p, l),
         <<from, l>> \in {<<"s_begin", "s_lease">>, <<"s_ns", "s_image">>,
                          <<"s_image", "s_preflight">>, <<"s_preflight", "s_apply">>,
                          <<"t_verify", "t_apply">>, <<"t_set", "t_status">>,
                          <<"r_prompt", "r_lease">>, <<"r_ns", "r_wait">>},
         UNCHANGED <<kube, proj, disk, touched>>, faults' = faults
  PROVE  Inv'
BY PlainGoto, OnlyMoves DEF Inv

\* Steps that read: the checks, the leases, the last status, the ends of waits.
LEMMA ReadingKeeps ==
  ASSUME Inv, NEW p \in Proc,
         \/ StartEnvWritable(p) \/ StartLease(p) \/ StartNamespace(p) \/ StartImage(p)
         \/ StartPreflight(p) \/ StartStatus(p) \/ StartTimeout(p)
         \/ StopLease(p) \/ StopVerify(p) \/ StopStatus(p) \/ StopTimeout(p)
         \/ ResetConfirm(p) \/ ResetLease(p) \/ ResetTimeout(p) \/ LogsEnd(p)
  PROVE  Inv'
<1>1. {"ok", "prereq", "conflict", "error", "canceled"} \subseteq Result
  BY DEF Result
<1>2. ASSUME NEW from \in {"s_lease", "t_lease", "r_lease"}, NEW l \in {"s_ns", "t_verify", "r_ns"},
             <<from, l>> \in {<<"s_lease", "s_ns">>, <<"t_lease", "t_verify">>, <<"r_lease", "r_ns">>},
             Lease(p, from, l), UNCHANGED <<kube, proj, disk, touched>>
      PROVE  Inv'
  <2>1. l \in Releasing => from \in Releasing
    BY <1>2 DEF Releasing, StartLabels, StopLabels
  <2>2. OwnOK' /\ Monotone /\ Unrecorded
    BY <1>2, <2>1, LeaseMoves DEF Inv
  <2>3. Fault \/ faults' = faults
    BY <1>2 DEF Lease, Fail
  <2> QED
    BY <1>2, <2>2, <2>3, OnlyMoves
<1>3. CASE StartLease(p) \/ StopLease(p) \/ ResetLease(p)
  BY <1>2, <1>3 DEF StartLease, StopLease, ResetLease
<1>4. CASE StartEnvWritable(p)
  BY <1>1, <1>4, OnlyReturns, OnlyFails, OnlyGoes DEF StartEnvWritable
<1>5. CASE StartNamespace(p)
  BY <1>1, <1>5, OnlyReturns, OnlyFails, OnlyGoes DEF StartNamespace
<1>6. CASE StartImage(p)
  BY <1>1, <1>6, OnlyReturns, OnlyFails, OnlyGoes DEF StartImage
<1>7. CASE StartPreflight(p)
  BY <1>1, <1>7, OnlyReturns, OnlyFails, OnlyGoes DEF StartPreflight
<1>8. CASE StartStatus(p) \/ StopStatus(p)
  BY <1>8, OnlyReturns, OnlyFails, Verdicts DEF StartStatus, StopStatus, LastStatus
<1>9. CASE StartTimeout(p) \/ StopTimeout(p) \/ ResetTimeout(p) \/ LogsEnd(p)
  BY <1>1, <1>9, OnlyReturns DEF StartTimeout, StopTimeout, ResetTimeout, LogsEnd
<1>10. CASE StopVerify(p)
  BY <1>10, OnlyReturns, OnlyFails, OnlyGoes, Verdicts DEF StopVerify
<1>11. CASE ResetConfirm(p)
  BY <1>1, <1>11, OnlyReturns, OnlyGoes DEF ResetConfirm
<1> QED
  BY <1>3, <1>4, <1>5, <1>6, <1>7, <1>8, <1>9, <1>10, <1>11

-----------------------------------------------------------------------------
(* The waits.                                                              *)

\* Nothing but the position of a process changes.
LEMMA MovesWithWork ==
  ASSUME Inv, OwnOK', WorkInv', Unrecorded, UNCHANGED <<kube, proj, disk, touched>>,
         Fault \/ faults' = faults
  PROVE  Inv'
<1> USE DEF kube, proj, disk
<1>1. WorldTypes'
  BY FaultCounts DEF Inv, WorldTypes
<1>2. ObjectInv'
  BY DEF Inv, ObjectInv
<1>3. RecordInv'
  BY DEF Inv, RecordInv, RecordOf, RecordLabels, Unrecorded
<1> QED
  BY <1>1, <1>2, <1>3 DEF Inv

\* A workload found ready has had a pod of its spec; one found stopped has none.
LEMMA ReadyMeans ==
  ASSUME WorldTypes, ObjectInv, NEW w \in Workload
  PROVE  /\ WorkloadReady(w, 1) => wl[w] # None /\ wl[w].ran
         /\ WorkloadReady(w, 0) => wl[w] # None /\ wl[w].pod = None
<1>1. wl[w] # None => wl[w] \in Object /\ Honest(wl[w])
  BY DEF WorldTypes, ObjectInv
<1>2. WorkloadReady(w, 1) => wl[w] # None /\ wl[w].ran
  BY <1>1 DEF WorkloadReady, Honest
<1>3. WorkloadReady(w, 0) => wl[w] # None /\ wl[w].pod = None
  BY <1>1 DEF WorkloadReady, Honest
<1> QED
  BY <1>2, <1>3

\* The poll starts over.
LEMMA RestartMoves ==
  ASSUME OwnOK, NEW p \in Proc, pc[p] \in {"s_wait", "t_wait"},
         at' = [at EXCEPT ![p] = 1], UNCHANGED <<lock, pc, call, res>>
  PROVE  OwnOK' /\ Monotone /\ Unrecorded
<1>1. /\ at \in [Proc -> 1..Len(Bundle)] /\ Len(Bundle) \in Nat /\ Len(Workloads) \in 1..Len(Bundle)
  BY BundleFacts DEF OwnOK, OwnTypes
<1>2. at'[p] = 1 /\ \A q \in Proc \ {p} : at'[q] = at[q]
  BY <1>1
<1>3. OwnTypes'
  BY <1>1 DEF OwnOK, OwnTypes
<1>4. LeaseInv'
  BY DEF OwnOK, LeaseInv
<1>5. CallInv'
  BY <1>1, <1>2 DEF OwnOK, CallInv
<1>6. Monotone
  <2> SUFFICES ASSUME NEW q \in Proc, NEW w \in Workload
               PROVE  /\ StartApplied(q, w)' => StartApplied(q, w)
                      /\ StartPolled(q, w)' => StartPolled(q, w)
                      /\ StopApplied(q, w)' => StopApplied(q, w)
                      /\ StopPolled(q, w)' => StopPolled(q, w)
    BY DEF Monotone
  <2>1. CASE q # p
    BY <1>2, <2>1 DEF StartApplied, StartPolled, StopApplied, StopPolled
  <2>2. CASE q = p
    <3>1. ~\E i \in 1..Len(Workloads) : i < at'[p]
      BY <1>1, <1>2
    <3> QED
      BY <2>2, <3>1 DEF StartApplied, StartPolled, StopApplied, StopPolled
  <2> QED
    BY <2>1, <2>2
<1> QED
  BY <1>3, <1>4, <1>5, <1>6 DEF OwnOK, Unrecorded

\* One Get of the wait of Start.
LEMMA StartPollKeeps ==
  ASSUME Inv, NEW p \in Proc, StartPoll(p)
  PROVE  Inv'
<1> USE DEF Inv
<1>1. pc[p] = "s_wait" /\ Poll(p, 1, "s_set") /\ UNCHANGED <<kube, proj, disk, touched>>
      /\ faults' = faults
  BY DEF StartPoll, Poll
<1>2. CASE at' = [at EXCEPT ![p] = 1] /\ UNCHANGED <<lock, pc, call, res>>
  BY <1>1, <1>2, RestartMoves, OnlyMoves
<1>3. CASE WorkloadReady(Workloads[at[p]], 1) /\ Advance(p, Len(Workloads), "s_set")
  <2>1. Len(Workloads) \in Nat
    BY BundleFacts
  <2>2. /\ OwnOK' /\ Unrecorded /\ at[p] \in 1..Len(Workloads) /\ call' = call
        /\ \/ at[p] = Len(Workloads) /\ pc'[p] = "s_set" /\ at'[p] = 1
           \/ at[p] < Len(Workloads) /\ pc'[p] = pc[p] /\ at'[p] = at[p] + 1
        /\ \A q \in Proc \ {p} : pc'[q] = pc[q] /\ at'[q] = at[q]
    BY <1>1, <1>3, <2>1, AdvanceMoves
  <2>3. wl[Workloads[at[p]]] # None /\ wl[Workloads[at[p]]].ran
    BY <1>3, <2>2, ReadyMeans, BundleFacts
  <2>4. ASSUME ~touched, NEW w \in Workload PROVE WorkOf(p, w)'
    <3>1. WorkOf(p, w) /\ wl' = wl /\ ns' = ns
      BY <1>1, <2>4 DEF WorkInv, kube
    <3>2. StartApplied(p, w) /\ ~StopApplied(p, w)' /\ ~StopPolled(p, w)'
      BY <1>1, <2>2 DEF StartApplied, StopApplied, StopPolled
    <3>3. StartPolled(p, w)' => StartPolled(p, w) \/ w = Workloads[at[p]]
      <4>1. PICK i \in 1..Len(Workloads) : Workloads[i] = w
        BY BundleFacts
      <4>2. StartPolled(p, w)' =>
              \E j \in 1..Len(Workloads) : j < at[p] + 1 /\ Workloads[j] = w
        BY <1>1, <2>1, <2>2, <4>1 DEF StartPolled
      <4>3. StartPolled(p, w) <=> \E j \in 1..Len(Workloads) : j < at[p] /\ Workloads[j] = w
        BY <1>1 DEF StartPolled
      <4> QED
        BY <2>1, <2>2, <4>2, <4>3
    <3>4. /\ ns = "ours" => wl[w] # None
          /\ wl[w] # None => wl[w].ver = call[p].rel /\ wl[w].rep = 1
          /\ StartPolled(p, w)' /\ wl[w] # None => wl[w].ran
      BY <2>3, <3>1, <3>2, <3>3 DEF WorkOf
    <3> QED
      BY <2>2, <3>1, <3>2, <3>4 DEF WorkOf
  <2>5. touched' = touched /\ pc[p] \in Leased
    BY <1>1 DEF Leased, StartLabels
  <2>6. WorkInv'
    BY <2>2, <2>4, <2>5, HolderSuffices
  <2> QED
    BY <1>1, <2>2, <2>6, MovesWithWork
<1> QED
  BY <1>1, <1>2, <1>3 DEF Poll

\* One Get of the wait of Stop.
LEMMA StopPollKeeps ==
  ASSUME Inv, NEW p \in Proc, StopPoll(p)
  PROVE  Inv'
<1> USE DEF Inv
<1>1. pc[p] = "t_wait" /\ Poll(p, 0, "t_set") /\ UNCHANGED <<kube, proj, disk, touched>>
      /\ faults' = faults
  BY DEF StopPoll, Poll
<1>2. CASE at' = [at EXCEPT ![p] = 1] /\ UNCHANGED <<lock, pc, call, res>>
  BY <1>1, <1>2, RestartMoves, OnlyMoves
<1>3. CASE WorkloadReady(Workloads[at[p]], 0) /\ Advance(p, Len(Workloads), "t_set")
  <2>1. Len(Workloads) \in Nat
    BY BundleFacts
  <2>2. /\ OwnOK' /\ Unrecorded /\ at[p] \in 1..Len(Workloads) /\ call' = call
        /\ \/ at[p] = Len(Workloads) /\ pc'[p] = "t_set" /\ at'[p] = 1
           \/ at[p] < Len(Workloads) /\ pc'[p] = pc[p] /\ at'[p] = at[p] + 1
        /\ \A q \in Proc \ {p} : pc'[q] = pc[q] /\ at'[q] = at[q]
    BY <1>1, <1>3, <2>1, AdvanceMoves
  <2>3. wl[Workloads[at[p]]] # None /\ wl[Workloads[at[p]]].pod = None
    BY <1>3, <2>2, ReadyMeans, BundleFacts
  <2>4. ASSUME ~touched, NEW w \in Workload PROVE WorkOf(p, w)'
    <3>1. WorkOf(p, w) /\ wl' = wl /\ ns' = ns
      BY <1>1, <2>4 DEF WorkInv, kube
    <3>2. StopApplied(p, w) /\ ~StartApplied(p, w)' /\ ~StartPolled(p, w)'
      BY <1>1, <2>2 DEF StopApplied, StartApplied, StartPolled
    <3>3. StopPolled(p, w)' => StopPolled(p, w) \/ w = Workloads[at[p]]
      <4>1. PICK i \in 1..Len(Workloads) : Workloads[i] = w
        BY BundleFacts
      <4>2. StopPolled(p, w)' =>
              \E j \in 1..Len(Workloads) : j < at[p] + 1 /\ Workloads[j] = w
        BY <1>1, <2>1, <2>2, <4>1 DEF StopPolled
      <4>3. StopPolled(p, w) <=> \E j \in 1..Len(Workloads) : j < at[p] /\ Workloads[j] = w
        BY <1>1 DEF StopPolled
      <4> QED
        BY <2>1, <2>2, <4>2, <4>3
    <3>4. /\ ns = "ours" => wl[w] # None
          /\ wl[w] # None => wl[w].rep = 0
          /\ StopPolled(p, w)' /\ wl[w] # None => wl[w].pod = None
      BY <2>3, <3>1, <3>2, <3>3 DEF WorkOf
    <3> QED
      BY <2>2, <3>1, <3>2, <3>4 DEF WorkOf
  <2>5. touched' = touched /\ pc[p] \in Leased
    BY <1>1 DEF Leased, StopLabels
  <2>6. WorkInv'
    BY <2>2, <2>4, <2>5, HolderSuffices
  <2> QED
    BY <1>1, <2>2, <2>6, MovesWithWork
<1> QED
  BY <1>1, <1>2, <1>3 DEF Poll

-----------------------------------------------------------------------------
(* The applies.                                                            *)

\* One workload is applied; the others stay.
LEMMA ScaleFacts ==
  ASSUME WorldTypes, ObjectInv, NEW w \in Workload, NEW ver \in Release, NEW rep \in 0..1,
         Appliable(w, rep), wl' = [wl EXCEPT ![w] = Applied(w, ver, rep)]
  PROVE  /\ wl' \in [Workload -> Object \cup {None}] /\ ObjectInv'
         /\ wl'[w] # None /\ wl'[w].ver = ver /\ wl'[w].rep = rep
         /\ \A v \in Workload \ {w} : wl'[v] = wl[v]
<1>1. wl[w] # None => wl[w].own
  BY DEF Appliable
<1>2. /\ Applied(w, ver, rep) \in Object /\ Applied(w, ver, rep) # None
      /\ Honest(Applied(w, ver, rep))
      /\ Applied(w, ver, rep).ver = ver /\ Applied(w, ver, rep).rep = rep
  BY <1>1, AppliedFacts
<1>3. wl \in [Workload -> Object \cup {None}]
  BY DEF WorldTypes
<1>4. wl'[w] = Applied(w, ver, rep) /\ \A v \in Workload \ {w} : wl'[v] = wl[v]
  BY <1>3
<1>5. wl' \in [Workload -> Object \cup {None}]
  BY <1>2, <1>3
<1>6. ObjectInv'
  BY <1>2, <1>4 DEF ObjectInv
<1> QED
  BY <1>2, <1>4, <1>5, <1>6

\* One object of the bundle is applied; the others stay.
LEMMA ApplyFacts ==
  ASSUME WorldTypes, ObjectInv, NEW o \in Workload \cup Aux \cup {"namespace"},
         NEW ver \in Release, CanApply(o), Apply(o, ver)
  PROVE  /\ wl' \in [Workload -> Object \cup {None}] /\ ObjectInv'
         /\ aux' \in [Aux -> {"absent", "ours", "foreign"}]
         /\ ns' \in {"absent", "ours", "foreign", "ending"} /\ pvc' \in BOOLEAN
         /\ o \in Workload => wl'[o] # None /\ wl'[o].ver = ver /\ wl'[o].rep = 1
         /\ \A v \in Workload \ {o} : wl'[v] = wl[v]
         /\ ns' = ns \/ o = "namespace"
<1>1. ns' \in {"absent", "ours", "foreign", "ending"} /\ pvc' \in BOOLEAN /\ (ns' = ns \/ o = "namespace")
  BY DEF Apply, WorldTypes
<1>2. aux' \in [Aux -> {"absent", "ours", "foreign"}]
  BY DEF Apply, WorldTypes
<1>3. CASE o \in Workload
  <2>1. o \notin Aux /\ o # "namespace"
    BY <1>3, BundleFacts
  <2>2. Appliable(o, 1)
    BY <1>3, <2>1 DEF CanApply
  <2>3. wl' = [wl EXCEPT ![o] = Applied(o, ver, 1)]
    BY <1>3 DEF Apply
  <2>4. 1 \in 0..1
    OBVIOUS
  <2>5. /\ wl' \in [Workload -> Object \cup {None}] /\ ObjectInv'
        /\ wl'[o] # None /\ wl'[o].ver = ver /\ wl'[o].rep = 1
        /\ \A v \in Workload \ {o} : wl'[v] = wl[v]
    BY ONLY <1>3, <2>2, <2>3, <2>4, ScaleFacts, WorldTypes, ObjectInv, ver \in Release
  <2> QED
    BY <1>1, <1>2, <2>5
<1>4. CASE o \notin Workload
  <2>1. wl' = wl
    BY <1>4 DEF Apply
  <2> QED
    BY <1>1, <1>2, <1>4, <2>1 DEF WorldTypes, ObjectInv
<1> QED
  BY <1>3, <1>4

\* A failed, or ended, command at an apply: what it applied is nobody's work.
LEMMA AppliedAndLeft ==
  ASSUME Inv, NEW p \in Proc, pc[p] \in Leased, Return(p, "error"),
         WorldTypes', ObjectInv'
  PROVE  Inv'
<1>1. "error" \in Result
  BY DEF Result
<1>2. OwnOK'
  BY <1>1, ReturnMoves DEF Inv
<1>3. pc'[p] = "idle" /\ \A q \in Proc \ {p} : pc'[q] = pc[q]
  BY DEF Return, Inv, OwnOK, OwnTypes
<1>4. RecordOf(p)' /\ \A w \in Workload : WorkOf(p, w)'
  BY <1>3 DEF RecordOf, WorkOf, StartApplied, StartPolled, StopApplied, StopPolled
<1>5. RecordInv' /\ WorkInv'
  BY <1>3, <1>4, HolderSuffices DEF Inv
<1> QED
  BY <1>2, <1>5 DEF Inv

\* One object of the bundle.
LEMMA StartApplyKeeps ==
  ASSUME Inv, NEW p \in Proc, StartApply(p)
  PROVE  Inv'
<1> USE DEF Inv
<1> DEFINE o == Bundle[at[p]]
           rel == call[p].rel
<1>1. /\ pc[p] = "s_apply" /\ pc[p] \in Leased /\ pc[p] \in Releasing
      /\ UNCHANGED <<proj, disk, touched>>
  BY DEF StartApply, Leased, Releasing, StartLabels
<1>2. /\ at[p] \in 1..Len(Bundle) /\ Len(Bundle) \in Nat
      /\ o \in Workload \cup Aux \cup {"namespace"}
      /\ o = "namespace" => at[p] = 1
      /\ "namespace" \notin Workload
  BY BundleFacts DEF OwnOK, OwnTypes
<1>3. rel \in Release
  BY <1>1 DEF OwnOK, CallInv
<1>4. ASSUME CanApply(o), Apply(o, rel), Fault \/ faults' = faults
      PROVE  WorldTypes' /\ ObjectInv'
  <2>1. faults' \in Nat
    BY <1>4, FaultCounts
  <2>2. /\ wl' \in [Workload -> Object \cup {None}] /\ ObjectInv'
        /\ aux' \in [Aux -> {"absent", "ours", "foreign"}]
        /\ ns' \in {"absent", "ours", "foreign", "ending"} /\ pvc' \in BOOLEAN
    BY <1>2, <1>3, <1>4, ApplyFacts
  <2> QED
    BY <1>1, <2>1, <2>2 DEF WorldTypes, proj, disk
<1>5. CASE CanApply(o) /\ Apply(o, rel) /\ Advance(p, Len(Bundle), "s_wait") /\ faults' = faults
  <2>1. WorldTypes' /\ ObjectInv'
    BY <1>4, <1>5
  <2>2. /\ OwnOK' /\ call' = call
        /\ \/ at[p] = Len(Bundle) /\ pc'[p] = "s_wait" /\ at'[p] = 1
           \/ at[p] < Len(Bundle) /\ pc'[p] = pc[p] /\ at'[p] = at[p] + 1
        /\ \A q \in Proc \ {p} : pc'[q] = pc[q] /\ at'[q] = at[q]
    BY <1>1, <1>2, <1>5, AdvanceMoves
  <2>3. /\ o \in Workload => wl'[o] # None /\ wl'[o].ver = rel /\ wl'[o].rep = 1
        /\ \A v \in Workload \ {o} : wl'[v] = wl[v]
        /\ ns' = ns \/ o = "namespace"
    BY <1>2, <1>3, <1>5, ApplyFacts
  <2>4. ASSUME ~touched, NEW w \in Workload PROVE WorkOf(p, w)'
    <3>1. WorkOf(p, w)
      BY <2>4 DEF WorkInv
    <3>2. ~StartPolled(p, w)' /\ ~StopApplied(p, w)' /\ ~StopPolled(p, w)'
      <4>1. Len(Workloads) \in Nat
        BY BundleFacts
      <4> QED
        BY <1>1, <2>2, <4>1 DEF StartPolled, StopApplied, StopPolled
    <3>3. StartApplied(p, w)' => w = o \/ (StartApplied(p, w) /\ at[p] # 1)
      <4>1. PICK i \in 1..Len(Bundle) : Bundle[i] = w
        BY BundleFacts
      <4>2. StartApplied(p, w)' =>
              \E j \in 1..Len(Bundle) : j < at[p] + 1 /\ Bundle[j] = w
        BY <1>1, <1>2, <2>2, <4>1 DEF StartApplied
      <4>3. StartApplied(p, w) <=> \E j \in 1..Len(Bundle) : j < at[p] /\ Bundle[j] = w
        BY <1>1 DEF StartApplied
      <4> QED
        BY <1>2, <4>2, <4>3
    <3>4. CASE w = o
      BY <1>2, <2>2, <2>3, <3>2, <3>4 DEF WorkOf
    <3>5. CASE w # o
      <4>1. wl'[w] = wl[w] /\ (at[p] # 1 => ns' = ns)
        BY <1>2, <2>3, <3>5
      <4> QED
        BY <2>2, <3>1, <3>2, <3>3, <3>5, <4>1 DEF WorkOf
    <3> QED
      BY <3>4, <3>5
  <2>5. RecordOf(p)'
    BY <1>1, <2>2 DEF RecordOf
  <2>6. RecordInv' /\ WorkInv'
    BY <1>1, <2>2, <2>4, <2>5, HolderSuffices
  <2> QED
    BY <2>1, <2>2, <2>6
<1>6. CASE /\ ~CanApply(o) /\ UNCHANGED <<kube, faults>>
           /\ \E r \in {"conflict", "error"} : Return(p, r)
  <2>1. "conflict" \in Result /\ "error" \in Result
    BY DEF Result
  <2> QED
    BY <1>1, <1>6, <2>1, OnlyReturns
<1>7. CASE Fail(p) /\ UNCHANGED kube
  BY <1>1, <1>7, OnlyFails
<1>8. CASE Fail(p) /\ CanApply(o) /\ Apply(o, rel)
  BY <1>1, <1>4, <1>8, AppliedAndLeft DEF Fail
<1> QED
  BY <1>5, <1>6, <1>7, <1>8 DEF StartApply

\* Stop scales with an image of some release, its own or the one that is there.
LEMMA StopImageIsRelease ==
  ASSUME WorldTypes, ObjectInv, NEW p \in Proc, call[p].rel \in Release, NEW w \in Workload,
         Appliable(w, 0)
  PROVE  StopImage(p, w) \subseteq Release
<1>1. CASE w # "push-service"
  <2>1. StopImage(p, w) = {call[p].rel}
    BY <1>1 DEF StopImage
  <2> QED
    BY <2>1
<1>2. CASE w = "push-service" /\ wl[w] = None
  <2>1. StopImage(p, w) = Release
    BY <1>2 DEF StopImage
  <2> QED
    BY <2>1
<1>3. CASE w = "push-service" /\ wl[w] # None
  <2>1. StopImage(p, w) = {wl[w].ver}
    BY <1>3 DEF StopImage
  <2>2. wl[w] \in Object /\ Honest(wl[w])
    BY <1>3 DEF WorldTypes, ObjectInv
  <2>3. wl[w].ver \in Release \cup {None}
    BY <2>2 DEF Object
  <2>4. wl[w].ver # None
    BY <1>3, <2>2 DEF Appliable, Honest
  <2> QED
    BY <2>1, <2>3, <2>4
<1> QED
  BY <1>1, <1>2, <1>3

\* One workload is scaled down.
LEMMA StopApplyKeeps ==
  ASSUME Inv, NEW p \in Proc, StopApply(p)
  PROVE  Inv'
<1> USE DEF Inv
<1> DEFINE w0 == Workloads[at[p]]
           scaled == \E ver \in StopImage(p, w0) : wl' = [wl EXCEPT ![w0] = Applied(w0, ver, 0)]
<1>1. /\ pc[p] = "t_apply" /\ pc[p] \in Leased /\ pc[p] \in Releasing
      /\ UNCHANGED <<ns, aux, pvc, proj, disk, touched>>
  BY DEF StopApply, Leased, Releasing, StopLabels
<1>2. at[p] \in 1..Len(Workloads) /\ Len(Workloads) \in Nat /\ w0 \in Workload
  BY <1>1, BundleFacts DEF OwnOK, OwnTypes, CallInv
<1>3. call[p].rel \in Release
  BY <1>1 DEF OwnOK, CallInv
<1>4. Appliable(w0, 0) => StopImage(p, w0) \subseteq Release
  <2> HIDE DEF w0
  <2> QED
    BY <1>2, <1>3, StopImageIsRelease
<1>5. ASSUME Appliable(w0, 0), scaled, Fault \/ faults' = faults
      PROVE  /\ WorldTypes' /\ ObjectInv'
             /\ wl'[w0] # None /\ wl'[w0].rep = 0
             /\ \A v \in Workload \ {w0} : wl'[v] = wl[v]
  <2>1. faults' \in Nat
    BY <1>5, FaultCounts
  <2>2. PICK ver \in StopImage(p, w0) : wl' = [wl EXCEPT ![w0] = Applied(w0, ver, 0)]
    BY <1>5
  <2>3. ver \in Release /\ 0 \in 0..1
    BY <1>4, <1>5
  <2>4. /\ wl' \in [Workload -> Object \cup {None}] /\ ObjectInv'
        /\ wl'[w0] # None /\ wl'[w0].rep = 0
        /\ \A v \in Workload \ {w0} : wl'[v] = wl[v]
    <3>1. w0 \in Workload /\ WorldTypes /\ ObjectInv
      BY <1>2
    <3> HIDE DEF w0, Inv
    <3> QED
      BY <3>1, <1>5, <2>2, <2>3, ScaleFacts
  <2> QED
    BY <1>1, <2>1, <2>4 DEF WorldTypes, proj, disk
<1>6. CASE Appliable(w0, 0) /\ scaled /\ Advance(p, Len(Workloads), "t_wait") /\ faults' = faults
  <2>1. /\ WorldTypes' /\ ObjectInv'
        /\ wl'[w0] # None /\ wl'[w0].rep = 0
        /\ \A v \in Workload \ {w0} : wl'[v] = wl[v]
    BY <1>5, <1>6
  <2>2. /\ OwnOK' /\ call' = call
        /\ \/ at[p] = Len(Workloads) /\ pc'[p] = "t_wait" /\ at'[p] = 1
           \/ at[p] < Len(Workloads) /\ pc'[p] = pc[p] /\ at'[p] = at[p] + 1
        /\ \A q \in Proc \ {p} : pc'[q] = pc[q] /\ at'[q] = at[q]
    BY <1>1, <1>2, <1>6, AdvanceMoves
  <2>3. ASSUME ~touched, NEW w \in Workload PROVE WorkOf(p, w)'
    <3>1. WorkOf(p, w)
      BY <2>3 DEF WorkInv
    <3>2. ~StartApplied(p, w)' /\ ~StartPolled(p, w)' /\ ~StopPolled(p, w)'
      BY <1>1, <1>2, <2>2 DEF StartApplied, StartPolled, StopPolled
    <3>3. StopApplied(p, w)' => w = w0 \/ StopApplied(p, w)
      <4>1. PICK i \in 1..Len(Workloads) : Workloads[i] = w
        BY BundleFacts
      <4>2. StopApplied(p, w)' =>
              \E j \in 1..Len(Workloads) : j < at[p] + 1 /\ Workloads[j] = w
        BY <1>1, <1>2, <2>2, <4>1 DEF StopApplied
      <4>3. StopApplied(p, w) <=> \E j \in 1..Len(Workloads) : j < at[p] /\ Workloads[j] = w
        BY <1>1 DEF StopApplied
      <4> QED
        BY <1>2, <4>2, <4>3
    <3>4. CASE w = w0
      BY <2>1, <3>2, <3>4 DEF WorkOf
    <3>5. CASE w # w0
      <4>1. wl'[w] = wl[w] /\ ns' = ns
        BY <1>1, <2>1, <3>5
      <4> QED
        BY <3>1, <3>2, <3>3, <3>5, <4>1 DEF WorkOf
    <3> QED
      BY <3>4, <3>5
  <2>4. RecordOf(p)'
    BY <1>1, <2>2 DEF RecordOf
  <2>5. RecordInv' /\ WorkInv'
    BY <1>1, <2>2, <2>3, <2>4, HolderSuffices
  <2> QED
    BY <2>1, <2>2, <2>5
<1>7. CASE /\ ~Appliable(w0, 0) /\ UNCHANGED <<wl, faults>>
           /\ \E r \in {"conflict", "error"} : Return(p, r)
  <2>1. "conflict" \in Result /\ "error" \in Result
    BY DEF Result
  <2> QED
    BY <1>1, <1>7, <2>1, OnlyReturns DEF kube
<1>8. CASE Fail(p) /\ UNCHANGED wl
  BY <1>1, <1>8, OnlyFails DEF kube
<1>9. CASE Fail(p) /\ Appliable(w0, 0) /\ scaled
  BY <1>1, <1>5, <1>9, AppliedAndLeft DEF Fail
<1> QED
  BY <1>6, <1>7, <1>8, <1>9 DEF StopApply

-----------------------------------------------------------------------------
(* What commands record: the state file, the files on disk.                *)

\* A command ends; what it leaves in the state file and on disk is typed.
LEMMA EndsTyped ==
  ASSUME Inv, NEW p \in Proc, pc[p] \in Leased, NEW r \in Result, Return(p, r),
         UNCHANGED <<wl, touched>>, WorldTypes'
  PROVE  Inv'
<1>1. OwnOK'
  BY ReturnMoves DEF Inv
<1>2. pc'[p] = "idle" /\ \A q \in Proc \ {p} : pc'[q] = pc[q]
  BY DEF Return, Inv, OwnOK, OwnTypes
<1>3. RecordOf(p)' /\ \A w \in Workload : WorkOf(p, w)'
  BY <1>2 DEF RecordOf, WorkOf, StartApplied, StartPolled, StopApplied, StopPolled
<1>4. RecordInv' /\ WorkInv'
  BY <1>2, <1>3, HolderSuffices DEF Inv
<1>5. ObjectInv'
  BY DEF Inv, ObjectInv
<1> QED
  BY <1>1, <1>4, <1>5 DEF Inv

\* A command goes on to a label of its tail, and RecordOf says what it did.
LEMMA TailGoes ==
  ASSUME Inv, NEW p \in Proc, NEW from, NEW l, pc[p] = from, Goto(p, l),
         <<from, l>> \in {<<"s_set", "s_rend">>, <<"s_rend", "s_env">>, <<"s_env", "s_status">>,
                          <<"r_ns", "r_set">>, <<"r_wait", "r_set">>, <<"r_set", "r_env">>,
                          <<"r_env", "r_rend">>},
         UNCHANGED <<kube, touched, faults>>, WorldTypes',
         pc'[p] = l /\ call'[p] = call[p] => RecordOf(p)'
  PROVE  Inv'
<1>1. /\ OwnOK' /\ Monotone /\ pc[p] \in Leased /\ pc'[p] = l /\ call'[p] = call[p]
      /\ \A q \in Proc \ {p} : pc'[q] = pc[q]
  BY RecordGoto
<1>2. RecordInv'
  BY <1>1, HolderSuffices DEF Inv
<1>3. Quiet /\ WorkInv'
  BY <1>1, WorkKept DEF Inv, Quiet, kube
<1>4. ObjectInv'
  BY DEF Inv, ObjectInv, kube
<1> QED
  BY <1>1, <1>2, <1>3, <1>4 DEF Inv

\* Labels at which an error ends a command.
LEMMA LeasedLabels ==
  /\ StartLabels \subseteq Leased /\ StopLabels \subseteq Leased /\ ResetLabels \subseteq Leased
  /\ {"s_set", "s_rend", "s_env"} \subseteq StartLabels \cap Releasing
  /\ {"r_ns", "r_wait", "r_set", "r_env", "r_rend"} \subseteq ResetLabels
  /\ "error" \in Result /\ "conflict" \in Result /\ "ok" \in Result /\ "none" \in Result
BY DEF Leased, StartLabels, StopLabels, ResetLabels, Releasing, Result

\* SetEnvironmentState of start and of stop.
LEMMA ProjectKeeps ==
  ASSUME Inv, NEW p \in Proc, StartProject(p) \/ StopProject(p) \/ ResetProject(p)
  PROVE  Inv'
<1>1. CASE Fail(p) /\ UNCHANGED <<kube, proj, disk, touched>>
  BY <1>1, OnlyFails
<1>2. CASE /\ pc[p] = "s_set" /\ SetEnvironmentState(TRUE, TRUE) /\ Goto(p, "s_rend")
           /\ UNCHANGED <<kube, disk, touched, faults>>
  <2>1. known' /\ running' /\ known' \in BOOLEAN /\ running' \in BOOLEAN
    BY <1>2 DEF SetEnvironmentState
  <2>2. WorldTypes'
    BY <1>2, <2>1 DEF Inv, WorldTypes, kube, disk
  <2>3. pc'[p] = "s_rend" => RecordOf(p)'
    BY <2>1 DEF RecordOf
  <2> QED
    BY <1>2, <2>2, <2>3, TailGoes
<1>3. CASE /\ pc[p] = "t_set" /\ SetEnvironmentState(TRUE, FALSE) /\ Goto(p, "t_status")
           /\ UNCHANGED <<kube, disk, touched, faults>>
  <2>1. OwnOK' /\ Monotone /\ Unrecorded
    BY <1>3, PlainGoto
  <2>2. known' \in BOOLEAN /\ running' \in BOOLEAN
    BY <1>3 DEF SetEnvironmentState
  <2>3. WorldTypes'
    BY <1>3, <2>2 DEF Inv, WorldTypes, kube, disk
  <2>4. WorkInv' /\ ObjectInv'
    BY <1>3, <2>1, WorkKept DEF Inv, Quiet, kube, ObjectInv
  <2>5. pc[p] \in Leased /\ pc'[p] = "t_status" /\ \A q \in Proc \ {p} : pc'[q] = pc[q]
    BY <1>3 DEF Goto, Inv, OwnOK, OwnTypes, Leased, StopLabels
  <2>6. RecordOf(p)'
    BY <2>5 DEF RecordOf
  <2>7. RecordInv'
    BY <2>5, <2>6, HolderSuffices DEF Inv
  <2> QED
    BY <2>1, <2>3, <2>4, <2>7 DEF Inv
<1>4. CASE /\ pc[p] = "r_set" /\ SetEnvironmentState(FALSE, FALSE) /\ Goto(p, "r_env")
           /\ UNCHANGED <<kube, disk, touched, faults>>
  <2>1. ~known' /\ ~running' /\ known' \in BOOLEAN /\ running' \in BOOLEAN
    BY <1>4 DEF SetEnvironmentState
  <2>2. WorldTypes'
    BY <1>4, <2>1 DEF Inv, WorldTypes, kube, disk
  <2>3. ns' \in {"absent", "foreign"}
    BY <1>4 DEF Inv, RecordInv, RecordOf, kube
  <2>4. pc'[p] = "r_env" => RecordOf(p)'
    BY <2>1, <2>3 DEF RecordOf
  <2> QED
    BY <1>4, <2>2, <2>4, TailGoes
<1> QED
  BY <1>1, <1>2, <1>3, <1>4 DEF StartProject, StopProject, ResetProject

\* generator.Write.
LEMMA StartRenderKeeps ==
  ASSUME Inv, NEW p \in Proc, StartRender(p)
  PROVE  Inv'
<1>1. /\ pc[p] = "s_rend" /\ pc[p] \in Leased /\ call[p].rel \in Release
      /\ UNCHANGED <<kube, proj, dotenv, touched>>
  BY LeasedLabels DEF StartRender, Inv, OwnOK, CallInv
<1>2. ASSUME rendered' \in {rendered, None, call[p].rel}, Fault \/ faults' = faults
      PROVE  WorldTypes'
  BY <1>1, <1>2, FaultCounts DEF Inv, WorldTypes, kube, proj
<1>3. CASE rendered' = call[p].rel /\ Goto(p, "s_env") /\ UNCHANGED faults
  <2>1. WorldTypes'
    BY <1>2, <1>3
  <2>2. known /\ running
    BY <1>1 DEF Inv, RecordInv, RecordOf
  <2>3. pc'[p] = "s_env" /\ call'[p] = call[p] => RecordOf(p)'
    BY <1>1, <1>3, <2>2 DEF RecordOf, proj
  <2> QED
    BY <1>1, <1>3, <2>1, <2>3, TailGoes
<1>4. CASE Return(p, "error") /\ UNCHANGED <<rendered, faults>>
  BY <1>1, <1>2, <1>4, LeasedLabels, EndsTyped DEF kube
<1>5. CASE Fail(p) /\ rendered' \in {rendered, None, call[p].rel}
  BY <1>1, <1>2, <1>5, LeasedLabels, EndsTyped DEF kube, Fail
<1> QED
  BY <1>3, <1>4, <1>5 DEF StartRender

\* writeEnv.
LEMMA StartWriteEnvKeeps ==
  ASSUME Inv, NEW p \in Proc, StartWriteEnv(p)
  PROVE  Inv'
<1>1. /\ pc[p] = "s_env" /\ pc[p] \in Leased /\ call[p].rel \in Release
      /\ UNCHANGED <<kube, proj, rendered, touched>>
  BY LeasedLabels DEF StartWriteEnv, Inv, OwnOK, CallInv
<1>2. ASSUME dotenv' \in {dotenv, call[p].rel}, Fault \/ faults' = faults
      PROVE  WorldTypes'
  BY <1>1, <1>2, FaultCounts DEF Inv, WorldTypes, kube, proj
<1>3. CASE dotenv' = call[p].rel /\ Goto(p, "s_status") /\ UNCHANGED faults
  <2>1. WorldTypes'
    BY <1>2, <1>3
  <2>2. known /\ running /\ (~touched => rendered = call[p].rel)
    BY <1>1 DEF Inv, RecordInv, RecordOf
  <2>3. pc'[p] = "s_status" /\ call'[p] = call[p] => RecordOf(p)'
    BY <1>1, <1>3, <2>2 DEF RecordOf, proj
  <2> QED
    BY <1>1, <1>3, <2>1, <2>3, TailGoes
<1>4. CASE Return(p, "conflict") /\ UNCHANGED <<dotenv, faults>>
  BY <1>1, <1>2, <1>4, LeasedLabels, EndsTyped DEF kube
<1>5. CASE Fail(p) /\ dotenv' \in {dotenv, call[p].rel}
  BY <1>1, <1>2, <1>5, LeasedLabels, EndsTyped DEF kube, Fail
<1> QED
  BY <1>3, <1>4, <1>5 DEF StartWriteEnv

\* The namespace of the lab is deleted, and the deletion waited for.
LEMMA ResetNamespaceKeeps ==
  ASSUME Inv, NEW p \in Proc, ResetNamespace(p) \/ ResetWait(p)
  PROVE  Inv'
<1>1. pc[p] \in {"r_ns", "r_wait"} /\ pc[p] \in Leased /\ UNCHANGED <<wl, aux, pvc, proj, disk, touched>>
  BY LeasedLabels DEF ResetNamespace, ResetWait, kube
<1>2. ASSUME ns' \in {ns, "ending"}, Fault \/ faults' = faults
      PROVE  WorldTypes'
  BY <1>1, <1>2, FaultCounts DEF Inv, WorldTypes, disk, proj
<1>3. CASE ns = "absent" /\ ns' = ns /\ Goto(p, "r_set") /\ UNCHANGED faults
  <2>1. WorldTypes'
    BY <1>2, <1>3
  <2>2. pc'[p] = "r_set" => RecordOf(p)'
    BY <1>3 DEF RecordOf
  <2> QED
    BY <1>1, <1>3, <2>1, <2>2, TailGoes DEF kube
<1>4. CASE pc[p] = "r_ns" /\ ns' = "ending" /\ Goto(p, "r_wait") /\ UNCHANGED faults
  <2>1. WorldTypes'
    BY <1>2, <1>4
  <2>2. OwnOK' /\ Monotone
    BY <1>4, PlainGoto
  <2>3. WorkInv' /\ ObjectInv'
    BY <1>1, <1>4, <2>2, WorkKept DEF Inv, Quiet, ObjectInv
  <2>4. pc'[p] = "r_wait" /\ \A q \in Proc \ {p} : pc'[q] = pc[q]
    BY <1>4 DEF Goto, Inv, OwnOK, OwnTypes
  <2>5. RecordOf(p)'
    BY <2>4 DEF RecordOf
  <2>6. RecordInv'
    BY <1>1, <2>4, <2>5, HolderSuffices DEF Inv
  <2> QED
    BY <2>1, <2>2, <2>3, <2>6 DEF Inv
<1>5. CASE Return(p, "conflict") /\ UNCHANGED <<ns, faults>>
  BY <1>1, <1>2, <1>5, LeasedLabels, EndsTyped
<1>6. CASE Fail(p) /\ ns' \in {ns, "ending"}
  BY <1>1, <1>2, <1>6, LeasedLabels, EndsTyped DEF Fail
<1> QED
  BY <1>3, <1>4, <1>5, <1>6 DEF ResetNamespace, ResetWait, kube

\* The generated files are removed.
LEMMA ResetFilesKeep ==
  ASSUME Inv, NEW p \in Proc, ResetEnv(p) \/ ResetRendered(p)
  PROVE  Inv'
<1>1. pc[p] \in {"r_env", "r_rend"} /\ pc[p] \in Leased /\ UNCHANGED <<kube, proj, touched>>
  BY LeasedLabels DEF ResetEnv, ResetRendered
<1>2. ASSUME dotenv' \in {dotenv, Removed(dotenv)}, rendered' \in {rendered, Removed(rendered)},
             Fault \/ faults' = faults
      PROVE  WorldTypes'
  BY <1>1, <1>2, FaultCounts DEF Inv, WorldTypes, kube, proj, Removed
<1>3. CASE /\ pc[p] = "r_env" /\ dotenv' = Removed(dotenv) /\ rendered' = rendered
           /\ Goto(p, "r_rend") /\ UNCHANGED faults
  <2>1. WorldTypes'
    BY <1>2, <1>3
  <2>2. ns \in {"absent", "foreign"} /\ ~known /\ ~running
    BY <1>3 DEF Inv, RecordInv, RecordOf
  <2>3. dotenv' \in {None, "user"}
    BY <1>3 DEF Removed
  <2>4. pc'[p] = "r_rend" => RecordOf(p)'
    BY <1>1, <2>2, <2>3 DEF RecordOf, kube, proj
  <2> QED
    BY <1>1, <1>3, <2>1, <2>4, TailGoes
<1>4. CASE /\ dotenv' = dotenv /\ rendered' \in {rendered, Removed(rendered)}
           /\ \E r \in Result : Return(p, r)
           /\ Fault \/ faults' = faults
  BY <1>1, <1>2, <1>4, EndsTyped DEF kube
<1> QED
  BY <1>3, <1>4, LeasedLabels DEF ResetEnv, ResetRendered, Fail

\* SIGKILL at any label.
LEMMA CrashKeeps ==
  ASSUME Inv, NEW p \in Proc, Crash(p)
  PROVE  Inv'
<1>1. Return(p, "none") /\ Fault /\ UNCHANGED <<kube, proj, dotenv, touched>>
  BY DEF Crash
<1>2. CASE rendered' = rendered
  BY <1>1, <1>2, LeasedLabels, OnlyReturns DEF disk
<1>3. CASE pc[p] = "s_rend" /\ rendered' \in {rendered, None, call[p].rel}
  <2>1. pc[p] \in Leased /\ call[p].rel \in Release
    BY <1>3, LeasedLabels DEF Inv, OwnOK, CallInv
  <2>2. WorldTypes'
    BY <1>1, <1>3, <2>1, FaultCounts DEF Inv, WorldTypes, kube, proj
  <2> QED
    BY <1>1, <2>1, <2>2, LeasedLabels, EndsTyped DEF kube
<1> QED
  BY <1>2, <1>3 DEF Crash

-----------------------------------------------------------------------------
(* Kubernetes and people.                                                  *)

\* Pods come and go, and the status of a workload follows them.
LEMMA WorkloadKeeps ==
  ASSUME Inv, NEW w \in Workload, PodChange(w) \/ StatusUpdate(w)
  PROVE  Inv'
<1> USE DEF Inv
<1>1. /\ wl \in [Workload -> Object \cup {None}] /\ wl[w] # None /\ wl[w].own
      /\ UNCHANGED <<lock, ns, aux, proj, disk, own, faults, touched>>
  BY DEF PodChange, StatusUpdate, WorldTypes
<1>2. wl[w] \in Object /\ Honest(wl[w]) /\ None \notin Object
  BY <1>1, EnvNoneAssumption DEF ObjectInv
<1>3. ASSUME NEW o \in Object, Honest(o), wl' = [wl EXCEPT ![w] = o], pvc' \in BOOLEAN,
             o.ver = wl[w].ver, o.rep = wl[w].rep, wl[w].ran => o.ran,
             wl[w].rep = 0 /\ wl[w].pod = None => o.pod = None
      PROVE  Inv'
  <2>1. OwnOK' /\ Monotone /\ Unrecorded
    BY <1>1, OwnStays
  <2>2. wl'[w] = o /\ o # None /\ \A v \in Workload \ {w} : wl'[v] = wl[v]
    BY <1>1, <1>2, <1>3
  <2>3. wl' \in [Workload -> Object \cup {None}]
    BY <1>1, <1>3
  <2>4. WorldTypes'
    BY <1>1, <1>3, <2>3 DEF WorldTypes, proj, disk
  <2>5. ObjectInv'
    BY <1>3, <2>2 DEF ObjectInv
  <2>6. Quiet
    BY <1>1, <1>3, <2>2 DEF Quiet
  <2>7. WorkInv'
    BY <1>1, <2>1, <2>6, WorkKept
  <2>8. RecordInv'
    BY <1>1 DEF RecordInv, RecordOf, proj, disk, own
  <2> QED
    BY <2>1, <2>4, <2>5, <2>7, <2>8
<1>4. CASE /\ wl[w].rep = 1 /\ wl' = [wl EXCEPT ![w].pod = wl[w].ver, ![w].ran = TRUE]
           /\ pvc' \in BOOLEAN
  <2> DEFINE o == [wl[w] EXCEPT !.pod = wl[w].ver, !.ran = TRUE]
  <2>1. wl' = [wl EXCEPT ![w] = o]
    BY <1>1, <1>2, <1>4
  <2>2. o \in Object
    BY <1>2 DEF Object
  <2>3. /\ o.own = wl[w].own /\ o.ver = wl[w].ver /\ o.rep = wl[w].rep /\ o.seen = wl[w].seen
        /\ o.status = wl[w].status /\ o.pod = wl[w].ver /\ o.ran = TRUE
    BY <1>2 DEF Object
  <2> HIDE DEF o
  <2>4. Honest(o)
    BY <1>1, <1>2, <1>4, <2>3 DEF Honest
  <2>5. o.ran /\ wl[w].rep # 0
    BY <1>4, <2>3
  <2> QED
    BY <1>3, <1>4, <2>1, <2>2, <2>3, <2>4, <2>5
<1>5. CASE wl' = [wl EXCEPT ![w].pod = None] /\ pvc' \in BOOLEAN
  <2> DEFINE o == [wl[w] EXCEPT !.pod = None]
  <2>1. wl' = [wl EXCEPT ![w] = o]
    BY <1>1, <1>2, <1>5
  <2>2. o \in Object
    BY <1>2 DEF Object
  <2>3. /\ o.own = wl[w].own /\ o.ver = wl[w].ver /\ o.rep = wl[w].rep /\ o.seen = wl[w].seen
        /\ o.status = wl[w].status /\ o.pod = None /\ o.ran = wl[w].ran
    BY <1>2 DEF Object
  <2> HIDE DEF o
  <2>4. Honest(o)
    BY <1>2, <2>3 DEF Honest
  <2> QED
    BY <1>3, <1>5, <2>1, <2>2, <2>3, <2>4
<1>6. CASE StatusUpdate(w)
  <2> DEFINE st == IF wl[w].pod = None THEN "none"
                   ELSE IF wl[w].pod = wl[w].ver THEN "new" ELSE "old"
             o == [wl[w] EXCEPT !.seen = TRUE, !.status = st]
  <2>1. wl' = [wl EXCEPT ![w] = o] /\ pvc' \in BOOLEAN
    BY <1>1, <1>2, <1>6 DEF StatusUpdate, WorldTypes
  <2>2. o \in Object
    BY <1>2 DEF Object
  <2>3. /\ o.own = wl[w].own /\ o.ver = wl[w].ver /\ o.rep = wl[w].rep
        /\ o.status = st /\ o.pod = wl[w].pod /\ o.ran = wl[w].ran
    BY <1>2 DEF Object
  <2> HIDE DEF o
  <2>4. Honest(o)
    BY <1>1, <1>2, <2>3 DEF Honest
  <2> QED
    BY <1>3, <2>1, <2>2, <2>3, <2>4
<1> QED
  BY <1>4, <1>5, <1>6 DEF PodChange, WorldTypes

\* An empty namespace.
LEMMA EmptyFacts ==
  ASSUME Empty
  PROVE  /\ wl' \in [Workload -> Object \cup {None}] /\ \A w \in Workload : wl'[w] = None
         /\ aux' \in [Aux -> {"absent", "ours", "foreign"}] /\ pvc' \in BOOLEAN
BY DEF Empty

\* The namespace controller.
LEMMA CollectKeeps ==
  ASSUME Inv, NamespaceCollect
  PROVE  Inv'
<1> USE DEF Inv
<1>1. /\ ns = "ending" /\ ns' \in {"ending", "absent"} /\ Empty
      /\ UNCHANGED <<lock, proj, disk, own, faults, touched>>
  BY DEF NamespaceCollect
<1>2. OwnOK' /\ Monotone
  BY <1>1, OwnStays
<1>3. WorldTypes' /\ ObjectInv'
  BY <1>1, EmptyFacts DEF WorldTypes, ObjectInv, proj, disk
<1>4. Quiet
  BY <1>1, EmptyFacts DEF Quiet
<1>5. WorkInv'
  BY <1>1, <1>2, <1>4, WorkKept
<1>6. RecordInv'
  BY <1>1 DEF RecordInv, RecordOf, proj, disk, own
<1> QED
  BY <1>2, <1>3, <1>5, <1>6

\* What people do ends the promises about an untouched environment, but not
\* those about what is recorded.
LEMMA ManualKeeps ==
  ASSUME Inv, ManualNamespace \/ ManualObject \/ ManualFile
  PROVE  Inv'
<1> USE DEF Inv
<1>1. Fault /\ touched' = TRUE /\ UNCHANGED <<lock, own, proj>>
  BY DEF ManualNamespace, ManualObject, ManualFile, By
<1>2. OwnOK' /\ WorkInv' /\ faults' \in Nat
  BY <1>1, OwnStays, FaultCounts DEF WorkInv
<1>3. CASE ManualNamespace
  <2>1. UNCHANGED disk /\ ns' \in {"absent", "foreign", "ending"} /\ (ns' = "ending" => ns = "ours")
    BY <1>3 DEF ManualNamespace
  <2>2. WorldTypes' /\ ObjectInv'
    BY <1>1, <1>2, <1>3, <2>1, EmptyFacts DEF ManualNamespace, WorldTypes, ObjectInv, proj, disk
  <2>3. RecordInv'
    BY <1>1, <2>1 DEF RecordInv, RecordOf, proj, disk, own
  <2> QED
    BY <1>2, <2>2, <2>3
<1>4. CASE ManualObject
  <2>1. UNCHANGED <<ns, pvc, proj, disk>>
    BY <1>4 DEF ManualObject
  <2>2. RecordInv'
    BY <1>1, <2>1 DEF RecordInv, RecordOf, proj, disk, own
  <2>3. ASSUME wl' \in [Workload -> Object \cup {None}], ObjectInv',
               aux' \in [Aux -> {"absent", "ours", "foreign"}]
        PROVE  Inv'
    <3>1. WorldTypes'
      BY <1>1, <1>2, <2>1, <2>3 DEF WorldTypes, proj, disk
    <3> QED
      BY <1>2, <2>2, <2>3, <3>1
  <2>4. ASSUME NEW w \in Workload, NEW o \in Object \cup {None}, o # None => Honest(o),
               wl' = [wl EXCEPT ![w] = o], UNCHANGED aux
        PROVE  Inv'
    <3>1. wl \in [Workload -> Object \cup {None}] /\ aux' \in [Aux -> {"absent", "ours", "foreign"}]
      BY <2>4 DEF WorldTypes
    <3>2. wl' \in [Workload -> Object \cup {None}]
      BY <2>4, <3>1
    <3>3. wl'[w] = o /\ \A v \in Workload \ {w} : wl'[v] = wl[v]
      BY <2>4, <3>1
    <3>4. ObjectInv'
      BY <2>4, <3>3 DEF ObjectInv
    <3> QED
      BY <2>3, <3>1, <3>2, <3>4
  <2>5. ASSUME NEW w \in Workload, wl' = [wl EXCEPT ![w] =
                     [own |-> FALSE, ver |-> None, rep |-> 0, seen |-> TRUE,
                      status |-> "none", pod |-> None, held |-> TRUE, ran |-> FALSE]],
               UNCHANGED aux
        PROVE  Inv'
    <3> DEFINE o == [own |-> FALSE, ver |-> None, rep |-> 0, seen |-> TRUE,
                     status |-> "none", pod |-> None, held |-> TRUE, ran |-> FALSE]
    <3>1. o \in Object
      BY DEF Object
    <3>2. o.own = FALSE /\ o.pod = None /\ o.status = "none"
      OBVIOUS
    <3>3. Honest(o)
      <4> HIDE DEF o
      <4> QED
        BY <3>2 DEF Honest
    <3> QED
      BY <2>4, <2>5, <3>1, <3>3
  <2>6. ASSUME NEW w \in Workload, wl' = [wl EXCEPT ![w] = None], UNCHANGED aux
        PROVE  Inv'
    BY <2>4, <2>6
  <2>7. ASSUME NEW w \in Workload, wl[w] # None, wl[w].own, UNCHANGED aux,
               wl' = [wl EXCEPT ![w].rep = 1 - @, ![w].held = TRUE, ![w].seen = FALSE,
                                ![w].ran = (wl[w].pod = wl[w].ver)]
        PROVE  Inv'
    <3>1. wl[w] \in Object /\ Honest(wl[w])
      BY <2>7 DEF WorldTypes, ObjectInv
    <3>2. wl[w].rep \in 0..1 /\ 1 - wl[w].rep \in 0..1
      BY <3>1 DEF Object
    <3> DEFINE o == [wl[w] EXCEPT !.rep = 1 - wl[w].rep, !.held = TRUE, !.seen = FALSE,
                                  !.ran = (wl[w].pod = wl[w].ver)]
    <3>3. wl' = [wl EXCEPT ![w] = o]
      BY <2>7, <3>1 DEF WorldTypes
    <3>4. o \in Object
      BY <3>1, <3>2 DEF Object
    <3>5. /\ o.own = wl[w].own /\ o.ver = wl[w].ver /\ o.pod = wl[w].pod /\ o.seen = FALSE
          /\ o.ran = (wl[w].pod = wl[w].ver)
      BY <3>1 DEF Object
    <3>6. Honest(o)
      <4> HIDE DEF o
      <4> QED
        BY <2>7, <3>1, <3>5 DEF Honest
    <3> QED
      BY <2>4, <2>7, <3>3, <3>4, <3>6
  <2>8. ASSUME UNCHANGED wl, NEW a \in Aux, NEW x \in {"absent", "foreign"},
               aux' = [aux EXCEPT ![a] = x]
        PROVE  Inv'
    <3>1. wl' \in [Workload -> Object \cup {None}] /\ ObjectInv'
      BY <2>8 DEF WorldTypes, ObjectInv
    <3>2. aux' \in [Aux -> {"absent", "ours", "foreign"}]
      BY <2>8 DEF WorldTypes
    <3> QED
      BY <2>3, <3>1, <3>2
  <2> QED
    BY <1>4, <2>5, <2>6, <2>7, <2>8 DEF ManualObject
<1>5. CASE ManualFile
  <2>1. UNCHANGED kube /\ dotenv' \in {dotenv, "user", None} /\ rendered' \in {rendered, "user", None}
    BY <1>5 DEF ManualFile
  <2>2. WorldTypes' /\ ObjectInv'
    BY <1>1, <1>2, <2>1 DEF WorldTypes, ObjectInv, proj, kube
  <2>3. RecordInv'
    BY <1>1, <2>1 DEF RecordInv, RecordOf, proj, kube, own
  <2> QED
    BY <1>2, <2>2, <2>3
<1> QED
  BY <1>3, <1>4, <1>5

\* A new cluster, between commands.
LEMMA ReplacedKeeps ==
  ASSUME Inv, ClusterReplaced
  PROVE  Inv'
<1> USE DEF Inv
<1>1. /\ lock = None /\ Fault /\ ns' = "absent" /\ Empty /\ known' = FALSE /\ running' = FALSE
      /\ UNCHANGED <<lock, disk, own, touched>>
  BY DEF ClusterReplaced
<1>2. OwnOK' /\ faults' \in Nat
  BY <1>1, OwnStays, FaultCounts
<1>3. WorldTypes' /\ ObjectInv'
  BY <1>1, <1>2, EmptyFacts DEF WorldTypes, ObjectInv, disk
<1>4. \A q \in Proc : pc'[q] \notin Leased
  BY <1>1, NoHolder DEF own
<1>5. \A q \in Proc : RecordOf(q)' /\ \A w \in Workload : WorkOf(q, w)'
  BY <1>4 DEF Leased, StartLabels, StopLabels, ResetLabels, RecordOf, WorkOf, StartApplied,
              StartPolled, StopApplied, StopPolled
<1>6. WorkInv' /\ RecordInv'
  BY <1>5 DEF WorkInv, RecordInv
<1> QED
  BY <1>2, <1>3, <1>6

-----------------------------------------------------------------------------
(* The theorems.                                                           *)

LEMMA InitInv == Init => Inv
<1> SUFFICES ASSUME Init PROVE Inv
  OBVIOUS
<1> USE DEF Init
<1>1. OwnTypes
  <2>1. "idle" \in Label /\ NoCall \in Call /\ 1 \in 1..Len(Bundle) /\ "none" \in Result
    BY BundleFacts DEF Label, NoCall, Call, Result
  <2> QED
    BY <2>1 DEF OwnTypes
<1>2. "idle" \notin Leased \cup Releasing \cup RecordLabels
  BY DEF Leased, Releasing, RecordLabels, StartLabels, StopLabels, ResetLabels
<1>3. LeaseInv
  BY <1>2, EnvNoneAssumption DEF LeaseInv
<1>4. CallInv
  BY <1>2 DEF CallInv
<1>5. WorldTypes
  BY DEF WorldTypes
<1>6. ObjectInv
  BY DEF ObjectInv
<1>7. \A p \in Proc : pc[p] \notin Leased
  BY <1>2
<1>8. WorkInv /\ RecordInv
  BY <1>7, OutsideIsFree DEF WorkInv, RecordInv
<1> QED
  BY <1>1, <1>3, <1>4, <1>5, <1>6, <1>8 DEF Inv, OwnOK

LEMMA NextInv == Inv /\ [Next]_vars => Inv'
<1> SUFFICES ASSUME Inv, [Next]_vars PROVE Inv'
  OBVIOUS
<1>1. ASSUME NEW p \in Proc, Begin(p) PROVE Inv'
  BY <1>1, BeginKeeps
<1>2. ASSUME NEW p \in Proc, ResetConfirm(p) \/ LogsEnd(p) \/ Timeout(p) PROVE Inv'
  BY <1>2, ReadingKeeps DEF Timeout
<1>3. ASSUME NEW p \in Proc, StartStep(p) PROVE Inv'
  BY <1>3, ReadingKeeps, StartApplyKeeps, StartPollKeeps, ProjectKeeps, StartRenderKeeps,
     StartWriteEnvKeeps DEF StartStep
<1>4. ASSUME NEW p \in Proc, StopStep(p) PROVE Inv'
  BY <1>4, ReadingKeeps, StopApplyKeeps, StopPollKeeps, ProjectKeeps DEF StopStep
<1>5. ASSUME NEW p \in Proc, ResetStep(p) PROVE Inv'
  BY <1>5, ReadingKeeps, ResetNamespaceKeeps, ProjectKeeps, ResetFilesKeep DEF ResetStep
<1>6. ASSUME NEW p \in Proc, Crash(p) PROVE Inv'
  BY <1>6, CrashKeeps
<1>7. CASE Kubernetes
  BY <1>7, WorkloadKeeps, CollectKeeps DEF Kubernetes
<1>8. CASE People
  BY <1>8, ManualKeeps, ReplacedKeeps DEF People
<1>9. CASE UNCHANGED vars
  <2>1. UNCHANGED <<lock, own>> /\ UNCHANGED <<kube, proj, disk, touched>> /\ faults' = faults
    BY <1>9 DEF vars, own, kube, proj, disk
  <2> QED
    BY <2>1, OwnStays, OnlyMoves DEF Inv
<1> QED
  BY <1>1, <1>2, <1>3, <1>4, <1>5, <1>6, <1>7, <1>8, <1>9 DEF Next, Step

LEMMA EnvironmentInv == Spec => []Inv
  BY InitInv, NextInv, PTL DEF Spec

\* The variables keep their types, and no walk over the bundle or the workloads
\* leaves it.
THEOREM EnvironmentTypeCorrect == Spec => []TypeOK
<1>1. Inv => TypeOK
  BY DEF Inv, OwnOK, OwnTypes, WorldTypes, TypeOK
<1> QED
  BY <1>1, EnvironmentInv, PTL

\* What Start and Stop are about to record was true of every workload, for every
\* lab and whatever Kubernetes did between the polls.
THEOREM RecordsAreReal == Spec => []RecordedIsReal
<1>1. Inv => RecordedIsReal
  <2> SUFFICES ASSUME Inv, NEW p \in Proc, ~touched, ns = "ours", NEW w \in Workload
               PROVE  /\ pc[p] = "s_set" => wl[w] # None /\ wl[w].ver = call[p].rel
                                            /\ wl[w].rep = 1 /\ wl[w].ran
                      /\ pc[p] = "t_set" => wl[w] # None /\ wl[w].rep = 0 /\ wl[w].pod = None
    BY DEF RecordedIsReal
  <2>1. WorkOf(p, w)
    BY DEF Inv, WorkInv
  <2> QED
    BY <2>1 DEF WorkOf, StartApplied, StartPolled, StopApplied, StopPolled
<1> QED
  BY <1>1, EnvironmentInv, PTL

\* The steps of commands that change nothing in Kubernetes.
LEMMA KubeUntouched ==
  ASSUME NEW p \in Proc,
         \/ Begin(p) \/ ResetConfirm(p) \/ LogsEnd(p) \/ Timeout(p) \/ Crash(p)
         \/ Step(p) /\ ~StartApply(p) /\ ~StopApply(p) /\ ~ResetNamespace(p)
  PROVE  UNCHANGED kube
<1>1. CASE Begin(p)
  BY <1>1 DEF Begin, Status, Connect, List, ResetBegin, LogsBegin, StartBegin, StopBegin, Query,
              Command
<1>2. CASE ResetConfirm(p) \/ LogsEnd(p) \/ Timeout(p) \/ Crash(p)
  BY <1>2 DEF ResetConfirm, LogsEnd, Timeout, StartTimeout, StopTimeout, ResetTimeout, Crash
<1>3. CASE StartStep(p) /\ ~StartApply(p)
  BY <1>3 DEF StartStep, StartEnvWritable, StartLease, StartNamespace, StartImage, StartPreflight,
              StartPoll, Poll, StartProject, StartRender, StartWriteEnv, StartStatus, LastStatus
<1>4. CASE StopStep(p) /\ ~StopApply(p)
  BY <1>4 DEF StopStep, StopLease, StopVerify, StopPoll, Poll, StopProject, StopStatus, LastStatus
<1>5. CASE ResetStep(p) /\ ~ResetNamespace(p)
  BY <1>5 DEF ResetStep, ResetLease, ResetWait, ResetProject, ResetEnv, ResetRendered
<1> QED
  BY <1>1, <1>2, <1>3, <1>4, <1>5 DEF Step

\* Applied to a workload, a command keeps what is not its own.
LEMMA ApplyRespects ==
  ASSUME WorldTypes, ObjectInv, NEW w \in Workload, NEW ver \in Release, NEW rep \in 0..1,
         Appliable(w, rep),
         wl' = [wl EXCEPT ![w] = Applied(w, ver, rep)], NEW v \in Workload, wl[v] # None
  PROVE  /\ ~wl[v].own => wl'[v] = wl[v]
         /\ wl[v].held => wl'[v] # None /\ wl'[v].rep = wl[v].rep
<1>1. wl \in [Workload -> Object \cup {None}] /\ None \notin Object
  BY EnvNoneAssumption DEF WorldTypes
<1>2. CASE v # w
  BY <1>1, <1>2
<1>3. CASE v = w
  <2>1. wl[w] \in Object /\ wl'[w] = Applied(w, ver, rep)
    BY <1>1, <1>3
  <2>2. wl[w].own /\ ~(wl[w].held /\ wl[w].rep # rep)
    BY <1>3 DEF Appliable
  <2>3. Applied(w, ver, rep).rep = rep /\ Applied(w, ver, rep) # None
    BY <2>2, AppliedFacts
  <2> QED
    BY <1>3, <2>1, <2>2, <2>3
<1> QED
  BY <1>2, <1>3

\* No command changes an object of somebody else, deletes a namespace of somebody
\* else, or takes back a replica count that a user has set.
THEOREM ForeignObjectsAreKept == Spec => ForeignIsKept
<1> DEFINE Kept ==
      own' # own =>
        /\ ns = "foreign" => ns' = "foreign"
        /\ \A a \in Aux : aux[a] = "foreign" => aux'[a] = "foreign"
        /\ \A w \in Workload :
             /\ wl[w] # None /\ ~wl[w].own => wl'[w] = wl[w]
             /\ wl[w] # None /\ wl[w].held => wl'[w] # None /\ wl'[w].rep = wl[w].rep
<1>1. Inv /\ [Next]_vars => [Kept]_vars
  <2> SUFFICES ASSUME Inv, Next, own' # own PROVE Kept
    OBVIOUS
  <2>1. CASE UNCHANGED kube
    BY <2>1 DEF kube
  <2>2. ASSUME NEW p \in Proc, StartApply(p) PROVE Kept
    <3>1. CASE CanApply(Bundle[at[p]]) /\ Apply(Bundle[at[p]], call[p].rel)
      <4> DEFINE o == Bundle[at[p]]
      <4>1. WorldTypes /\ ObjectInv /\ o \in Workload \cup Aux \cup {"namespace"}
        BY BundleFacts DEF Inv, OwnOK, OwnTypes
      <4>2. call[p].rel \in Release
        BY <2>2 DEF StartApply, Inv, OwnOK, CallInv, Releasing, StartLabels
      <4>3. (ns = "foreign" => ns' = "foreign")
        BY <3>1 DEF Apply
      <4>4. ASSUME NEW a \in Aux, aux[a] = "foreign" PROVE aux'[a] = "foreign"
        <5>1. CASE o \in Aux
          <6>1. o # "namespace" /\ o \notin Workload
            BY <5>1, BundleFacts
          <6>2. aux[o] # "foreign"
            BY <3>1, <5>1, <6>1 DEF CanApply
          <6>3. a # o /\ aux' = [aux EXCEPT ![o] = "ours"]
            BY <3>1, <4>4, <5>1, <6>2 DEF Apply
          <6> QED
            BY <4>1, <4>4, <6>3 DEF WorldTypes
        <5>2. CASE o \notin Aux
          BY <3>1, <4>4, <5>2 DEF Apply
        <5> QED
          BY <5>1, <5>2
      <4>5. CASE o \in Workload
        <5>1. o \notin Aux /\ o # "namespace" /\ 1 \in 0..1
          BY <4>5, BundleFacts
        <5>2. Appliable(o, 1)
          BY <3>1, <4>5, <5>1 DEF CanApply
        <5>3. wl' = [wl EXCEPT ![o] = Applied(o, call[p].rel, 1)]
          BY <3>1, <4>5 DEF Apply
        <5>4. ASSUME NEW v \in Workload, wl[v] # None
              PROVE  /\ ~wl[v].own => wl'[v] = wl[v]
                     /\ wl[v].held => wl'[v] # None /\ wl'[v].rep = wl[v].rep
          <6> HIDE DEF o
          <6> QED
            BY <4>1, <4>5, <4>2, <5>1, <5>2, <5>3, <5>4, ApplyRespects
        <5> QED
          BY <4>3, <4>4, <5>4
      <4>6. CASE o \notin Workload
        <5>1. wl' = wl
          BY <3>1, <4>6 DEF Apply
        <5> QED
          BY <4>3, <4>4, <5>1
      <4> QED
        BY <4>5, <4>6
    <3> QED
      BY <2>1, <2>2, <3>1 DEF StartApply
  <2>3. ASSUME NEW p \in Proc, StopApply(p) PROVE Kept
    <3> DEFINE w0 == Workloads[at[p]]
    <3>1. /\ UNCHANGED <<ns, aux, pvc>> /\ 0 \in 0..1 /\ WorldTypes /\ ObjectInv
          /\ w0 \in Workload /\ call[p].rel \in Release
      BY <2>3, BundleFacts
      DEF StopApply, Inv, OwnOK, OwnTypes, CallInv, Releasing, StopLabels
    <3>2. Appliable(w0, 0) => StopImage(p, w0) \subseteq Release
      <4> HIDE DEF w0
      <4> QED
        BY <3>1, StopImageIsRelease
    <3>3. ASSUME NEW ver \in Release, Appliable(w0, 0), wl' = [wl EXCEPT ![w0] = Applied(w0, ver, 0)]
          PROVE  Kept
      <4> HIDE DEF w0
      <4>1. ASSUME NEW v \in Workload, wl[v] # None
            PROVE  /\ ~wl[v].own => wl'[v] = wl[v]
                   /\ wl[v].held => wl'[v] # None /\ wl'[v].rep = wl[v].rep
        BY <3>1, <3>3, <4>1, ApplyRespects
      <4> QED
        BY <3>1, <4>1
    <3>4. CASE UNCHANGED wl
      BY <2>1, <3>1, <3>4 DEF kube
    <3> QED
      BY <2>3, <3>3, <3>4, <3>2 DEF StopApply
  <2>4. ASSUME NEW p \in Proc, ResetNamespace(p) PROVE Kept
    <3>1. UNCHANGED <<wl, aux>> /\ (ns = "foreign" => ns' = "foreign")
      BY <2>4 DEF ResetNamespace, NamespaceOwned
    <3> QED
      BY <3>1
  <2>5. CASE Kubernetes
    <3>1. UNCHANGED own
      BY <2>5 DEF Kubernetes, PodChange, StatusUpdate, NamespaceCollect
    <3> QED
      BY <3>1
  <2>6. CASE People
    <3>1. UNCHANGED own
      BY <2>6 DEF People, ManualNamespace, ManualObject, ManualFile, By, ClusterReplaced
    <3> QED
      BY <3>1
  <2>7. ASSUME NEW p \in Proc,
               \/ Begin(p) \/ ResetConfirm(p) \/ LogsEnd(p) \/ Timeout(p) \/ Crash(p)
               \/ Step(p) /\ ~StartApply(p) /\ ~StopApply(p) /\ ~ResetNamespace(p)
        PROVE  Kept
    BY <2>1, <2>7, KubeUntouched
  <2> QED
    BY <2>2, <2>3, <2>4, <2>5, <2>6, <2>7 DEF Next
<1> QED
  BY <1>1, EnvironmentInv, PTL DEF Spec, ForeignIsKept

\* A step of one command does not set the result of another.
LEMMA OthersResults ==
  ASSUME Inv, NEW p \in Proc, NEW q \in Proc \ {p},
         Begin(q) \/ ResetConfirm(q) \/ LogsEnd(q) \/ Step(q) \/ Timeout(q) \/ Crash(q)
  PROVE  res'[p] = res[p]
<1>1. res \in [Proc -> Result]
  BY DEF Inv, OwnOK, OwnTypes
<1>2. /\ \A r : Return(q, r) => res'[p] = res[p]
      /\ \A l : Goto(q, l) => res'[p] = res[p]
      /\ \A r : Query(q, r) => res'[p] = res[p]
      /\ Fail(q) => res'[p] = res[p]
      /\ \A c, r, l : Command(q, c, r, l) => res'[p] = res[p]
      /\ \A f, l : Lease(q, f, l) => res'[p] = res[p]
  BY <1>1 DEF Return, Goto, Query, Fail, Command, Lease
<1>3. CASE Begin(q)
  BY <1>2, <1>3 DEF Begin, Status, Connect, List, ResetBegin, LogsBegin, StartBegin, StopBegin
<1>4. CASE ResetConfirm(q) \/ LogsEnd(q) \/ Timeout(q) \/ Crash(q)
  BY <1>2, <1>4 DEF ResetConfirm, LogsEnd, Timeout, StartTimeout, StopTimeout, ResetTimeout, Crash
<1>5. CASE StartStep(q)
  BY <1>2, <1>5 DEF StartStep, StartEnvWritable, StartLease, StartNamespace, StartImage,
                    StartPreflight, StartApply, StartPoll, Poll, Advance, StartProject, StartRender,
                    StartWriteEnv, StartStatus, LastStatus
<1>6. CASE StopStep(q)
  BY <1>2, <1>6 DEF StopStep, StopLease, StopVerify, StopApply, StopPoll, Poll, Advance,
                    StopProject, StopStatus, LastStatus
<1>7. CASE ResetStep(q)
  BY <1>2, <1>7 DEF ResetStep, ResetLease, ResetNamespace, ResetWait, ResetProject, ResetEnv,
                    ResetRendered
<1> QED
  BY <1>3, <1>4, <1>5, <1>6, <1>7 DEF Step

\* Start and Reset succeed only in their last step.
LEMMA SuccessSteps ==
  ASSUME Inv, Next, NEW p \in Proc, pc[p] \in {"s_status", "r_rend"}, res'[p] = "ok"
  PROVE  \/ pc[p] = "s_status" /\ StartStatus(p) /\ StatusResult = "ok"
         \/ pc[p] = "r_rend" /\ ResetRendered(p) /\ rendered' = Removed(rendered)
<1>1. res \in [Proc -> Result] /\ res[p] = "none"
  BY DEF Inv, OwnOK, OwnTypes, CallInv
<1>2. ~Kubernetes /\ ~People
  <2>1. UNCHANGED own => FALSE
    BY <1>1 DEF own
  <2>2. Kubernetes => UNCHANGED own
    BY DEF Kubernetes, PodChange, StatusUpdate, NamespaceCollect
  <2>3. People => UNCHANGED own
    BY DEF People, ManualNamespace, ManualObject, ManualFile, By, ClusterReplaced
  <2> QED
    BY <2>1, <2>2, <2>3
<1>3. Begin(p) \/ ResetConfirm(p) \/ LogsEnd(p) \/ Step(p) \/ Timeout(p) \/ Crash(p)
  BY <1>1, <1>2, OthersResults DEF Next
<1>4. \A r : Return(p, r) => res'[p] = r
  BY <1>1 DEF Return
<1>5. ~Crash(p) /\ ~Fail(p)
  BY <1>4 DEF Crash, Fail
<1>6. ~Begin(p)
  BY DEF Begin, Status, Connect, List, ResetBegin, LogsBegin, StartBegin, StopBegin, Query, Command
<1>7. ~ResetConfirm(p) /\ ~LogsEnd(p) /\ ~Timeout(p)
  BY DEF ResetConfirm, LogsEnd, Timeout, StartTimeout, StopTimeout, ResetTimeout
<1>8. Step(p) => StartStatus(p) \/ ResetRendered(p)
  BY DEF Step, StartStep, StopStep, ResetStep, StartEnvWritable, StartLease, StartNamespace,
         StartImage, StartPreflight, StartApply, StartPoll, StartProject, StartRender,
         StartWriteEnv, StopLease, StopVerify, StopApply, StopPoll, StopProject, StopStatus,
         LastStatus, ResetLease, ResetNamespace, ResetWait, ResetProject, ResetEnv, Lease
<1>9. StartStatus(p) => pc[p] = "s_status" /\ StatusResult = "ok"
  BY <1>4, <1>5 DEF StartStatus, LastStatus
<1>10. ResetRendered(p) => pc[p] = "r_rend" /\ rendered' = Removed(rendered)
  BY <1>5 DEF ResetRendered
<1> QED
  BY <1>3, <1>5, <1>6, <1>7, <1>8, <1>9, <1>10

\* A start that succeeds leaves the cluster, the state file and both outputs with
\* one release, its own.
THEOREM SuccessfulStartAgrees == Spec => SuccessIsConsistent
<1> DEFINE Agrees ==
      \A p \in Proc :
        pc[p] = "s_status" /\ res'[p] = "ok" /\ ~touched =>
          /\ known /\ running
          /\ dotenv = call[p].rel /\ rendered = call[p].rel
          /\ \A w \in Workload : wl[w].ver = call[p].rel /\ wl[w].rep = 1
<1>1. Inv /\ [Next]_vars => [Agrees]_vars
  <2> SUFFICES ASSUME Inv, Next, NEW p \in Proc, pc[p] = "s_status", res'[p] = "ok", ~touched
               PROVE  /\ known /\ running
                      /\ dotenv = call[p].rel /\ rendered = call[p].rel
                      /\ \A w \in Workload : wl[w].ver = call[p].rel /\ wl[w].rep = 1
    OBVIOUS
  <2>1. StatusResult = "ok"
    BY SuccessSteps
  <2>2. \A w \in Workload : wl[w] # None
    BY <2>1, StatusFinds DEF Inv
  <2>3. \A w \in Workload : wl[w].ver = call[p].rel /\ wl[w].rep = 1
    BY <2>2 DEF Inv, WorkInv, WorkOf, StartApplied
  <2>4. known /\ running /\ dotenv = call[p].rel /\ rendered = call[p].rel
    BY DEF Inv, RecordInv, RecordOf
  <2> QED
    BY <2>3, <2>4
<1> QED
  BY <1>1, EnvironmentInv, PTL DEF Spec, SuccessIsConsistent

\* A reset that succeeds leaves no namespace of ours, no record of it, and no
\* generated file.
THEOREM SuccessfulResetIsClean == Spec => ResetLeavesNothing
<1> DEFINE Clean ==
      \A p \in Proc :
        pc[p] = "r_rend" /\ res'[p] = "ok" =>
          /\ ns' \in {"absent", "foreign"}
          /\ ~known' /\ ~running'
          /\ dotenv' \in {None, "user"}
          /\ rendered' \in {None, "user"}
<1>1. Inv /\ [Next]_vars => [Clean]_vars
  <2> SUFFICES ASSUME Inv, Next, NEW p \in Proc, pc[p] = "r_rend", res'[p] = "ok"
               PROVE  /\ ns' \in {"absent", "foreign"}
                      /\ ~known' /\ ~running'
                      /\ dotenv' \in {None, "user"}
                      /\ rendered' \in {None, "user"}
    OBVIOUS
  <2>1. ResetRendered(p) /\ rendered' = Removed(rendered)
    BY SuccessSteps
  <2>2. ns' = ns /\ known' = known /\ running' = running /\ dotenv' = dotenv
    BY <2>1 DEF ResetRendered, kube, proj
  <2>3. ns \in {"absent", "foreign"} /\ ~known /\ ~running /\ dotenv \in {None, "user"}
    BY DEF Inv, RecordInv, RecordOf
  <2> QED
    BY <2>1, <2>2, <2>3 DEF Removed
<1> QED
  BY <1>1, EnvironmentInv, PTL DEF Spec, ResetLeavesNothing

-----------------------------------------------------------------------------
(* The environment commands as a client of the cluster package.            *)

\* What the state file says of this environment.
OnRecord == [id |-> None, namespaces |-> IF known THEN {Lab} ELSE {},
             running |-> IF running THEN {Lab} ELSE {}]

\* ManagedCluster, from the point of view of one environment: the cluster is
\* there, and it is replaced only as ClusterReplaced says.
Cluster == INSTANCE ManagedCluster WITH
  User <- Proc, Id <- {None}, Env <- {Lab}, holder <- lock, record <- OnRecord,
  intact <- TRUE, pending <- None, drawn <- {}

ClientStep ==
  \/ UNCHANGED <<lock, OnRecord>>
  \/ \E p \in Proc : Cluster!Open(p) \/ Cluster!Close(p)
  \/ \E p \in Proc, k, r \in BOOLEAN : Cluster!SetState(p, Lab, k, r)
  \/ ClusterReplaced

\* Recording is a step of the holder; any other step of a process leaves the
\* record alone, and opens or closes at most its own lease.
LEMMA MovesAsClient ==
  ASSUME NEW p \in Proc, UNCHANGED proj,
         \/ lock' = lock
         \/ lock = None /\ lock' = p
         \/ lock = p /\ lock' = None
  PROVE  ClientStep
<1>1. OnRecord' = OnRecord
  BY DEF OnRecord, proj
<1> HIDE DEF OnRecord
<1>2. CASE lock' = lock
  BY <1>1, <1>2 DEF ClientStep
<1>3. CASE lock = None /\ lock' = p
  <2>1. Cluster!Open(p)
    BY <1>1, <1>3 DEF Cluster!Open
  <2> QED
    BY <2>1 DEF ClientStep
<1>4. CASE lock = p /\ lock' = None
  <2>1. Cluster!Close(p)
    BY <1>1, <1>4 DEF Cluster!Close
  <2> QED
    BY <2>1 DEF ClientStep
<1> QED
  BY <1>2, <1>3, <1>4

\* SetEnvironmentState records one environment, for the holder of the lease.
LEMMA RecordsAsClient ==
  ASSUME NEW p \in Proc, lock = p, lock' = lock, NEW k \in BOOLEAN, NEW r \in BOOLEAN,
         known \in BOOLEAN, running \in BOOLEAN, SetEnvironmentState(k, r)
  PROVE  ClientStep
<1>1. known' = k /\ running' = (k /\ r)
  BY DEF SetEnvironmentState
<1>2. /\ OnRecord'.namespaces = IF k THEN {Lab} ELSE {}
      /\ OnRecord'.running = IF k /\ r THEN {Lab} ELSE {}
      /\ OnRecord' = [id |-> None, namespaces |-> OnRecord'.namespaces,
                      running |-> OnRecord'.running]
  BY <1>1 DEF OnRecord
<1>3. /\ OnRecord.id = None /\ OnRecord.namespaces \subseteq {Lab}
      /\ OnRecord.running \subseteq {Lab}
  BY DEF OnRecord
<1> HIDE DEF OnRecord
<1>4. /\ OnRecord'.namespaces = IF k THEN OnRecord.namespaces \cup {Lab}
                                ELSE OnRecord.namespaces \ {Lab}
      /\ OnRecord'.running = IF k /\ r THEN OnRecord.running \cup {Lab}
                             ELSE OnRecord.running \ {Lab}
  BY <1>2, <1>3
<1>5. Cluster!SetState(p, Lab, k, r)
  BY <1>2, <1>3, <1>4 DEF Cluster!SetState
<1> QED
  BY <1>5 DEF ClientStep

\* Every step towards the cluster package is one that ManagedCluster offers: a
\* lease is opened only when nobody has one and closed only by its holder, by
\* every way out of a command, and only the holder records anything, one
\* environment at a time.  ClusterLifecycle implements ManagedCluster, so what
\* this module takes for granted about the lease is what that one provides.
THEOREM LeaseIsUsedAsOffered == Spec => [][ClientStep]_vars
<1>1. ASSUME Inv, [Next]_vars PROVE [ClientStep]_vars
  <2>0. OwnOK /\ known \in BOOLEAN /\ running \in BOOLEAN
    BY <1>1 DEF Inv, WorldTypes
  <2>1. ASSUME NEW p \in Proc, NEW r, Return(p, r), UNCHANGED proj PROVE ClientStep
    BY <2>1, MovesAsClient DEF Return
  <2>2. ASSUME NEW p \in Proc, UNCHANGED <<lock, proj>> PROVE ClientStep
    BY <2>2, MovesAsClient
  <2>3. ASSUME NEW p \in Proc, Fail(p), UNCHANGED proj PROVE ClientStep
    BY <2>1, <2>3 DEF Fail
  <2>4. ASSUME NEW p \in Proc, Begin(p) PROVE ClientStep
    <3>1. UNCHANGED <<lock, proj>>
      BY <2>4 DEF Begin, Status, Connect, List, ResetBegin, LogsBegin, StartBegin, StopBegin,
                  Query, Command
    <3> QED
      BY <2>2, <3>1
  <2>5. ASSUME NEW p \in Proc, ResetConfirm(p) \/ LogsEnd(p) \/ Timeout(p) \/ Crash(p)
        PROVE  ClientStep
    <3>1. UNCHANGED proj /\ (lock' = lock \/ \E r : Return(p, r))
      BY <2>5 DEF ResetConfirm, LogsEnd, Timeout, StartTimeout, StopTimeout, ResetTimeout,
                  Crash, Goto
    <3> QED
      BY <2>1, <2>2, <3>1
  <2>6. ASSUME NEW p \in Proc, StartLease(p) \/ StopLease(p) \/ ResetLease(p) PROVE ClientStep
    <3>1. UNCHANGED proj /\ ((lock = None /\ lock' = p) \/ \E r : Return(p, r))
      BY <2>6 DEF StartLease, StopLease, ResetLease, Lease, Fail
    <3> QED
      BY <2>1, <3>1, MovesAsClient
  <2>7. ASSUME NEW p \in Proc, StartProject(p) \/ StopProject(p) \/ ResetProject(p)
        PROVE  ClientStep
    <3>1. CASE Fail(p) /\ UNCHANGED proj
      BY <2>3, <3>1
    <3>2. ASSUME NEW k \in BOOLEAN, NEW r \in BOOLEAN, SetEnvironmentState(k, r), lock' = lock
          PROVE  ClientStep
      <4>1. pc[p] \in Leased
        BY <2>7 DEF StartProject, StopProject, ResetProject, Leased, StartLabels, StopLabels,
                    ResetLabels
      <4>2. lock = p
        BY <2>0, <4>1, OnlyHolder
      <4> QED
        BY <2>0, <3>2, <4>2, RecordsAsClient
    <3> QED
      BY <2>7, <3>1, <3>2 DEF StartProject, StopProject, ResetProject, Goto
  <2>8. ASSUME NEW p \in Proc,
               \/ StartEnvWritable(p) \/ StartNamespace(p) \/ StartImage(p) \/ StartPreflight(p)
               \/ StartRender(p) \/ StartWriteEnv(p) \/ StartStatus(p) \/ StopVerify(p)
               \/ StopStatus(p) \/ ResetNamespace(p) \/ ResetWait(p) \/ ResetEnv(p)
               \/ ResetRendered(p)
        PROVE  ClientStep
    <3>1. UNCHANGED proj /\ (lock' = lock \/ \E r : Return(p, r))
      BY <2>8 DEF StartEnvWritable, StartNamespace, StartImage, StartPreflight, StartRender,
                  StartWriteEnv, StartStatus, StopVerify, StopStatus, LastStatus, ResetNamespace,
                  ResetWait, ResetEnv, ResetRendered, Goto, Fail
    <3> QED
      BY <2>1, <2>2, <3>1
  <2>9. ASSUME NEW p \in Proc, StartApply(p) \/ StartPoll(p) \/ StopApply(p) \/ StopPoll(p)
        PROVE  ClientStep
    <3>1. UNCHANGED proj /\ (lock' = lock \/ \E r : Return(p, r))
      BY <2>9 DEF StartApply, StartPoll, StopApply, StopPoll, Poll, Advance, Fail
    <3> QED
      BY <2>1, <2>2, <3>1
  <2>10. CASE Kubernetes \/ ManualNamespace \/ ManualObject \/ ManualFile
    <3>1. UNCHANGED <<lock, proj>>
      BY <2>10 DEF Kubernetes, PodChange, StatusUpdate, NamespaceCollect, ManualNamespace,
                   ManualObject, ManualFile, By
    <3>2. OnRecord' = OnRecord
      BY <3>1 DEF OnRecord, proj
    <3> QED
      BY <3>1, <3>2 DEF ClientStep
  <2>11. CASE ClusterReplaced
    BY <2>11 DEF ClientStep
  <2> QED
    BY <1>1, <2>4, <2>5, <2>6, <2>7, <2>8, <2>9, <2>10, <2>11, Zenon
    DEF Next, Step, StartStep, StopStep, ResetStep, People
<1> QED
  BY <1>1, EnvironmentInv, PTL DEF Spec

=============================================================================
