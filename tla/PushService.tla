----------------------------- MODULE PushService -----------------------------
(***************************************************************************)
(* The Push Service stub (src/internal/pushservice/service.go): requests   *)
(* of both transports run Process concurrently, one goroutine each, while  *)
(* the admin endpoint patches the behaviour.  One mutex protects the       *)
(* behaviour and the limiter; a request reads the clock before it has that *)
(* mutex and sleeps and decides after it has given it back.                *)
(*                                                                         *)
(* The limiter is golang.org/x/time/rate.  Time is counted in the unit in  *)
(* which it refills RateLimitRPS tokens.                                   *)
(***************************************************************************)
EXTENDS Integers

CONSTANTS
  Req,       \* goroutines that handle requests
  Burst,     \* RateLimitBurst
  Rate,      \* values of RateLimitRPS the admin may set
  None,      \* the absent value
  MaxTime    \* bound: the clock stops there

\* Config.Validate and PatchBehaviour admit nothing else.
ASSUME BurstAssumption == Burst \in Nat \ {0}
ASSUME RateAssumption == Rate \subseteq Nat
ASSUME TimeAssumption == MaxTime \in Nat
ASSUME PushNoneAssumption == None \notin Int /\ None \notin [tokens : Int, last : Nat \cup {None}]

VARIABLES
  behaviour,   \* Service.behaviour
  limiter,     \* Service.limiter, None for nil
  now,         \* the clock
  pc,          \* where each request is
  stamp,       \* the time a request read from the clock
  snapshot,    \* the fail rate in the behaviour a request took with it
  result,      \* what became of the last request of a goroutine
  origin,      \* ghost: timestamp of the first request this limiter let through
  admitted,    \* ghost: how many it has let through
  lost         \* ghost: by how much timestamps have run backwards since

vars == <<behaviour, limiter, now, pc, stamp, snapshot, result, origin, admitted, lost>>
ghost == <<origin, admitted, lost>>

\* The fail rate is 0, 1 or between.  The latency only delays: how long a
\* request waits is open, so the value is left out.
FailRate == {"never", "sometimes", "always"}

Behaviour == [fail : FailRate, rps : Nat]

Limiter == [tokens : Nat, last : Nat \cup {None}]

\* A nil field of the patch is None; "bad" and -1 are values out of range.
Patch == [fail : FailRate \cup {"bad", None}, latency : {"bad", None},
          rps : Rate \cup {-1, None}]

\* rate.NewLimiter: last is the zero time.
NewLimiter == [tokens |-> 0, last |-> None]

ResetLimiter(rps) == IF rps = 0 THEN None ELSE NewLimiter

Init ==
  /\ behaviour \in [fail : FailRate, rps : Rate]
  /\ limiter = ResetLimiter(behaviour.rps)
  /\ now = 0
  /\ pc = [r \in Req |-> "idle"]
  /\ stamp = [r \in Req |-> 0]
  /\ snapshot = [r \in Req |-> None]
  /\ result = [r \in Req |-> "none"]
  /\ origin = None /\ admitted = 0 /\ lost = 0

-----------------------------------------------------------------------------
(* The admin endpoint.                                                     *)

Or(field, old) == IF field = None THEN old ELSE field

Merged(patch) == [fail |-> Or(patch.fail, behaviour.fail), rps |-> Or(patch.rps, behaviour.rps)]

\* Mutant: the sign of the rate is not checked.
InRangeUnchecked(patch) == patch.fail # "bad" /\ patch.latency # "bad"

\* Only the fields of the patch can be out of range.
InRange(patch) == patch.fail # "bad" /\ patch.latency # "bad" /\ Merged(patch).rps >= 0

\* Mutant: every patch that names a rate gives a full bucket.
RateChangedNamed(patch) == patch.rps # None

\* Mutant: the comparison comes after the assignment.
RateChangedLate(patch) == FALSE

RateChanged(patch) == Merged(patch).rps # behaviour.rps

\* Mutant: a change of the rate keeps the bucket, as SetLimit would.
PatchBehaviourKeepsBucket(patch) ==
  /\ InRange(patch)
  /\ behaviour' = Merged(patch)
  /\ limiter' = IF limiter = None \/ behaviour'.rps = 0
                THEN ResetLimiter(behaviour'.rps) ELSE limiter
  /\ IF RateChanged(patch) THEN origin' = None /\ admitted' = 0 /\ lost' = 0 ELSE UNCHANGED ghost
  /\ UNCHANGED <<now, pc, stamp, snapshot, result>>

\* A patch that is rejected changes nothing, whichever field is at fault.
PatchBehaviour(patch) ==
  /\ InRange(patch)
  /\ behaviour' = Merged(patch)
  /\ limiter' = IF RateChanged(patch) THEN ResetLimiter(behaviour'.rps) ELSE limiter
  \* A bucket counts from the last change of the rate.
  /\ IF Merged(patch).rps # behaviour.rps
     THEN origin' = None /\ admitted' = 0 /\ lost' = 0
     ELSE UNCHANGED ghost
  /\ UNCHANGED <<now, pc, stamp, snapshot, result>>

-----------------------------------------------------------------------------
(* The limiter, external: Limiter.AllowN.                                  *)

Least(a, b) == IF a <= b THEN a ELSE b

\* The tokens at time t.  A time before the last one adds nothing.
Tokens(t) ==
  CASE limiter.last = None -> Burst
    [] limiter.last # None /\ t < limiter.last -> Least(Burst, limiter.tokens)
    [] OTHER -> Least(Burst, limiter.tokens + behaviour.rps * (t - limiter.last))

Allows(t) == Tokens(t) >= 1

\* A request that is let through sets the limiter's clock to its own time, back
\* if that is earlier.
Take(t) == [tokens |-> Tokens(t) - 1, last |-> t]

-----------------------------------------------------------------------------
(* Process.                                                                *)

\* Process returns; its locals are gone.
End(r, how) == /\ pc' = [pc EXCEPT ![r] = "idle"]
               /\ stamp' = [stamp EXCEPT ![r] = 0]
               /\ snapshot' = [snapshot EXCEPT ![r] = None]
               /\ result' = [result EXCEPT ![r] = how]

\* validatePush, then the clock is read, before snapshotAndAllow has the mutex.
Arrive(r) ==
  /\ pc[r] = "idle"
  /\ \/ /\ pc' = [pc EXCEPT ![r] = "stamped"]
        /\ stamp' = [stamp EXCEPT ![r] = now]
        /\ result' = [result EXCEPT ![r] = "none"]
        /\ UNCHANGED snapshot
     \/ End(r, "invalid")
  /\ UNCHANGED <<behaviour, limiter, now, ghost>>

\* snapshotAndAllow of a request that is let through.
Admit(r) ==
  /\ pc[r] = "stamped"
  /\ pc' = [pc EXCEPT ![r] = "wait"]
  /\ snapshot' = [snapshot EXCEPT ![r] = behaviour.fail]
  /\ stamp' = [stamp EXCEPT ![r] = 0]
  /\ \/ behaviour.rps = 0 /\ UNCHANGED <<limiter, ghost>>
     \/ /\ behaviour.rps # 0 /\ limiter # None /\ Allows(stamp[r])
        /\ limiter' = Take(stamp[r])
        /\ origin' = IF origin = None THEN stamp[r] ELSE origin
        /\ admitted' = admitted + 1
        /\ lost' = IF limiter.last # None /\ stamp[r] < limiter.last
                   THEN lost + (limiter.last - stamp[r]) ELSE lost
  /\ UNCHANGED <<behaviour, now, result>>

\* snapshotAndAllow of a request that is not; AllowN leaves the limiter alone.
Reject(r) ==
  /\ pc[r] = "stamped"
  /\ behaviour.rps # 0 /\ limiter # None /\ ~Allows(stamp[r])
  /\ End(r, "rate_limited")
  /\ UNCHANGED <<behaviour, limiter, now, ghost>>

\* The latency of the snapshot passes, or the caller goes away.
Wait(r) ==
  /\ pc[r] = "wait"
  /\ \/ pc' = [pc EXCEPT ![r] = "roll"] /\ UNCHANGED <<stamp, snapshot, result>>
     \/ End(r, "canceled")
  /\ UNCHANGED <<behaviour, limiter, now, ghost>>

\* s.random() < behaviour.FailRate, with the random number in [0, 1).
Fails(r) == CASE snapshot[r] = "never"  -> {FALSE}
              [] snapshot[r] = "always" -> {TRUE}
              [] OTHER -> BOOLEAN

Roll(r) ==
  /\ pc[r] = "roll"
  /\ \E f \in Fails(r) : End(r, IF f THEN "injected" ELSE "accepted")
  /\ UNCHANGED <<behaviour, limiter, now, ghost>>

Tick ==
  /\ now < MaxTime
  /\ now' = now + 1
  /\ UNCHANGED <<behaviour, limiter, pc, stamp, snapshot, result, ghost>>

Next ==
  \/ \E r \in Req : Arrive(r) \/ Admit(r) \/ Reject(r) \/ Wait(r) \/ Roll(r)
  \/ \E patch \in Patch : PatchBehaviour(patch)
  \/ Tick

Spec == Init /\ [][Next]_vars

-----------------------------------------------------------------------------
(* Properties.                                                             *)

TypeOK ==
  /\ behaviour \in Behaviour
  /\ limiter \in Limiter \cup {None}
  /\ now \in Nat
  /\ pc \in [Req -> {"idle", "stamped", "wait", "roll"}]
  /\ stamp \in [Req -> Nat]
  /\ snapshot \in [Req -> FailRate \cup {None}]
  /\ result \in [Req -> {"none", "invalid", "rate_limited", "canceled", "injected", "accepted"}]
  /\ origin \in Nat \cup {None}
  /\ admitted \in Nat
  /\ lost \in Nat

\* There is a limiter exactly while the behaviour asks for one, after any
\* sequence of patches: snapshotAndAllow calls s.limiter.AllowN without a look
\* at the pointer.
LimiterMatches == behaviour.rps # 0 <=> limiter # None

\* However requests overtake each other between the clock and the mutex and
\* whatever is patched, the limiter lets through the burst, what it refilled
\* since its first request, and what it credits twice when a timestamp runs
\* backwards; nothing if none does.  A patch that keeps the rate keeps the count.
AdmissionsBounded ==
  origin # None => admitted <= Burst + behaviour.rps * (now - origin + lost)

\* No request is turned away before the limiter in force has let the burst
\* through, however old the timestamp it brings: older than the limiter, when a
\* patch replaced that between the clock and the mutex, or older than the
\* requests that overtook it.
RejectsOnlyAfterBurst ==
  [][ \A r \in Req :
        pc[r] = "stamped" /\ pc'[r] = "idle" => admitted >= Burst
    ]_vars

=============================================================================
