-------------------------- MODULE PushServiceProofs --------------------------
(***************************************************************************)
(* The invariants of PushService for any number of requests, any burst and *)
(* any set of rates.                                                       *)
(***************************************************************************)
EXTENDS PushService, TLAPS

\* No request carries a time of the future.
StampInv == \A r \in Req : stamp[r] <= now

\* Nothing is counted before the first request of a limiter.
GhostInv == origin = None => admitted = 0 /\ lost = 0

\* A limiter that is new has let nothing through; one that is not keeps its
\* tokens within what it has not given out yet.
BucketInv ==
  /\ limiter = None => origin = None
  /\ limiter # None =>
       /\ limiter.last = None <=> origin = None
       /\ limiter.last # None =>
            /\ limiter.last <= now
            /\ limiter.tokens + admitted
                 <= Burst + behaviour.rps * (limiter.last - origin + lost)

\* What is missing in the bucket was given out, whatever the clock did.
SpentInv ==
  limiter # None /\ limiter.last # None => limiter.tokens + admitted >= Burst

\* AdmissionsBounded is not inductive: the tokens left in the bucket, and the
\* time they were counted at, have to be part of it.
Inv == TypeOK /\ LimiterMatches /\ StampInv /\ GhostInv /\ BucketInv /\ SpentInv

-----------------------------------------------------------------------------
(* Arithmetic.                                                             *)

\* What is refilled from last to t adds up with what was refilled before.
LEMMA Refill ==
  ASSUME NEW k \in Nat, NEW t \in Int, NEW last \in Int, NEW o \in Int, NEW l \in Int
  PROVE  k * (t - last) + k * (last - o + l) = k * (t - o + l)
BY SMT

\* More time refills no less.
LEMMA RefillMonotonic ==
  ASSUME NEW k \in Nat, NEW d \in Int, NEW e \in Int, d <= e
  PROVE  k * d <= k * e
<1>1. k * (e - d) \in Nat
  BY SMT
<1>2. k * (e - d) = k * e - k * d
  BY SMT
<1> QED
  BY <1>1, <1>2, SMT

-----------------------------------------------------------------------------
(* The initial state and each action.                                      *)

\* NewService starts with a limiter exactly if the configuration has a rate.
LEMMA InitInv == Init => Inv
<1> SUFFICES ASSUME Init PROVE Inv
  OBVIOUS
<1> USE DEF Init
<1>1. behaviour \in Behaviour
  BY RateAssumption DEF Behaviour
<1>2. limiter \in Limiter \cup {None}
  BY DEF ResetLimiter, NewLimiter, Limiter
<1>3. TypeOK
  BY <1>1, <1>2 DEF TypeOK
<1>4. LimiterMatches
  BY PushNoneAssumption DEF LimiterMatches, ResetLimiter, NewLimiter
<1>5. StampInv /\ GhostInv
  BY DEF StampInv, GhostInv
<1>6. BucketInv
  BY DEF BucketInv, ResetLimiter, NewLimiter
<1>7. SpentInv
  BY DEF SpentInv, ResetLimiter, NewLimiter
<1> QED
  BY <1>3, <1>4, <1>5, <1>6, <1>7 DEF Inv

\* PatchBehaviour replaces the limiter exactly when it changes the rate.
LEMMA PatchInv ==
  ASSUME Inv, NEW patch \in Patch, PatchBehaviour(patch)
  PROVE  Inv'
<1> USE DEF Inv, PatchBehaviour, RateChanged
<1> DEFINE b == Merged(patch)
<1>1. b.rps \in Nat /\ b \in Behaviour
  <2>1. /\ patch.fail \in FailRate \cup {None} /\ patch.rps \in Rate \cup {-1, None}
        /\ b.rps >= 0 /\ behaviour.rps \in Nat /\ behaviour.fail \in FailRate
    BY DEF Patch, InRange, TypeOK, Behaviour
  <2>2. b.rps = Or(patch.rps, behaviour.rps) /\ b.fail = Or(patch.fail, behaviour.fail)
    BY DEF Merged
  <2>3. b.rps \in Nat
    <3>1. CASE patch.rps = None
      BY <2>1, <2>2, <3>1 DEF Or
    <3>2. CASE patch.rps # None
      <4>1. b.rps = patch.rps
        BY <2>2, <3>2 DEF Or
      <4>2. patch.rps \in Nat \cup {-1}
        BY <2>1, <3>2, RateAssumption
      <4>3. patch.rps >= 0
        BY <2>1, <4>1
      <4> HIDE DEF b
      <4> QED
        BY <4>1, <4>2, <4>3
    <3> QED
      BY <3>1, <3>2
  <2>4. b.fail \in FailRate
    BY <2>1, <2>2 DEF Or
  <2> QED
    BY <2>3, <2>4 DEF Merged, Behaviour
<1>2. CASE b.rps # behaviour.rps
  <2>1. /\ behaviour' = b /\ limiter' = ResetLimiter(b.rps)
        /\ origin' = None /\ admitted' = 0 /\ lost' = 0
    BY <1>2
  <2>2. ResetLimiter(b.rps) \in Limiter \cup {None}
    BY DEF ResetLimiter, NewLimiter, Limiter
  <2>3. TypeOK'
    BY <1>1, <2>1, <2>2 DEF TypeOK
  <2>4. LimiterMatches'
    BY <2>1, PushNoneAssumption DEF LimiterMatches, ResetLimiter, NewLimiter
  <2>5. StampInv' /\ GhostInv'
    BY <2>1 DEF StampInv, GhostInv
  <2>6. BucketInv' /\ SpentInv'
    BY <2>1 DEF BucketInv, SpentInv, ResetLimiter, NewLimiter
  <2> QED
    BY <2>3, <2>4, <2>5, <2>6
<1>3. CASE b.rps = behaviour.rps
  <2>1. behaviour' = b /\ behaviour'.rps = behaviour.rps /\ UNCHANGED <<limiter, now, ghost>>
    BY <1>3
  <2>2. TypeOK'
    BY <1>1, <2>1 DEF TypeOK, ghost
  <2>3. LimiterMatches' /\ StampInv' /\ GhostInv'
    BY <2>1 DEF LimiterMatches, StampInv, GhostInv, ghost
  <2>4. BucketInv' /\ SpentInv'
    BY <2>1 DEF BucketInv, SpentInv, ghost
  <2> QED
    BY <2>2, <2>3, <2>4
<1> QED
  BY <1>2, <1>3

\* The tokens of any time, however early, and what was given out make the burst.
LEMMA SpentTokens ==
  ASSUME Inv, limiter # None, NEW t \in Nat
  PROVE  Tokens(t) \in Int /\ Tokens(t) + admitted >= Burst
<1>1. /\ limiter.tokens \in Nat /\ limiter.last \in Nat \cup {None} /\ admitted \in Nat
      /\ behaviour.rps \in Nat /\ Burst \in Nat
  BY BurstAssumption DEF Inv, TypeOK, Limiter, Behaviour
<1>2. CASE limiter.last = None
  BY <1>1, <1>2 DEF Tokens
<1>3. CASE limiter.last # None /\ t < limiter.last
  BY <1>1, <1>3 DEF Tokens, Least, Inv, SpentInv
<1>4. CASE limiter.last # None /\ ~(t < limiter.last)
  <2>1. t - limiter.last \in Nat
    BY <1>1, <1>4
  <2>2. behaviour.rps * (t - limiter.last) \in Nat
    BY <1>1, <2>1
  <2> QED
    BY <1>1, <1>4, <2>2 DEF Tokens, Least, Inv, SpentInv
<1> QED
  BY <1>2, <1>3, <1>4

\* A request that is let through takes one token, and its time is the new time
\* of the limiter.
LEMMA AdmitInv ==
  ASSUME Inv, NEW r \in Req, Admit(r)
  PROVE  Inv'
<1> USE DEF Inv
<1> DEFINE t == stamp[r]
<1>1. /\ t \in Nat /\ t <= now /\ now \in Nat /\ behaviour \in Behaviour
      /\ behaviour.rps \in Nat /\ Burst \in Nat /\ admitted \in Nat /\ lost \in Nat
      /\ now' = now /\ behaviour' = behaviour
  BY BurstAssumption DEF TypeOK, StampInv, Behaviour, Admit
<1>2. /\ pc' \in [Req -> {"idle", "stamped", "wait", "roll"}]
      /\ stamp' \in [Req -> Nat]
      /\ snapshot' \in [Req -> FailRate \cup {None}]
      /\ result' = result
  BY DEF TypeOK, Admit, Behaviour
<1>3. StampInv'
  BY <1>1 DEF StampInv, TypeOK, Admit
<1>4. CASE behaviour.rps = 0
  <2>1. UNCHANGED <<limiter, ghost>>
    BY <1>4 DEF Admit
  <2>2. TypeOK'
    BY <1>1, <1>2, <2>1 DEF TypeOK, ghost
  <2>3. LimiterMatches' /\ GhostInv' /\ BucketInv' /\ SpentInv'
    BY <1>1, <2>1 DEF LimiterMatches, GhostInv, BucketInv, SpentInv, ghost
  <2> QED
    BY <1>3, <2>2, <2>3
<1>5. CASE behaviour.rps # 0
  <2>1. /\ limiter # None /\ Allows(t) /\ limiter' = Take(t)
        /\ origin' = (IF origin = None THEN t ELSE origin)
        /\ admitted' = admitted + 1
        /\ lost' = (IF limiter.last # None /\ t < limiter.last
                    THEN lost + (limiter.last - t) ELSE lost)
    BY <1>5 DEF Admit
  <2>2. limiter.tokens \in Nat /\ limiter.last \in Nat \cup {None}
    BY <2>1 DEF TypeOK, Limiter
  <2>3. Tokens(t) \in Nat /\ Tokens(t) >= 1 /\ Tokens(t) <= Burst
    <3>1. CASE limiter.last = None
      BY <1>1, <2>1, <3>1 DEF Tokens, Allows
    <3>2. CASE limiter.last # None /\ t < limiter.last
      BY <1>1, <2>1, <2>2, <3>2 DEF Tokens, Allows, Least
    <3>3. CASE limiter.last # None /\ ~(t < limiter.last)
      <4>1. behaviour.rps * (t - limiter.last) \in Int
        BY <1>1, <2>2, <3>3
      <4> QED
        BY <1>1, <2>1, <2>2, <3>3, <4>1 DEF Tokens, Allows, Least
    <3> QED
      BY <3>1, <3>2, <3>3
  <2>4. /\ limiter' \in Limiter /\ limiter' # None
        /\ limiter'.tokens = Tokens(t) - 1 /\ limiter'.last = t
    BY <1>1, <2>1, <2>3, PushNoneAssumption DEF Take, Limiter
  <2>5. origin \in Nat \cup {None} /\ (limiter.last = None <=> origin = None)
    BY <2>1 DEF TypeOK, BucketInv
  <2>6. origin' \in Nat /\ admitted' \in Nat /\ lost' \in Nat
    BY <1>1, <2>1, <2>2, <2>5
  <2>7. TypeOK'
    BY <1>1, <1>2, <2>4, <2>6 DEF TypeOK
  <2>8. LimiterMatches' /\ GhostInv'
    BY <1>1, <1>5, <2>4, <2>6, PushNoneAssumption DEF LimiterMatches, GhostInv
  <2>9. (Tokens(t) - 1) + admitted' <= Burst + behaviour.rps * (t - origin' + lost')
    <3>1. CASE limiter.last = None
      <4>1. origin' = t /\ admitted' = 1 /\ lost' = 0 /\ t - origin' + lost' = 0
        BY <1>1, <2>1, <2>5, <3>1 DEF GhostInv
      <4> QED
        BY <1>1, <2>3, <4>1
    <3>2. CASE limiter.last # None
      <4> DEFINE last == limiter.last
                 k == behaviour.rps
                 before == k * (last - origin + lost)
      <4>1. /\ last \in Nat /\ origin \in Nat /\ origin' = origin
            /\ limiter.tokens + admitted <= Burst + before
            /\ before \in Int
        BY <1>1, <2>1, <2>2, <2>5, <3>2 DEF BucketInv
      <4>2. CASE t < last
        <5>1. lost' = lost + (last - t) /\ t - origin' + lost' = last - origin + lost
          BY <1>1, <2>1, <4>1, <4>2, <3>2
        <5>2. Tokens(t) <= limiter.tokens
          BY <1>1, <2>2, <3>2, <4>2 DEF Tokens, Least
        <5> QED
          BY <1>1, <2>1, <2>2, <2>3, <4>1, <5>1, <5>2
      <4>3. CASE ~(t < last)
        <5>1. lost' = lost
          BY <2>1, <4>3
        <5>2. k * (t - last) \in Int
          BY <1>1, <4>1
        <5>3. Tokens(t) <= limiter.tokens + k * (t - last)
          BY <1>1, <2>2, <3>2, <4>3, <5>2 DEF Tokens, Least
        <5>4. k * (t - last) + before = k * (t - origin' + lost')
          BY <1>1, <4>1, <5>1, Refill
        <5> QED
          BY <1>1, <2>1, <2>2, <2>3, <4>1, <5>2, <5>3, <5>4
      <4> QED
        BY <4>2, <4>3
    <3> QED
      BY <3>1, <3>2
  <2>10. BucketInv'
    BY <1>1, <2>4, <2>6, <2>9, PushNoneAssumption DEF BucketInv
  <2>11. SpentInv'
    <3>1. Tokens(t) + admitted >= Burst
      BY <1>1, <2>1, <2>2, SpentTokens
    <3> QED
      BY <1>1, <2>1, <2>3, <2>4, <3>1 DEF SpentInv
  <2> QED
    BY <1>3, <2>7, <2>8, <2>10, <2>11
<1> QED
  BY <1>4, <1>5

\* The other steps leave the limiter and what is counted alone.
LEMMA LocalInv ==
  ASSUME Inv, NEW r \in Req, Arrive(r) \/ Reject(r) \/ Wait(r) \/ Roll(r)
  PROVE  Inv'
<1> USE DEF Inv
<1>1. UNCHANGED <<behaviour, limiter, now, ghost>>
  BY DEF Arrive, Reject, Wait, Roll
<1>2. /\ pc' \in [Req -> {"idle", "stamped", "wait", "roll"}]
      /\ snapshot' \in [Req -> FailRate \cup {None}]
      /\ result' \in [Req -> {"none", "invalid", "rate_limited", "canceled", "injected",
                             "accepted"}]
  BY DEF TypeOK, Arrive, Reject, Wait, Roll, End
<1>3. stamp' \in [Req -> Nat] /\ StampInv'
  <2>1. \E x \in {stamp[r], 0, now} : stamp' = [stamp EXCEPT ![r] = x]
    BY DEF TypeOK, Arrive, Reject, Wait, Roll, End
  <2>2. PICK x \in {stamp[r], 0, now} : stamp' = [stamp EXCEPT ![r] = x]
    BY <2>1
  <2> QED
    BY <1>1, <2>2 DEF TypeOK, StampInv
<1>4. TypeOK'
  BY <1>1, <1>2, <1>3 DEF TypeOK, ghost
<1>5. LimiterMatches' /\ GhostInv' /\ BucketInv' /\ SpentInv'
  BY <1>1 DEF LimiterMatches, GhostInv, BucketInv, SpentInv, ghost
<1> QED
  BY <1>3, <1>4, <1>5

-----------------------------------------------------------------------------

\* The inductive invariant holds in every reachable state.
THEOREM PushSafety == Spec => []Inv
<1>1. Inv /\ [Next]_vars => Inv'
  <2> SUFFICES ASSUME Inv, [Next]_vars PROVE Inv'
    OBVIOUS
  <2>1. CASE \E r \in Req : Admit(r)
    BY <2>1, AdmitInv
  <2>2. CASE \E r \in Req : Arrive(r) \/ Reject(r) \/ Wait(r) \/ Roll(r)
    BY <2>2, LocalInv
  <2>3. CASE \E patch \in Patch : PatchBehaviour(patch)
    BY <2>3, PatchInv
  <2>4. CASE Tick
    BY <2>4 DEF Tick, Inv, TypeOK, LimiterMatches, StampInv, GhostInv, BucketInv, SpentInv, ghost,
                Limiter
  <2>5. CASE UNCHANGED vars
    BY <2>5 DEF vars, Inv, TypeOK, LimiterMatches, StampInv, GhostInv, BucketInv, SpentInv
  <2> QED
    BY <2>1, <2>2, <2>3, <2>4, <2>5 DEF Next
<1> QED
  BY InitInv, <1>1, PTL DEF Spec

\* Every variable keeps its type: no patch gets a value out of range in.
THEOREM PushTypeCorrect == Spec => []TypeOK
<1>1. Inv => TypeOK
  BY DEF Inv
<1> QED
  BY <1>1, PushSafety, PTL

\* snapshotAndAllow never finds a nil limiter where the rate is not zero, and
\* never a limiter of an earlier rate.
THEOREM LimiterAlwaysMatches == Spec => []LimiterMatches
<1>1. Inv => LimiterMatches
  BY DEF Inv
<1> QED
  BY <1>1, PushSafety, PTL

\* The limiter lets through no more than the burst and what it refilled, plus
\* what timestamps that run backwards are credited for.
THEOREM AdmissionsAlwaysBounded == Spec => []AdmissionsBounded
<1>1. Inv => AdmissionsBounded
  <2> SUFFICES ASSUME Inv, origin # None
               PROVE  admitted <= Burst + behaviour.rps * (now - origin + lost)
    BY DEF AdmissionsBounded
  <2>1. /\ limiter # None /\ limiter.last # None
        /\ limiter.last <= now
        /\ limiter.tokens + admitted <= Burst + behaviour.rps * (limiter.last - origin + lost)
    BY DEF Inv, BucketInv
  <2>2. /\ limiter.last \in Nat /\ limiter.tokens \in Nat /\ origin \in Nat /\ admitted \in Nat
        /\ lost \in Nat /\ now \in Nat /\ behaviour.rps \in Nat /\ Burst \in Nat
    BY <2>1, BurstAssumption DEF Inv, TypeOK, Limiter, Behaviour
  <2>3. behaviour.rps * (limiter.last - origin + lost) <= behaviour.rps * (now - origin + lost)
    BY <2>1, <2>2, RefillMonotonic
  <2>4. /\ behaviour.rps * (limiter.last - origin + lost) \in Int
        /\ behaviour.rps * (now - origin + lost) \in Int
    BY <2>2
  <2> QED
    BY <2>1, <2>2, <2>3, <2>4
<1> QED
  BY <1>1, PushSafety, PTL

\* No request is turned away before the limiter in force has let its burst
\* through, however late its timestamp reaches snapshotAndAllow.
THEOREM BurstComesFirst == Spec => RejectsOnlyAfterBurst
<1>1. Inv /\ [Next]_vars =>
        [\A r \in Req : pc[r] = "stamped" /\ pc'[r] = "idle" => admitted >= Burst]_vars
  <2> SUFFICES ASSUME Inv, Next, NEW r \in Req, pc[r] = "stamped", pc'[r] = "idle"
               PROVE  admitted >= Burst
    OBVIOUS
  <2>1. PICK q \in Req : Arrive(q) \/ Admit(q) \/ Reject(q) \/ Wait(q) \/ Roll(q)
    BY DEF Next, PatchBehaviour, Tick
  <2>2. q = r /\ Reject(r)
    BY <2>1 DEF Inv, TypeOK, Arrive, Admit, Reject, Wait, Roll, End
  <2>3. stamp[r] \in Nat /\ admitted \in Nat /\ Burst \in Nat
    BY BurstAssumption DEF Inv, TypeOK
  <2>4. limiter # None /\ ~(Tokens(stamp[r]) >= 1)
    BY <2>2 DEF Reject, Allows
  <2> QED
    BY <2>3, <2>4, SpentTokens
<1> QED
  BY <1>1, PushSafety, PTL DEF Spec, RejectsOnlyAfterBurst

=============================================================================
