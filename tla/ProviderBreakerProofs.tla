-------------------------- MODULE ProviderBreakerProofs --------------------------
(***************************************************************************)
(* Proofs about ProviderBreaker for every number of calls and every choice *)
(* of thresholds, retry counts and cooldowns.                              *)
(***************************************************************************)
EXTENDS ProviderBreaker, TLAPS

LEMMA ConstantsArePositive ==
  /\ Threshold \in Nat \ {0} /\ RateThreshold \in Nat \ {0}
  /\ AuthCooldown \in Nat \ {0} /\ RateCooldown \in Nat \ {0}
  /\ ConnectCooldown \in Nat \ {0} /\ ServerCooldown \in Nat \ {0}
  /\ BackoffMax \in Nat \ {0}
BY CountsAssumption

LEMMA UpToTyped ==
  ASSUME NEW bound \in Nat, NEW n \in 0..bound
  PROVE  UpTo(n + 1, bound) \in 0..bound /\ UpTo(n + 1, bound) >= n
BY DEF UpTo

(* The state a breaker and its messages can be in, call by call.           *)
MeshInv == TypeOK /\ DegradedMeansTripped

LEMMA MeshInit == Init => MeshInv
BY ConstantsArePositive DEF Init, MeshInv, TypeOK, DegradedMeansTripped, Tripped

(* Every answer keeps the last message and the counters in step.           *)
LEMMA MeshNext ==
  ASSUME MeshInv, [Next]_vars
  PROVE  MeshInv'
<1> USE ConstantsArePositive
    DEF MeshInv, TypeOK, DegradedMeansTripped, Tripped, breaker
<1>1. ASSUME NEW c \in Calls, Begin(c) PROVE MeshInv'
  BY <1>1 DEF Begin
<1>2. ASSUME NEW c \in Calls, Succeed(c) PROVE MeshInv'
  BY <1>2 DEF Succeed, Return
<1>3. ASSUME NEW c \in Calls, Unauthorized(c) PROVE MeshInv'
  BY <1>3 DEF Unauthorized, SetTripped, Return, UpTo
<1>4. ASSUME NEW c \in Calls, Throttled(c) PROVE MeshInv'
  BY <1>4 DEF Throttled, Sleep, UpTo
<1>5. ASSUME NEW c \in Calls, RateLimited(c) PROVE MeshInv'
  <2>1. rateFailures' \in 0..RateThreshold
    BY <1>5, UpToTyped DEF RateLimited
  <2> QED  BY <1>5, <2>1 DEF RateLimited, SetTripped, Return, UpTo
<1>6. ASSUME NEW c \in Calls, ServerDown(c) PROVE MeshInv'
  <2>1. failures' \in 0..Threshold /\ failures' >= failures
    BY <1>6, UpToTyped DEF ServerDown, RecordFailure
  <2> QED  BY <1>6, <2>1 DEF ServerDown, RecordFailure, Return, UpTo
<1>7. ASSUME NEW c \in Calls, RequestFailed(c) PROVE MeshInv'
  <2>1. failures' \in 0..Threshold /\ failures' >= failures
    BY <1>7, UpToTyped DEF RequestFailed, RecordFailure
  <2>2. mesh' = "degraded_mesh" => failures' >= Threshold
    BY <1>7, <2>1 DEF RequestFailed
  <2>3. openFor' \in Nat
    BY <1>7 DEF RequestFailed, RecordFailure, UpTo
  <2> QED  BY <1>7, <2>1, <2>2, <2>3 DEF RequestFailed, Return, Sleep
<1>8. ASSUME NEW c \in Calls, Unreachable(c) PROVE MeshInv'
  BY <1>8 DEF Unreachable, SetTripped, Return, Sleep, UpTo
<1>9. ASSUME NEW c \in Calls, Wake(c) PROVE MeshInv'
  BY <1>9 DEF Wake, Return
<1>10. CASE Tick
  BY <1>10 DEF Tick
<1>11. CASE UNCHANGED vars
  BY <1>11 DEF vars
<1> QED
  BY <1>1, <1>2, <1>3, <1>4, <1>5, <1>6, <1>7, <1>8, <1>9, <1>10, <1>11
  DEF Next, Answer

(* The type invariant.                                                     *)
THEOREM BreakerTypeOK == Spec => []TypeOK
<1>1. MeshInv => TypeOK
  BY DEF MeshInv
<1>2. MeshInv /\ [Next]_vars => MeshInv'
  BY MeshNext
<1> QED  BY <1>1, <1>2, MeshInit, PTL DEF Spec

(* "degraded" on the clients' screens always means a tripped breaker.      *)
THEOREM MeshStatusSound == Spec => []DegradedMeansTripped
<1>1. MeshInv => DegradedMeansTripped
  BY DEF MeshInv
<1>2. MeshInv /\ [Next]_vars => MeshInv'
  BY MeshNext
<1> QED  BY <1>1, <1>2, MeshInit, PTL DEF Spec

-----------------------------------------------------------------------------
(* While the time of a 401 or 403 runs, no call is under way, so none can  *)
(* shorten it.                                                             *)
QuietWhileDisabled ==
  /\ AuthCooldownHonoured
  /\ authFor > 0 => \A c \in Calls : pc[c] = "idle"

LEMMA QuietNext ==
  ASSUME MeshInv, QuietWhileDisabled, [Next]_vars
  PROVE  QuietWhileDisabled'
<1> USE ConstantsArePositive
    DEF MeshInv, TypeOK, QuietWhileDisabled, AuthCooldownHonoured, breaker
<1>1. ASSUME NEW c \in Calls, Begin(c) PROVE QuietWhileDisabled'
  BY <1>1 DEF Begin
<1>2. ASSUME NEW c \in Calls, Answer(c) PROVE QuietWhileDisabled'
  <2>1. pc[c] = "waiting"
    BY <1>2 DEF Answer, Succeed, Unauthorized, Throttled, RateLimited,
       ServerDown, RequestFailed, Unreachable
  <2>2. authFor = 0
    BY <2>1
  <2>3. CASE Unauthorized(c)
    BY <2>3 DEF Unauthorized, Alone, SetTripped, Return
  <2>4. CASE ~Unauthorized(c)
    <3>1. authFor' = 0
      BY <1>2, <2>2, <2>4 DEF Answer, Succeed, Throttled, RateLimited,
         ServerDown, RequestFailed, Unreachable
    <3>2. MeshInv'
      BY <1>2, MeshNext DEF Next
    <3> QED  BY <3>1, <3>2
  <2> QED  BY <2>3, <2>4
<1>3. ASSUME NEW c \in Calls, Wake(c) PROVE QuietWhileDisabled'
  BY <1>3 DEF Wake, Return
<1>4. CASE Tick
  BY <1>4 DEF Tick
<1>5. CASE UNCHANGED vars
  BY <1>5 DEF vars
<1> QED  BY <1>1, <1>2, <1>3, <1>4, <1>5 DEF Next

(* A 401 or 403 that finds no other call under way disables the provider   *)
(* for the whole cooldown, for any number of calls, thresholds and times.  *)
THEOREM AuthDisables == Spec => []AuthCooldownHonoured
<1>1. Init => QuietWhileDisabled
  BY DEF Init, QuietWhileDisabled, AuthCooldownHonoured
<1>2. MeshInv /\ QuietWhileDisabled /\ [Next]_vars
      => (MeshInv /\ QuietWhileDisabled)'
  BY MeshNext, QuietNext
<1>3. QuietWhileDisabled => AuthCooldownHonoured
  BY DEF QuietWhileDisabled
<1> QED  BY <1>1, <1>2, <1>3, MeshInit, PTL DEF Spec
================================================================================
