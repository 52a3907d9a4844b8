----------------------------- MODULE ProviderBreaker -----------------------------
(***************************************************************************)
(* One news provider: its CircuitState (services/ingestion.py, kept in     *)
(* memory, as no caller passes a redis_url), the calls of _get_with_retry  *)
(* that share it across countries, and the mesh_status messages the calls  *)
(* publish.                                                                *)
(*                                                                         *)
(* Between the answer of the provider and the synchronous publication on   *)
(* the memory stream nothing suspends: an answer, all it does to the       *)
(* breaker and that message are one action.  The copy sent through Redis   *)
(* comes after another await and is not modelled.                          *)
(* Time is a countdown of the cooldown in coarse ticks.                    *)
(***************************************************************************)
EXTENDS Naturals, FiniteSetsExt

CONSTANTS
  Calls,            \* concurrent calls to the provider
  Threshold,        \* circuit_breaker_failure_threshold
  RateThreshold,    \* circuit_breaker_rate_limit_threshold
  RetryCount, RateRetry, ServerRetry,   \* attempts per kind of trouble
  AuthCooldown, RateCooldown, ConnectCooldown, ServerCooldown, BackoffMax

ASSUME CountsAssumption ==
  {Threshold, RateThreshold, RetryCount, RateRetry, ServerRetry,
   AuthCooldown, RateCooldown, ConnectCooldown, ServerCooldown, BackoffMax}
    \subseteq Nat \ {0}

VARIABLES
  failures,      \* _failures, saturating at Threshold: only compared with it
  rateFailures,  \* _rate_limit_failures, saturating at RateThreshold
  openFor,       \* ticks until _open_until
  pc, attempt,   \* per call
  mesh,          \* status in the last mesh_status message of this source on
                 \* the memory stream
  authFor        \* history: ticks left of the time a 401/403 disables

breaker == <<failures, rateFailures, openFor>>
vars == <<breaker, pc, attempt, mesh, authFor>>

-----------------------------------------------------------------------------
UpTo(n, bound) == IF n < bound THEN n ELSE bound

MaxAttempts == Max({RetryCount, RateRetry, ServerRetry})

Tripped == failures >= Threshold

Init ==
  /\ failures = 0 /\ rateFailures = 0 /\ openFor = 0
  /\ pc = [c \in Calls |-> "idle"]
  /\ attempt = [c \in Calls |-> 0]
  /\ mesh = "normal" /\ authFor = 0

Return(c) == pc' = [pc EXCEPT ![c] = "idle"] /\ attempt' = [attempt EXCEPT ![c] = 0]
Sleep(c)  == pc' = [pc EXCEPT ![c] = "sleeping"] /\ UNCHANGED attempt

(* No other call is under way whose answer could still arrive.             *)
Alone(c) == \A d \in Calls \ {c} : pc[d] = "idle"

SetTripped(cooldown) ==
  /\ failures' = Threshold
  /\ openFor' = cooldown

RecordFailure(cooldown) ==
  /\ failures' = UpTo(failures + 1, Threshold)
  /\ openFor' = IF failures' >= Threshold THEN cooldown ELSE openFor

(* Mutant of Begin: allow() is not asked.                                  *)
BeginAnyway(c) ==
  /\ pc[c] = "idle"
  /\ pc' = [pc EXCEPT ![c] = "waiting"]
  /\ attempt' = [attempt EXCEPT ![c] = 1]
  /\ UNCHANGED <<breaker, mesh, authFor>>

(* allow() is asked once, before the first attempt.                        *)
Begin(c) ==
  /\ pc[c] = "idle" /\ openFor = 0
  /\ pc' = [pc EXCEPT ![c] = "waiting"]
  /\ attempt' = [attempt EXCEPT ![c] = 1]
  /\ UNCHANGED <<breaker, mesh, authFor>>

(* Mutant of Succeed: was_tripped is read after the reset.                 *)
SucceedReadingLate(c) ==
  /\ pc[c] = "waiting"
  /\ failures' = 0 /\ rateFailures' = 0 /\ openFor' = 0
  /\ mesh' = IF failures' >= Threshold THEN "normal" ELSE mesh
  /\ Return(c)
  /\ UNCHANGED authFor

(* Any other status than the failures below resets the breaker.            *)
Succeed(c) ==
  /\ pc[c] = "waiting"
  /\ failures' = 0 /\ rateFailures' = 0 /\ openFor' = 0
  /\ mesh' = IF Tripped THEN "normal" ELSE mesh
  /\ Return(c)
  /\ UNCHANGED authFor

(* Mutant of Unauthorized: the failure is only counted.                    *)
UnauthorizedCounted(c) ==
  /\ pc[c] = "waiting"
  /\ RecordFailure(AuthCooldown)
  /\ mesh' = "degraded_mesh"
  /\ authFor' = IF Alone(c) THEN AuthCooldown ELSE 0
  /\ Return(c)
  /\ UNCHANGED rateFailures

(* 401 or 403: the provider is disabled for the long cooldown.             *)
Unauthorized(c) ==
  /\ pc[c] = "waiting"
  /\ SetTripped(AuthCooldown)
  /\ mesh' = "degraded_mesh"
  /\ authFor' = IF Alone(c) THEN AuthCooldown ELSE 0
  /\ Return(c)
  /\ UNCHANGED rateFailures

(* 429 before the last attempt: sleep and try again.                       *)
Throttled(c) ==
  /\ pc[c] = "waiting" /\ attempt[c] < RateRetry
  /\ Sleep(c)
  /\ UNCHANGED <<breaker, mesh, authFor>>

(* 429 on the last attempt counts; enough of those trip the breaker.       *)
RateLimited(c) ==
  /\ pc[c] = "waiting" /\ attempt[c] >= RateRetry
  /\ rateFailures' = UpTo(rateFailures + 1, RateThreshold)
  /\ IF rateFailures' >= RateThreshold
     THEN SetTripped(RateCooldown) /\ mesh' = "degraded_mesh"
     ELSE UNCHANGED <<failures, openFor, mesh>>
  /\ Return(c)
  /\ UNCHANGED authFor

(* 5xx that persisted: counted with the server cooldown, not announced.    *)
ServerDown(c) ==
  /\ pc[c] = "waiting" /\ attempt[c] >= ServerRetry
  /\ RecordFailure(ServerCooldown)
  /\ Return(c)
  /\ UNCHANGED <<rateFailures, mesh, authFor>>

(* A timeout, or an early 5xx raised as an exception.                      *)
RequestFailed(c) ==
  /\ pc[c] = "waiting"
  /\ RecordFailure(BackoffMax)
  /\ mesh' = IF failures' >= Threshold /\ ~Tripped THEN "degraded_mesh" ELSE mesh
  /\ IF attempt[c] = RetryCount THEN Return(c) ELSE Sleep(c)
  /\ UNCHANGED <<rateFailures, authFor>>

(* No connection: only the last attempt trips the breaker.                 *)
Unreachable(c) ==
  /\ pc[c] = "waiting"
  /\ IF attempt[c] = RetryCount
     THEN SetTripped(ConnectCooldown) /\ mesh' = "degraded_mesh" /\ Return(c)
     ELSE UNCHANGED <<failures, openFor, mesh>> /\ Sleep(c)
  /\ UNCHANGED <<rateFailures, authFor>>

(* Mutant of Wake: the attempt is not counted.                             *)
WakeUncounted(c) ==
  /\ pc[c] = "sleeping"
  /\ pc' = [pc EXCEPT ![c] = "waiting"]
  /\ UNCHANGED <<attempt, breaker, mesh, authFor>>

(* The backoff ends: the next attempt, without asking allow() again.       *)
Wake(c) ==
  /\ pc[c] = "sleeping"
  /\ IF attempt[c] < MaxAttempts
     THEN /\ pc' = [pc EXCEPT ![c] = "waiting"]
          /\ attempt' = [attempt EXCEPT ![c] = @ + 1]
     ELSE Return(c)
  /\ UNCHANGED <<breaker, mesh, authFor>>

Tick ==
  /\ openFor > 0 \/ authFor > 0
  /\ openFor' = IF openFor > 0 THEN openFor - 1 ELSE 0
  /\ authFor' = IF authFor > 0 THEN authFor - 1 ELSE 0
  /\ UNCHANGED <<failures, rateFailures, pc, attempt, mesh>>

Answer(c) ==
  \/ Succeed(c) \/ Unauthorized(c) \/ Throttled(c) \/ RateLimited(c)
  \/ ServerDown(c) \/ RequestFailed(c) \/ Unreachable(c)

Next == \/ \E c \in Calls : Begin(c) \/ Answer(c) \/ Wake(c)
        \/ Tick

Spec == Init /\ [][Next]_vars

(* Every request is answered or times out, every sleep ends, time passes.  *)
FairSpec == /\ Spec /\ WF_vars(Tick)
            /\ \A c \in Calls : WF_vars(Answer(c)) /\ WF_vars(Wake(c))

-----------------------------------------------------------------------------
(* Counters saturate, cooldowns count down (CircuitState's fields).        *)
TypeOK ==
  /\ failures \in 0..Threshold
  /\ rateFailures \in 0..RateThreshold
  /\ openFor \in Nat /\ authFor \in Nat
  /\ pc \in [Calls -> {"idle", "waiting", "sleeping"}]
  /\ attempt \in [Calls -> Nat]
  /\ mesh \in {"normal", "degraded_mesh"}

(* A degraded mesh announced on the memory stream is never stale: as long  *)
(* as the last message says "degraded", the breaker has not been reset,    *)
(* however the calls of other countries interleave.                        *)
DegradedMeansTripped == mesh = "degraded_mesh" => Tripped

(* A 401 or 403 that no other call's answer can follow keeps the provider  *)
(* disabled for the whole authentication cooldown: no call begins in that  *)
(* time, so none can reset it.                                             *)
AuthCooldownHonoured == openFor >= authFor

(* A call ends, whatever mixture of answers it gets.                       *)
CallsEnd == \A c \in Calls : pc[c] # "idle" ~> pc[c] = "idle"

(* A tripped provider is let through again and again: calls in flight      *)
(* cannot keep the breaker open for ever.                                  *)
ProviderComesBack == []<>(openFor = 0)
================================================================================
