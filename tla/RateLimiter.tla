------------------------------- MODULE RateLimiter -------------------------------
(***************************************************************************)
(* RateLimitMiddleware and its sliding-window limiters                     *)
(* (services/rate_limiter.py).  A request takes one step: is_allowed holds *)
(* its lock and awaits nothing.  The clock is time.time(), taken to be     *)
(* monotone, in ticks finer than the seconds of the headers.               *)
(***************************************************************************)
EXTENDS Naturals, Sequences, FiniteSetsExt

CONSTANTS
  Clients,   \* client addresses
  Routes,    \* paths that are not exempt
  Limit,     \* _get_route_limit, per route
  Parent,    \* the path without its last segment, per route
  Window,    \* window_seconds, in ticks
  Second,    \* ticks in a second
  MaxNow     \* bound on the clock

ASSUME LimiterAssumption ==
  /\ Limit \in [Routes -> Nat \ {0}]
  /\ Window \in Nat /\ Second \in Nat \ {0} /\ MaxNow \in Nat

(* One limiter per limit, and in it one list per client and parent path.   *)
Bucket(c, r) == [limit |-> Limit[r], client |-> c, parent |-> Parent[r]]
Buckets == {Bucket(c, r) : c \in Clients, r \in Routes}

VARIABLES
  now,
  granted,  \* per bucket: the times of the requests let through
  log,      \* per bucket: which of them _requests still lists
  told      \* per bucket: the end of the last Retry-After, if nothing was
            \* let through since, or 0

vars == <<now, granted, log, told>>

Init ==
  /\ now = 1
  /\ granted = [b \in Buckets |-> <<>>]
  /\ log = [b \in Buckets |-> {}]
  /\ told = [b \in Buckets |-> 0]

(* Mutant of InWindow: a request exactly one window old still counts.      *)
InWindowTooLong(b) == {n \in log[b] : granted[b][n] + Window >= now}

(* The timestamps that are left after pruning.                             *)
InWindow(b) == {n \in log[b] : granted[b][n] + Window > now}

(* Mutant of RetryAfter: the time that has passed, not what remains.       *)
RetryAfterOfPeriod(b) ==
  LET oldest == Min({granted[b][n] : n \in InWindow(b)})
  IN  Second * Max({1, (now - oldest) \div Second})

(* int(oldest + window - now) seconds, one at least.                       *)
RetryAfter(b) ==
  LET oldest == Min({granted[b][n] : n \in InWindow(b)})
  IN  Second * Max({1, (oldest + Window - now) \div Second})

(* Mutant of Admit: one more request than the limit.                       *)
AdmitOneMore(b) ==
  /\ Cardinality(InWindow(b)) <= b.limit
  /\ granted' = [granted EXCEPT ![b] = Append(@, now)]
  /\ log' = [log EXCEPT ![b] = InWindow(b) \cup {Len(granted[b]) + 1}]
  /\ told' = [told EXCEPT ![b] = 0]
  /\ UNCHANGED now

(* A request within the limit is listed and let through.                   *)
Admit(b) ==
  /\ Cardinality(InWindow(b)) < b.limit
  /\ granted' = [granted EXCEPT ![b] = Append(@, now)]
  /\ log' = [log EXCEPT ![b] = InWindow(b) \cup {Len(granted[b]) + 1}]
  /\ told' = [told EXCEPT ![b] = 0]
  /\ UNCHANGED now

(* HTTP 429 with a Retry-After header.                                     *)
Refuse(b) ==
  /\ Cardinality(InWindow(b)) >= b.limit
  /\ log' = [log EXCEPT ![b] = InWindow(b)]
  /\ told' = [told EXCEPT ![b] = now + RetryAfter(b)]
  /\ UNCHANGED <<now, granted>>

Tick == now < MaxNow /\ now' = now + 1 /\ UNCHANGED <<granted, log, told>>

Next == \/ \E c \in Clients, r \in Routes :
             Admit(Bucket(c, r)) \/ Refuse(Bucket(c, r))
        \/ Tick

Spec == Init /\ [][Next]_vars

-----------------------------------------------------------------------------
(* The lists refer to requests that were let through.                      *)
TypeOK ==
  /\ now \in Nat
  /\ granted \in [Buckets -> Seq(Nat)]
  /\ log \in [Buckets -> SUBSET Nat]
  /\ told \in [Buckets -> Nat]
  /\ \A b \in Buckets : log[b] \subseteq DOMAIN granted[b]

(* Whatever the requests' times, no bucket lets more than its limit of     *)
(* requests through in any window: between a request and the one that      *)
(* follows it after `limit` others, a whole window has passed.             *)
WindowLimit ==
  \A b \in Buckets : \A n \in DOMAIN granted[b] :
    n + b.limit \in DOMAIN granted[b]
      => granted[b][n + b.limit] >= granted[b][n] + Window

(* Retry-After is rounded down, but by less than a second: a client that   *)
(* was refused and waits one second longer than it says finds room, unless *)
(* others were let through meanwhile.                                      *)
RetryAfterNearlySuffices ==
  \A b \in Buckets : told[b] # 0 /\ now >= told[b] + Second
                       => Cardinality(InWindow(b)) < b.limit

(* The pruned lists decide as the whole history would: a request is let    *)
(* through exactly when fewer than the limit were in the last window, so   *)
(* no one is refused too long, and Retry-After is at most a second short   *)
(* and no longer than it has to be.                                        *)
Sliding == INSTANCE SlidingWindow
             WITH Keys <- Buckets, LimitOf <- [b \in Buckets |-> b.limit]
ImplementsSlidingWindow == Sliding!Spec
================================================================================
