-------------------------------- MODULE RedisPool --------------------------------
(***************************************************************************)
(* get_redis_pool of backend/app/redis_pool.py: coroutines that share the  *)
(* globals _pool and _redis_last_failure and the asyncio lock _lock.  Every *)
(* step ends where the code awaits.                                        *)
(***************************************************************************)
EXTENDS Naturals

CONSTANTS
  Callers,       \* coroutines that call get_redis_pool again and again
  RedisClients,  \* the clients there can be; one that is free is reused
  MaxFaults,     \* bound on outages and pings that are cut off
  NoPool, NoCaller

ASSUME PoolAssumption ==
  MaxFaults \in Nat /\ NoPool \notin RedisClients /\ NoCaller \notin Callers

VARIABLES
  redisUp, faults,
  pool,       \* _pool: a client or NoPool
  cooling,    \* less than 30 s since _redis_last_failure
  lock,       \* who holds _lock
  pc, mine,   \* per caller: where it awaits, the client it awaits
  cut,        \* callers whose ping was cut off by the client's aclose
  answer      \* per caller: what its last call returned

outside == <<redisUp, faults>>
poolVars == <<outside, pool, cooling, lock, pc, mine, cut, answer>>

PoolInit ==
  /\ redisUp \in BOOLEAN /\ faults = 0 /\ cut = {}
  /\ pool = NoPool
  /\ cooling = FALSE /\ lock = NoCaller
  /\ pc = [c \in Callers |-> "idle"] /\ mine = [c \in Callers |-> NoPool]
  /\ answer = [c \in Callers |-> NoPool]

-----------------------------------------------------------------------------
Goto(c, place, client) ==
  /\ pc' = [pc EXCEPT ![c] = place] /\ mine' = [mine EXCEPT ![c] = client]

(* The call is over: the lock is left, if it was held.                     *)
Return(c, client) ==
  /\ Goto(c, "idle", NoPool)
  /\ answer' = [answer EXCEPT ![c] = client]
  /\ lock' = IF lock = c THEN NoCaller ELSE lock

(* A client that nothing refers to.                                        *)
Free == RedisClients \ ({pool} \cup {mine[c] : c \in Callers})

(* A call is refused in the cooldown, else pings the pool, if there is one. *)
Call(c) ==
  /\ pc[c] = "idle"
  /\ \/ cooling /\ Return(c, NoPool)
     \/ /\ ~cooling /\ UNCHANGED <<lock, answer>>
        /\ IF pool = NoPool THEN Goto(c, "waiting", NoPool)
           ELSE Goto(c, "ping", pool)
  /\ UNCHANGED <<outside, pool, cooling, cut>>

(* The ping of an existing pool, before the lock or under it, comes back:  *)
(* whatever _pool is by now is returned.                                   *)
PingOk(c) ==
  /\ pc[c] = "ping" /\ redisUp /\ c \notin cut
  /\ Return(c, pool)
  /\ UNCHANGED <<outside, pool, cooling, cut>>

(* A new client, pinged under the lock.                                    *)
Create(c) ==
  /\ Free # {}
  /\ LET p == CHOOSE p \in Free : TRUE IN pool' = p /\ Goto(c, "new", p)

(* _pool is forgotten, whichever client it is by now.                      *)
Forget(c) == IF lock = c THEN Create(c) ELSE pool' = NoPool /\ Goto(c, "waiting", NoPool)

(* It raises.  Whatever _pool is by now is being closed, if it is any.     *)
PingFails(c) ==
  /\ pc[c] = "ping" /\ (~redisUp \/ c \in cut)
  /\ IF pool = NoPool THEN Forget(c) ELSE Goto(c, "closing", pool) /\ UNCHANGED pool
  /\ cut' = cut \ {c}
  /\ UNCHANGED <<outside, cooling, lock, answer>>

(* aclose disconnects the pings of this client that are under way.         *)
CutOff(c) ==
  \E D \in SUBSET {d \in Callers \ {c} : mine[d] = mine[c] /\ pc[d] \in {"ping", "new"}} :
    /\ D # {} => faults < MaxFaults
    /\ cut' = cut \cup D
    /\ faults' = IF D = {} THEN faults ELSE faults + 1

(* aclose is through.                                                      *)
Closed(c) ==
  /\ pc[c] = "closing" /\ CutOff(c) /\ Forget(c)
  /\ UNCHANGED <<redisUp, cooling, lock, answer>>

Acquire(c) ==
  /\ pc[c] = "waiting" /\ lock = NoCaller /\ lock' = c
  /\ IF pool = NoPool THEN Create(c) ELSE Goto(c, "ping", pool) /\ UNCHANGED pool
  /\ UNCHANGED <<outside, cooling, cut, answer>>

(* Mutant of NewWorks: without the global statement _pool is not assigned. *)
NewWorksLocally(c) ==
  /\ pc[c] = "new" /\ redisUp /\ c \notin cut
  /\ cooling' = FALSE
  /\ pool' = NoPool /\ Return(c, mine[c])
  /\ UNCHANGED <<outside, cut>>

NewWorks(c) ==
  /\ pc[c] = "new" /\ redisUp /\ c \notin cut
  /\ cooling' = FALSE
  /\ Return(c, pool)
  /\ UNCHANGED <<outside, pool, cut>>

(* Mutant of NewFails: the lock, acquired by hand, is not released.        *)
NewFailsLocked(c) ==
  /\ pc[c] = "new" /\ (~redisUp \/ c \in cut) /\ cut' = cut \ {c}
  /\ pool' = NoPool /\ cooling' = TRUE
  /\ Goto(c, "idle", NoPool) /\ answer' = [answer EXCEPT ![c] = NoPool]
  /\ UNCHANGED <<outside, lock>>

(* Mutant of NewFails: the ping is repeated until Redis is back.           *)
NewFailsRetrying(c) ==
  /\ pc[c] = "new" /\ (~redisUp \/ c \in cut) /\ cut' = cut \ {c}
  /\ UNCHANGED <<outside, pool, cooling, lock, pc, mine, answer>>

NewFails(c) ==
  /\ pc[c] = "new" /\ (~redisUp \/ c \in cut) /\ cut' = cut \ {c}
  /\ pool' = NoPool /\ cooling' = TRUE
  /\ Return(c, NoPool)
  /\ UNCHANGED outside

-----------------------------------------------------------------------------
inside == <<pool, cooling, lock, pc, mine, cut, answer>>

RedisDown ==
  /\ redisUp /\ redisUp' = FALSE
  /\ faults < MaxFaults /\ faults' = faults + 1
  /\ UNCHANGED inside

RedisReturns == ~redisUp /\ redisUp' = TRUE /\ UNCHANGED <<faults, inside>>

CooldownEnds ==
  /\ cooling /\ cooling' = FALSE
  /\ UNCHANGED <<outside, pool, lock, pc, mine, cut, answer>>

Resume(c) == \/ PingOk(c) \/ PingFails(c) \/ Closed(c) \/ Acquire(c)
             \/ NewWorks(c) \/ NewFails(c)

PoolNext ==
  \/ \E c \in Callers : Call(c) \/ Resume(c)
  \/ RedisDown \/ RedisReturns \/ CooldownEnds

PoolSpec == PoolInit /\ [][PoolNext]_poolVars

(* Coroutines are resumed, the lock is first come first served, callers    *)
(* call again, time passes.                                                *)
FairSpec ==
  /\ PoolSpec /\ WF_poolVars(CooldownEnds)
  /\ \A c \in Callers :
       WF_poolVars(Call(c)) /\ WF_poolVars(Resume(c)) /\ SF_poolVars(Acquire(c))

-----------------------------------------------------------------------------
(* The places of the callers, and the clients they and _pool refer to.     *)
PoolTypeOK ==
  /\ redisUp \in BOOLEAN /\ cooling \in BOOLEAN /\ faults \in 0 .. MaxFaults
  /\ pool \in RedisClients \cup {NoPool}
  /\ lock \in Callers \cup {NoCaller}
  /\ cut \subseteq Callers
  /\ pc \in [Callers -> {"idle", "waiting", "ping", "closing", "new"}]
  /\ mine \in [Callers -> RedisClients \cup {NoPool}]
  /\ answer \in [Callers -> RedisClients \cup {NoPool}]

(* Although the ping and the closing of a client run before the lock as    *)
(* well as under it, one call at a time creates one, and the lock is never *)
(* left behind: who holds it is in a call that waits for Redis and not for *)
(* another caller.                                                         *)
OneCreator ==
  /\ \A c \in Callers : pc[c] = "new" => lock = c
  /\ lock # NoCaller => pc[lock] \in {"ping", "closing", "new"}

(* No call waits for ever, neither for the lock nor for a client that      *)
(* another caller closed.                                                  *)
CallersReturn == \A c \in Callers : pc[c] # "idle" ~> pc[c] = "idle"

(* When Redis stays reachable, every caller gets a client in the end and   *)
(* keeps getting one, whatever the outages before have left behind.        *)
PoolRecovers ==
  <>[]redisUp => <>[](\A c \in Callers : answer[c] # NoPool)
================================================================================
