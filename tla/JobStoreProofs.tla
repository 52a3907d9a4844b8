------------------------------ MODULE JobStoreProofs ------------------------------
(***************************************************************************)
(* TypeOK, CompletedHasResult and NotFoundMeansMoved, for any number of    *)
(* jobs and stages and however jobs share ids.                             *)
(*                                                                         *)
(* CompletedHasResult is not inductive: a record is written by workers     *)
(* that hold a copy of it, or the object in memory itself.  The invariant  *)
(* says of every record anywhere, in the stores and in the hands of a      *)
(* worker, that it is complete and holds the result of a job of its id.    *)
(* NotFoundMeansMoved needs, of a panel that still polls, that its record  *)
(* is where get looks now (FoundOK).                                       *)
(***************************************************************************)
EXTENDS JobStore, TLAPS

(* Records that may stand under an id.                                     *)
Kept(id) == {r \in Record : /\ r.status = Completed => r.result # None
                            /\ r.result # None => IdOf[r.result] = id}

StoresOK ==
  /\ redisUp \in BOOLEAN
  /\ redis \in [Ids -> {None} \cup Record] /\ memory \in [Ids -> {None} \cup Record]
  /\ \A id \in Ids : redis[id] # None => redis[id] \in Kept(id)
  /\ \A id \in Ids : memory[id] # None => memory[id] \in Kept(id)
  /\ faults \in 0..MaxFaults /\ disturbed \subseteq Ids

WorkerState == [at : {"not yet", "read", "write", "over"},
                status : Queued..Failed, held : {None, Shared} \cup Record]

(* States of job j's worker, given what memory holds.                      *)
Work(j, mem) ==
  {w \in WorkerState :
     /\ w.held \in {None, Shared} \cup Kept(IdOf[j])
     /\ w.held = Shared => mem[IdOf[j]] # None
     /\ w.at = "write" => w.held # None}

WorkersOK ==
  worker \in [Jobs -> WorkerState] /\ \A j \in Jobs : worker[j] \in Work(j, memory)

PanelsOK ==
  /\ panel \in [Jobs -> Panel]
  /\ \A j \in Jobs :
       /\ panel[j].shows = "polling" => panel[j].polls < MaxPolls
       /\ worker[j] = NotYet => panel[j].polls = 0 /\ panel[j].shows = "nothing"
       /\ panel[j].shows = "result" =>
            panel[j].of \in Jobs /\ IdOf[panel[j].of] = IdOf[j]

IInv == StoresOK /\ WorkersOK /\ PanelsOK

-----------------------------------------------------------------------------
(* A new record is one that may be kept under any id (JobStore.create).    *)
LEMMA BlankKept == ASSUME NEW id PROVE Blank \in Kept(id)
BY PollsAssumption DEF Kept, Blank, Record, Queued, Completed, Failed

(* Merging a kept record into another field by field keeps it whole        *)
(* (JobStore._to_redis_mapping).                                           *)
LEMMA HSetKept ==
  ASSUME NEW id, NEW r \in Kept(id), NEW old, old # None => old \in Kept(id)
  PROVE  HSet(r, old) \in Kept(id)
BY DEF HSet, Kept, Record

(* An update's fields complete a record with the worker's own result.      *)
LEMMA FieldsKept ==
  ASSUME NEW j \in Jobs, NEW r \in Kept(IdOf[j]), NEW status \in Queued..Failed
  PROVE  WithFields(r, j, status) \in Kept(IdOf[j])
BY JobsAssumption DEF WithFields, Kept, Record

(* What a worker is about to write may be kept under its id.               *)
LEMMA HeldKept ==
  ASSUME IInv, NEW j \in Jobs, worker[j].at = "write"
  PROVE  Held(j) \in Kept(IdOf[j])
<1>1. worker[j] \in Work(j, memory) /\ IdOf[j] \in Ids
  BY DEF IInv, WorkersOK, Ids
<1>2. CASE worker[j].held = Shared
  BY <1>1, <1>2 DEF Held, Work, WorkerState, IInv, StoresOK
<1>3. CASE worker[j].held # Shared
  BY <1>1, <1>3 DEF Held, Work, WorkerState
<1> QED BY <1>2, <1>3

(* What get answers for an id.                                             *)
LEMMA VisibleKept ==
  ASSUME IInv, NEW id \in Ids
  PROVE  Visible(id) # None => Visible(id) \in Kept(id)
BY DEF IInv, StoresOK, Visible

(* Where an update or a job begins or ends, the worker holds nothing.      *)
LEMMA FreshWork ==
  ASSUME NEW j \in Jobs, NEW mem, NEW status \in Queued..Failed
  PROVE  /\ Updating(status) \in Work(j, mem) /\ Over \in Work(j, mem)
         /\ NotYet \in Work(j, mem) /\ Updating(status) # NotYet /\ Over # NotYet
<1>1. Updating(status) \in Work(j, mem)
  BY NullsAssumption, PollsAssumption DEF Updating, Work, WorkerState
<1>2. Queued \in Queued..Failed
  BY PollsAssumption DEF Queued, Failed
<1>3. Over \in Work(j, mem) /\ NotYet \in Work(j, mem)
  BY <1>2, NullsAssumption DEF Over, NotYet, Work, WorkerState
<1>4. Updating(status) # NotYet /\ Over # NotYet
  BY DEF Updating, Over, NotYet
<1> QED BY <1>1, <1>3, <1>4

(* WorkersOK, from the new values one by one.                              *)
LEMMA WorkersFit ==
  ASSUME NEW f, NEW mem, f = [k \in Jobs |-> f[k]],
         \A k \in Jobs : f[k] \in Work(k, mem)
  PROVE  f \in [Jobs -> WorkerState]
<1>1. \A k \in Jobs : f[k] \in WorkerState
  BY DEF Work
<1> QED BY <1>1

(* Replacing the object in memory leaves every worker with a whole record. *)
LEMMA DetachedWork ==
  ASSUME IInv, NEW id \in Ids, NEW r, r # None, NEW j \in Jobs
  PROVE  /\ Detached(id)[j] \in Work(j, [memory EXCEPT ![id] = r])
         /\ Detached(id)[j].at = worker[j].at
         /\ Detached(id)[j] = NotYet => worker[j] = NotYet
<1>1. worker[j] \in Work(j, memory) /\ IdOf[j] \in Ids
  BY DEF IInv, WorkersOK, Ids
<1>2. DOMAIN memory = Ids
  BY DEF IInv, StoresOK
<1>3. CASE IdOf[j] = id /\ worker[j].held = Shared
  <2>1. memory[id] # None /\ memory[id] \in Kept(id) /\ memory[id] \in Record
    BY <1>1, <1>3 DEF Work, WorkerState, IInv, StoresOK, Kept
  <2>2. Detached(id)[j] = [worker[j] EXCEPT !.held = memory[id]]
    BY <1>3 DEF Detached
  <2>3. /\ worker[j] \in WorkerState
        /\ memory[id] # Shared
    BY <1>1, <2>1, NullsAssumption DEF Work, WorkerState
  <2>4. Detached(id)[j] \in Work(j, [memory EXCEPT ![id] = r])
    BY <1>3, <2>1, <2>2, <2>3 DEF Work, WorkerState
  <2>5. Detached(id)[j].held # None /\ Detached(id)[j].at = worker[j].at
    BY <2>1, <2>2, <2>3
  <2>6. NotYet.held = None
    BY DEF NotYet
  <2> QED BY <2>4, <2>5, <2>6
<1>4. CASE ~(IdOf[j] = id /\ worker[j].held = Shared)
  <2>1. Detached(id)[j] = worker[j]
    BY <1>4 DEF Detached
  <2> QED BY <1>1, <1>2, <1>4, <2>1 DEF Work, WorkerState
<1> QED BY <1>3, <1>4

-----------------------------------------------------------------------------
LEMMA InitInv == Init => IInv
<1> SUFFICES ASSUME Init PROVE IInv
  OBVIOUS
<1>1. StoresOK
  BY PollsAssumption DEF Init, StoresOK
<1>2. Queued \in Queued..Failed
  BY PollsAssumption DEF Queued, Failed
<1>3. WorkersOK
  <2>1. \A j \in Jobs : NotYet \in Work(j, memory)
    BY <1>2, FreshWork
  <2>2. worker = [j \in Jobs |-> NotYet] /\ \A j \in Jobs : worker[j] \in Work(j, memory)
    BY <2>1 DEF Init
  <2> QED BY <2>2, WorkersFit DEF WorkersOK
<1>4. PanelsOK
  BY PollsAssumption DEF Init, PanelsOK, Panel
<1> QED BY <1>1, <1>3, <1>4 DEF IInv

(* A worker's step that leaves memory alone and may replace its record in  *)
(* Redis.                                                                  *)
LEMMA RedisStep ==
  ASSUME IInv, NEW j \in Jobs, NEW w \in Work(j, memory), NEW r \in Kept(IdOf[j]),
         w # NotYet,
         worker' = [worker EXCEPT ![j] = w],
         UNCHANGED redis \/ redis' = [redis EXCEPT ![IdOf[j]] = r],
         UNCHANGED <<redisUp, memory>>,
         faults' \in 0..MaxFaults, disturbed' \subseteq Ids
  PROVE  StoresOK' /\ WorkersOK' /\ \A k \in Jobs : worker'[k] = NotYet => worker[k] = NotYet
<1>1. IdOf[j] \in Ids /\ r \in Record
  BY DEF Ids, Kept
<1>2. StoresOK'
  BY <1>1 DEF IInv, StoresOK, Kept
<1>3. WorkersOK'
  BY DEF IInv, WorkersOK, Work, WorkerState
<1> QED BY <1>2, <1>3 DEF IInv, WorkersOK

(* A worker's step that replaces the object in memory.                     *)
LEMMA MemoryStep ==
  ASSUME IInv, NEW j \in Jobs, NEW w, w \in Work(j, memory'), w # NotYet,
         NEW r \in Kept(IdOf[j]),
         worker' = [Detached(IdOf[j]) EXCEPT ![j] = w],
         memory' = [memory EXCEPT ![IdOf[j]] = r],
         UNCHANGED <<redisUp, redis, faults, disturbed>>
  PROVE  StoresOK' /\ WorkersOK' /\ \A k \in Jobs : worker'[k] = NotYet => worker[k] = NotYet
<1>1. IdOf[j] \in Ids /\ r \in Record /\ r # None
  BY NullsAssumption DEF Ids, Kept
<1>2. StoresOK'
  BY <1>1 DEF IInv, StoresOK, Kept
<1>3. ASSUME NEW k \in Jobs
      PROVE  worker'[k] \in Work(k, memory') /\ (worker'[k] = NotYet => worker[k] = NotYet)
  <2>1. DOMAIN Detached(IdOf[j]) = Jobs
    BY DEF Detached
  <2> QED BY <1>1, <2>1, DetachedWork
<1>4. WorkersOK'
  <2>1. worker' = [k \in Jobs |-> worker'[k]]
    BY DEF Detached
  <2> QED BY <1>3, <2>1, WorkersFit DEF WorkersOK
<1> QED BY <1>2, <1>3, <1>4

(* Panels are kept while no worker is reset.                               *)
LEMMA PanelsKept ==
  ASSUME IInv, UNCHANGED panel, \A k \in Jobs : worker'[k] = NotYet => worker[k] = NotYet
  PROVE  PanelsOK'
BY DEF IInv, PanelsOK

-----------------------------------------------------------------------------
LEMMA CreateInv == ASSUME IInv, NEW j \in Jobs, Create(j) PROVE IInv'
<1>1. Blank \in Kept(IdOf[j]) /\ IdOf[j] \in Ids
  BY BlankKept DEF Ids
<1>2. PICK w \in Beginnings :
        IF redisUp
        THEN /\ redis' = [redis EXCEPT ![IdOf[j]] = HSet(Blank, @)]
             /\ worker' = [worker EXCEPT ![j] = w]
             /\ UNCHANGED memory
        ELSE /\ memory' = [memory EXCEPT ![IdOf[j]] = Blank]
             /\ worker' = [Detached(IdOf[j]) EXCEPT ![j] = w]
             /\ UNCHANGED redis
  BY DEF Create
<1>3. \A mem : w \in Work(j, mem) /\ w # NotYet
  <2>1. 1 \in Queued..Failed /\ Failed \in Queued..Failed
    BY PollsAssumption DEF Queued, Failed
  <2> QED BY <2>1, FreshWork DEF Beginnings
<1>4. StoresOK' /\ WorkersOK' /\ \A k \in Jobs : worker'[k] = NotYet => worker[k] = NotYet
  <2>1. CASE redisUp
    <3>1. HSet(Blank, redis[IdOf[j]]) \in Kept(IdOf[j])
      BY <1>1, HSetKept DEF IInv, StoresOK
    <3> QED BY <1>2, <1>3, <2>1, <3>1, RedisStep DEF Create, IInv, StoresOK
  <2>2. CASE ~redisUp
    <3>1. w \in Work(j, memory')
      BY <1>3
    <3> QED BY <1>1, <1>2, <1>3, <2>2, <3>1, MemoryStep DEF Create
  <2> QED BY <2>1, <2>2
<1>5. PanelsOK'
  <2>1. panel' = [panel EXCEPT ![j].shows = "polling"] /\ worker[j] = NotYet
    BY DEF Create
  <2>2. panel \in [Jobs -> Panel] /\ panel[j].polls = 0 /\ 0 < MaxPolls
    BY <2>1, PollsAssumption DEF IInv, PanelsOK
  <2>3. panel' \in [Jobs -> Panel] /\ panel'[j].polls = 0 /\ panel'[j].shows = "polling"
        /\ \A k \in Jobs \ {j} : panel'[k] = panel[k]
    <3>1. DOMAIN panel = Jobs /\ panel[j] \in Panel
      BY <2>2
    <3>2. [panel[j] EXCEPT !.shows = "polling"] \in Panel
      BY <3>1 DEF Panel
    <3>3. panel'[j] = [panel[j] EXCEPT !.shows = "polling"]
          /\ panel' \in [Jobs -> Panel] /\ \A k \in Jobs \ {j} : panel'[k] = panel[k]
      BY <2>1, <2>2, <3>1, <3>2
    <3>4. panel'[j].polls = panel[j].polls /\ panel'[j].shows = "polling"
      BY <3>1, <3>3 DEF Panel
    <3> QED BY <2>2, <3>3, <3>4
  <2>4. worker'[j] # NotYet
    BY <1>2, <1>3 DEF Detached, IInv, WorkersOK
  <2> QED BY <1>4, <2>2, <2>3, <2>4 DEF IInv, PanelsOK
<1> QED BY <1>4, <1>5 DEF IInv

LEMMA CreateRaisesInv == ASSUME IInv, NEW j \in Jobs, CreateRaises(j) PROVE IInv'
<1>1. HSet(Blank, redis[IdOf[j]]) \in Kept(IdOf[j]) /\ IdOf[j] \in Ids
  BY BlankKept, HSetKept DEF Ids, IInv, StoresOK
<1>2. Over \in Work(j, memory) /\ Over # NotYet
  <2>1. Queued \in Queued..Failed
    BY PollsAssumption DEF Queued, Failed
  <2> QED BY <2>1, FreshWork
<1>3. faults' \in 0..MaxFaults /\ disturbed' \subseteq Ids
  BY <1>1, PollsAssumption DEF CreateRaises, Fault, IInv, StoresOK
<1>4. StoresOK' /\ WorkersOK' /\ \A k \in Jobs : worker'[k] = NotYet => worker[k] = NotYet
  BY <1>1, <1>2, <1>3, RedisStep DEF CreateRaises
<1>5. PanelsOK'
  BY <1>4, PanelsKept DEF CreateRaises
<1> QED BY <1>4, <1>5 DEF IInv

LEMMA ReadInv == ASSUME IInv, NEW j \in Jobs, Read(j) PROVE IInv'
<1> DEFINE id  == IdOf[j]
           r   == IF Visible(id) = None THEN Blank ELSE Visible(id)
           new == WithFields(r, j, worker[j].status)
           shared == ~redisUp /\ memory[id] # None
<1>1. id \in Ids /\ worker[j] \in Work(j, memory) /\ worker[j].at = "read"
  BY DEF IInv, WorkersOK, Ids, Read
<1>2. r \in Kept(id)
  BY <1>1, BlankKept, VisibleKept
<1>3. new \in Kept(id) /\ new \in Record /\ new # None
  <2>1. new \in Kept(id)
    BY <1>1, <1>2, FieldsKept DEF Work, WorkerState
  <2> QED BY <2>1, NullsAssumption DEF Kept
<1>4. /\ worker' = [worker EXCEPT ![j].at = "write",
                                  ![j].held = IF shared THEN Shared ELSE new]
      /\ memory' = IF shared THEN [memory EXCEPT ![id] = new] ELSE memory
      /\ UNCHANGED <<redisUp, redis, panel, faults, disturbed>>
  BY DEF Read
<1> HIDE DEF new, shared, r, id
<1>5. StoresOK'
  BY <1>1, <1>3, <1>4 DEF IInv, StoresOK, Kept
<1>6. ASSUME NEW k \in Jobs PROVE worker'[k] \in Work(k, memory')
  <2>1. worker[k] \in Work(k, memory) /\ DOMAIN worker = Jobs /\ DOMAIN memory = Ids
        /\ IdOf[k] \in Ids
    BY DEF IInv, WorkersOK, StoresOK, Ids
  <2>2. CASE k # j
    BY <1>3, <1>4, <2>1, <2>2 DEF Work, WorkerState
  <2>3. CASE k = j
    BY <1>1, <1>3, <1>4, <2>1, <2>3, NullsAssumption DEF Work, WorkerState, shared, id
  <2> QED BY <2>2, <2>3
<1>7. WorkersOK'
  <2>1. worker' = [k \in Jobs |-> worker'[k]]
    BY <1>4 DEF IInv, WorkersOK
  <2> QED BY <1>6, <2>1, WorkersFit DEF WorkersOK
<1>8. PanelsOK'
  <2>1. ASSUME NEW k \in Jobs, worker'[k] = NotYet PROVE worker[k] = NotYet
    <3>1. k # j
      BY <1>4, <2>1 DEF NotYet, IInv, WorkersOK
    <3> QED BY <1>4, <2>1, <3>1 DEF IInv, WorkersOK
  <2> QED BY <1>4, <2>1, PanelsKept
<1> QED BY <1>5, <1>7, <1>8 DEF IInv

LEMMA WriteInv == ASSUME IInv, NEW j \in Jobs, Write(j) PROVE IInv'
<1>1. Held(j) \in Kept(IdOf[j]) /\ IdOf[j] \in Ids /\ worker[j] \in Work(j, memory)
  BY HeldKept DEF Write, Ids, IInv, WorkersOK
<1>2. PICK w \in After(worker[j].status) :
        IF redisUp
        THEN /\ redis' = [redis EXCEPT ![IdOf[j]] = HSet(Held(j), @)]
             /\ worker' = [worker EXCEPT ![j] = w]
             /\ UNCHANGED memory
        ELSE /\ memory' = [memory EXCEPT ![IdOf[j]] = Held(j)]
             /\ worker' = IF worker[j].held = Shared THEN [worker EXCEPT ![j] = w]
                          ELSE [Detached(IdOf[j]) EXCEPT ![j] = w]
             /\ UNCHANGED redis
  BY DEF Write
<1>3. UNCHANGED <<redisUp, panel, faults, disturbed>>
  BY DEF Write
<1>4. \A mem : w \in Work(j, mem) /\ w # NotYet
  <2>1. worker[j].status \in Queued..Failed
    BY <1>1 DEF Work, WorkerState
  <2>2. w = Over \/ \E status \in Queued..Failed : w = Updating(status)
    BY <1>2, <2>1, PollsAssumption DEF After, Queued, Completed, Failed
  <2>3. Queued \in Queued..Failed
    BY PollsAssumption DEF Queued, Failed
  <2> QED BY <2>2, <2>3, FreshWork
<1>5. StoresOK' /\ WorkersOK' /\ \A k \in Jobs : worker'[k] = NotYet => worker[k] = NotYet
  <2>1. CASE redisUp
    <3>1. HSet(Held(j), redis[IdOf[j]]) \in Kept(IdOf[j])
      BY <1>1, HSetKept DEF IInv, StoresOK
    <3> QED BY <1>1, <1>2, <1>3, <1>4, <2>1, <3>1, RedisStep DEF IInv, StoresOK
  <2>2. CASE ~redisUp /\ worker[j].held = Shared
    <3>1. memory' = memory
      BY <1>1, <1>2, <2>2 DEF Held, IInv, StoresOK
    <3> QED BY <1>1, <1>2, <1>3, <1>4, <2>2, <3>1, RedisStep DEF IInv, StoresOK
  <2>3. CASE ~redisUp /\ worker[j].held # Shared
    <3>1. w \in Work(j, memory')
      BY <1>4
    <3> QED BY <1>1, <1>2, <1>3, <1>4, <2>3, <3>1, MemoryStep
  <2> QED BY <2>1, <2>2, <2>3
<1>6. PanelsOK'
  BY <1>3, <1>5, PanelsKept
<1> QED BY <1>5, <1>6 DEF IInv

LEMMA UpdateRaisesInv == ASSUME IInv, NEW j \in Jobs, UpdateRaises(j) PROVE IInv'
<1>1. PICK w \in {Over, Updating(Failed)} : worker' = [worker EXCEPT ![j] = w]
  BY DEF UpdateRaises, Raised
<1>2. w \in Work(j, memory) /\ w # NotYet
  <2>1. Queued \in Queued..Failed /\ Failed \in Queued..Failed
    BY PollsAssumption DEF Queued, Failed
  <2> QED BY <1>1, <2>1, FreshWork
<1>3. PICK r \in Kept(IdOf[j]) :
        UNCHANGED redis \/ redis' = [redis EXCEPT ![IdOf[j]] = r]
  <2>1. Blank \in Kept(IdOf[j]) /\ IdOf[j] \in Ids
    BY BlankKept DEF Ids
  <2>2. CASE UNCHANGED redis
    BY <2>1, <2>2
  <2>3. CASE worker[j].at = "write" /\ redis' = [redis EXCEPT ![IdOf[j]] = HSet(Held(j), @)]
    BY <2>1, <2>3, HeldKept, HSetKept DEF IInv, StoresOK
  <2> QED BY <2>2, <2>3 DEF UpdateRaises
<1>4. faults' \in 0..MaxFaults /\ disturbed' \subseteq Ids
  BY PollsAssumption DEF UpdateRaises, Raised, Fault, IInv, StoresOK, Ids
<1>5. UNCHANGED <<redisUp, memory, panel>>
  BY DEF UpdateRaises
<1>6. StoresOK' /\ WorkersOK' /\ \A k \in Jobs : worker'[k] = NotYet => worker[k] = NotYet
  BY <1>1, <1>2, <1>3, <1>4, <1>5, RedisStep
<1> QED BY <1>5, <1>6, PanelsKept DEF IInv

(* Another poll below the limit stays within it.                           *)
LEMMA NextPoll ==
  \A m \in Nat : \A n \in 0..m :
    n < m => n + 1 \in 0..m /\ (n + 1 # m => n + 1 < m)
OBVIOUS

(* A poll changes one panel only.                                          *)
LEMMA ShowsInv ==
  ASSUME IInv, NEW j \in Jobs, NEW text, NEW result, Shows(j, text, result),
         panel[j].shows = "polling", UNCHANGED worker,
         text \in {"result", "failed", "not found", "timeout", "polling"},
         result \in {None} \cup Jobs,
         text = "polling" => panel[j].polls + 1 # MaxPolls,
         text = "result" => result \in Jobs /\ IdOf[result] = IdOf[j]
  PROVE  PanelsOK'
<1> DEFINE new == [polls |-> panel[j].polls + 1, shows |-> text, of |-> result]
<1>1. /\ panel \in [Jobs -> Panel] /\ panel[j] \in Panel
      /\ panel[j].polls < MaxPolls /\ worker[j] # NotYet
  BY DEF IInv, PanelsOK
<1>2. panel[j].polls + 1 \in 0..MaxPolls /\ (text = "polling" => panel[j].polls + 1 < MaxPolls)
  <2>1. panel[j].polls \in 0..MaxPolls /\ MaxPolls \in Nat
    BY <1>1, PollsAssumption DEF Panel
  <2> QED BY <1>1, <2>1, NextPoll
<1>3. new \in Panel
  BY <1>2 DEF Panel
<1>4. panel' = [panel EXCEPT ![j] = new]
  BY <1>1 DEF Shows
<1>5. /\ panel' \in [Jobs -> Panel] /\ panel'[j] = new
      /\ \A k \in Jobs \ {j} : panel'[k] = panel[k]
  BY <1>1, <1>3, <1>4
<1>6. new.polls = panel[j].polls + 1 /\ new.shows = text /\ new.of = result
  OBVIOUS
<1>7. ASSUME NEW k \in Jobs
      PROVE  /\ panel'[k].shows = "polling" => panel'[k].polls < MaxPolls
             /\ worker[k] = NotYet => panel'[k].polls = 0 /\ panel'[k].shows = "nothing"
             /\ panel'[k].shows = "result" =>
                  panel'[k].of \in Jobs /\ IdOf[panel'[k].of] = IdOf[k]
  <2>1. CASE k = j
    BY <1>1, <1>2, <1>5, <1>6, <2>1
  <2>2. CASE k # j
    BY <1>5, <2>2 DEF IInv, PanelsOK
  <2> QED BY <2>1, <2>2
<1> QED BY <1>5, <1>7 DEF PanelsOK

LEMMA PollInv == ASSUME IInv, NEW j \in Jobs, Poll(j) \/ PollRaises(j) PROVE IInv'
<1> DEFINE r == Visible(IdOf[j])
<1>1. UNCHANGED <<redisUp, stores, worker, disturbed>> /\ panel[j].shows = "polling"
  BY DEF Poll, PollRaises, stores
<1>2. StoresOK' /\ WorkersOK'
  <2>1. faults' = faults \/ (faults > 0 /\ faults' = faults - 1)
    <3>1. CASE Poll(j)
      BY <3>1 DEF Poll
    <3>2. CASE PollRaises(j)
      BY <3>2 DEF PollRaises, Fault
    <3> QED BY <3>1, <3>2
  <2>2. faults' \in 0..MaxFaults
    BY <2>1, PollsAssumption DEF IInv, StoresOK
  <2> QED BY <1>1, <2>2 DEF IInv, StoresOK, WorkersOK, Work, stores
<1>3. IdOf[j] \in Ids
  BY DEF Ids
<1>4. PanelsOK'
  <2>1. CASE PollRaises(j)
    BY <1>1, <2>1, ShowsInv DEF PollRaises
  <2>2. CASE Poll(j) /\ r = None
    <3>1. Shows(j, "not found", None)
      BY <2>2 DEF Poll
    <3> QED BY <1>1, <3>1, ShowsInv
  <2>3. CASE Poll(j) /\ r # None /\ r.status = Completed
    <3>1. Shows(j, "result", r.result)
      BY <2>3, PollsAssumption DEF Poll, Completed, Failed
    <3>2. r.result \in Jobs /\ IdOf[r.result] = IdOf[j]
      BY <1>3, <2>3, VisibleKept DEF Kept, Record
    <3> QED BY <1>1, <3>1, <3>2, ShowsInv
  <2>4. CASE Poll(j) /\ r # None /\ r.status = Failed
    <3>1. Shows(j, "failed", None)
      BY <2>4, PollsAssumption DEF Poll, Completed, Failed
    <3> QED BY <1>1, <3>1, ShowsInv
  <2>5. CASE Poll(j) /\ r # None /\ r.status # Completed /\ r.status # Failed
    <3>1. Shows(j, IF panel[j].polls + 1 = MaxPolls THEN "timeout" ELSE "polling", None)
      BY <2>5 DEF Poll
    <3>2. CASE panel[j].polls + 1 = MaxPolls
      BY <1>1, <3>1, <3>2, ShowsInv
    <3>3. CASE panel[j].polls + 1 # MaxPolls
      BY <1>1, <3>1, <3>3, ShowsInv
    <3> QED BY <3>2, <3>3
  <2> QED BY <2>1, <2>2, <2>3, <2>4, <2>5
<1> QED BY <1>2, <1>4 DEF IInv

LEMMA SwitchInv == ASSUME IInv, Switch PROVE IInv'
<1>1. StoresOK'
  BY PollsAssumption DEF Switch, IInv, StoresOK, Ids, stores
<1>2. WorkersOK'
  BY DEF Switch, IInv, WorkersOK, Work, WorkerState, stores
<1>3. PanelsOK'
  BY PanelsKept DEF Switch
<1> QED BY <1>1, <1>2, <1>3 DEF IInv

LEMMA RestartInv == ASSUME IInv, Restart PROVE IInv'
<1>1. StoresOK'
  BY PollsAssumption DEF Restart, Fault, IInv, StoresOK, Ids
<1>2. Queued \in Queued..Failed
  BY PollsAssumption DEF Queued, Failed
<1>3. WorkersOK' /\ \A k \in Jobs : worker'[k] = NotYet => worker[k] = NotYet
  <2>1. worker' = [j \in Jobs |-> IF worker[j] = NotYet THEN NotYet ELSE Over]
    BY DEF Restart
  <2>2. \A j \in Jobs : NotYet \in Work(j, memory') /\ Over \in Work(j, memory') /\ Over # NotYet
    BY <1>2, FreshWork
  <2>3. worker' = [k \in Jobs |-> worker'[k]] /\ \A k \in Jobs : worker'[k] \in Work(k, memory')
    BY <2>1, <2>2
  <2>4. worker' \in [Jobs -> WorkerState]
    BY <2>3, WorkersFit
  <2> QED BY <2>1, <2>2, <2>3, <2>4 DEF WorkersOK
<1>4. PanelsOK'
  BY <1>3, PanelsKept DEF Restart
<1> QED BY <1>1, <1>3, <1>4 DEF IInv

LEMMA StepInv == IInv /\ [Next]_vars => IInv'
<1> SUFFICES ASSUME IInv, [Next]_vars PROVE IInv'
  OBVIOUS
<1>1. ASSUME NEW j \in Jobs,
             \/ Create(j) \/ CreateRaises(j) \/ Proceed(j) \/ Poll(j) \/ PollRaises(j)
      PROVE  IInv'
  BY <1>1, CreateInv, CreateRaisesInv, ReadInv, WriteInv, UpdateRaisesInv, PollInv
    DEF Proceed
<1>2. CASE UNCHANGED vars
  BY <1>2 DEF vars, stores, IInv, StoresOK, WorkersOK, Work, WorkerState, PanelsOK
<1> QED BY <1>1, <1>2, SwitchInv, RestartInv DEF Next

-----------------------------------------------------------------------------
(* A job that is read as completed has a result, and a panel shows one of  *)
(* its own id (JobStore.update and get, the polls of handleSend).          *)
THEOREM CompletedJobsHaveResults == Spec => []CompletedHasResult
<1>1. IInv => CompletedHasResult
  BY NullsAssumption, JobsAssumption
    DEF IInv, StoresOK, PanelsOK, CompletedHasResult, Kept
<1> QED BY InitInv, StepInv, <1>1, PTL DEF Spec

(* Records, workers and panels have their types in every reachable state;  *)
(* a worker holds the object of memory only while memory has one.          *)
THEOREM JobsTypeOK == Spec => []TypeOK
<1>1. IInv => TypeOK
  BY DEF IInv, StoresOK, WorkersOK, Work, WorkerState, PanelsOK, TypeOK
<1> QED BY InitInv, StepInv, <1>1, PTL DEF Spec

-----------------------------------------------------------------------------
(* A panel that polls for an id nothing has happened to finds its record.  *)
FoundOK ==
  \A j \in Jobs : IdOf[j] \notin disturbed =>
    /\ panel[j].shows = "polling" => Visible(IdOf[j]) # None
    /\ panel[j].shows # "not found"

(* A record that is written is one; what is not written stays.             *)
LEMMA VisibleStays ==
  ASSUME IInv, NEW id \in Ids, UNCHANGED redisUp,
         \/ UNCHANGED <<redis, memory>>
         \/ \E r \in Kept(id) : redis' = [redis EXCEPT ![id] = r] /\ UNCHANGED memory
         \/ \E r \in Kept(id) : memory' = [memory EXCEPT ![id] = r] /\ UNCHANGED redis,
         NEW i \in Ids, Visible(i) # None
  PROVE  Visible(i)' # None
<1>1. \A r \in Kept(id) : r # None
  BY NullsAssumption DEF Kept
<1>2. DOMAIN redis = Ids /\ DOMAIN memory = Ids
  BY DEF IInv, StoresOK
<1>3. redis'[i] # None \/ redis[i] = None
  BY <1>1, <1>2
<1>4. memory'[i] # None \/ memory[i] = None
  BY <1>1, <1>2
<1> QED BY <1>3, <1>4 DEF Visible

(* A step that writes one record, or none, and leaves the panels alone.    *)
LEMMA FoundStays ==
  ASSUME IInv, FoundOK, NEW id \in Ids, UNCHANGED <<redisUp, panel>>,
         \/ UNCHANGED <<redis, memory>>
         \/ \E r \in Kept(id) : redis' = [redis EXCEPT ![id] = r] /\ UNCHANGED memory
         \/ \E r \in Kept(id) : memory' = [memory EXCEPT ![id] = r] /\ UNCHANGED redis,
         disturbed \subseteq disturbed'
  PROVE  FoundOK'
<1> SUFFICES ASSUME NEW j \in Jobs, IdOf[j] \notin disturbed'
             PROVE  /\ panel[j].shows = "polling" => Visible(IdOf[j])' # None
                    /\ panel[j].shows # "not found"
  BY DEF FoundOK
<1>1. IdOf[j] \in Ids /\ IdOf[j] \notin disturbed
  BY DEF Ids
<1>2. Visible(IdOf[j]) # None => Visible(IdOf[j])' # None
  BY <1>1, VisibleStays
<1> QED BY <1>1, <1>2 DEF FoundOK

LEMMA CreateFound == ASSUME IInv, FoundOK, NEW j \in Jobs, Create(j) PROVE FoundOK'
<1>1. /\ Blank \in Kept(IdOf[j]) /\ HSet(Blank, redis[IdOf[j]]) \in Kept(IdOf[j])
      /\ IdOf[j] \in Ids
  BY BlankKept, HSetKept DEF Ids, IInv, StoresOK
<1>2. /\ UNCHANGED <<redisUp, disturbed>> /\ panel' = [panel EXCEPT ![j].shows = "polling"]
      /\ \/ /\ redisUp /\ UNCHANGED memory
            /\ redis' = [redis EXCEPT ![IdOf[j]] = HSet(Blank, redis[IdOf[j]])]
         \/ /\ ~redisUp /\ UNCHANGED redis
            /\ memory' = [memory EXCEPT ![IdOf[j]] = Blank]
  BY DEF Create
<1>3. Visible(IdOf[j])' # None
  <2>1. \A r \in Kept(IdOf[j]) : r # None
    BY NullsAssumption DEF Kept
  <2> QED BY <1>1, <1>2, <2>1 DEF Visible, IInv, StoresOK
<1>4. ASSUME NEW k \in Jobs, IdOf[k] \notin disturbed'
      PROVE  /\ panel'[k].shows = "polling" => Visible(IdOf[k])' # None
             /\ panel'[k].shows # "not found"
  <2>1. CASE k = j
    <3>1. panel[j] \in Panel /\ DOMAIN panel = Jobs
      BY DEF IInv, PanelsOK
    <3>2. panel'[j] = [panel[j] EXCEPT !.shows = "polling"]
      BY <1>2, <3>1
    <3>3. panel'[k].shows = "polling"
      BY <2>1, <3>1, <3>2 DEF Panel
    <3> QED BY <1>3, <2>1, <3>3
  <2>2. CASE k # j
    <3>1. panel'[k] = panel[k]
      BY <1>2, <2>2 DEF IInv, PanelsOK
    <3>2. Visible(IdOf[k]) # None => Visible(IdOf[k])' # None
      <4>1. IdOf[k] \in Ids
        BY DEF Ids
      <4> QED BY <1>1, <1>2, <4>1, VisibleStays
    <3> QED BY <1>2, <1>4, <3>1, <3>2 DEF FoundOK
  <2> QED BY <2>1, <2>2
<1> QED BY <1>4 DEF FoundOK

LEMMA UpdateFound ==
  ASSUME IInv, FoundOK, NEW j \in Jobs, CreateRaises(j) \/ Proceed(j) PROVE FoundOK'
<1>1. /\ Blank \in Kept(IdOf[j]) /\ HSet(Blank, redis[IdOf[j]]) \in Kept(IdOf[j])
      /\ IdOf[j] \in Ids
  BY BlankKept, HSetKept DEF Ids, IInv, StoresOK
<1>2. CASE CreateRaises(j)
  <2>1. /\ UNCHANGED <<redisUp, memory, panel>> /\ disturbed \subseteq disturbed'
        /\ \/ redis' = [redis EXCEPT ![IdOf[j]] = HSet(Blank, redis[IdOf[j]])]
           \/ UNCHANGED redis
    BY <1>2 DEF CreateRaises
  <2> QED BY <1>1, <2>1, FoundStays
<1>3. CASE Read(j)
  <2> DEFINE id  == IdOf[j]
             r   == IF Visible(id) = None THEN Blank ELSE Visible(id)
             new == WithFields(r, j, worker[j].status)
  <2>1. new \in Kept(id)
    <3>1. r \in Kept(id)
      BY <1>1, VisibleKept
    <3>2. worker[j].status \in Queued..Failed
      BY DEF IInv, WorkersOK, WorkerState
    <3> QED BY <3>1, <3>2, FieldsKept
  <2>2. /\ UNCHANGED <<redisUp, redis, panel, disturbed>>
        /\ memory' = memory \/ memory' = [memory EXCEPT ![id] = new]
    BY <1>3 DEF Read
  <2> HIDE DEF new
  <2> QED BY <1>1, <2>1, <2>2, FoundStays
<1>4. CASE Write(j) \/ UpdateRaises(j)
  <2>1. worker[j].at = "write" =>
          Held(j) \in Kept(IdOf[j]) /\ HSet(Held(j), redis[IdOf[j]]) \in Kept(IdOf[j])
    BY <1>1, HeldKept, HSetKept DEF IInv, StoresOK
  <2>2. /\ UNCHANGED <<redisUp, panel>> /\ disturbed \subseteq disturbed'
        /\ \/ UNCHANGED <<redis, memory>>
           \/ /\ worker[j].at = "write" /\ UNCHANGED memory
              /\ redis' = [redis EXCEPT ![IdOf[j]] = HSet(Held(j), redis[IdOf[j]])]
           \/ /\ worker[j].at = "write" /\ UNCHANGED redis
              /\ memory' = [memory EXCEPT ![IdOf[j]] = Held(j)]
    <3>1. CASE Write(j)
      BY <3>1 DEF Write
    <3>2. CASE UpdateRaises(j)
      BY <3>2 DEF UpdateRaises, Raised
    <3> QED BY <1>4, <3>1, <3>2
  <2> QED BY <1>1, <2>1, <2>2, FoundStays
<1> QED BY <1>2, <1>3, <1>4 DEF Proceed

LEMMA PollFound ==
  ASSUME IInv, FoundOK, NEW j \in Jobs, Poll(j) \/ PollRaises(j) PROVE FoundOK'
<1>1. UNCHANGED <<redisUp, redis, memory, disturbed>> /\ panel[j].shows = "polling"
  BY DEF Poll, PollRaises, stores
<1>2. /\ panel'[j].shows = "not found" => Visible(IdOf[j]) = None
      /\ \A k \in Jobs \ {j} : panel'[k] = panel[k]
  <2>1. ASSUME NEW text, NEW result, Shows(j, text, result)
        PROVE  panel'[j].shows = text /\ \A k \in Jobs \ {j} : panel'[k] = panel[k]
    BY <2>1 DEF Shows, IInv, PanelsOK
  <2>2. CASE PollRaises(j)
    <3>1. Shows(j, "failed", None)
      BY <2>2 DEF PollRaises
    <3>2. panel'[j].shows = "failed"
      BY <2>1, <3>1
    <3> QED BY <2>1, <3>1, <3>2
  <2>3. CASE Poll(j)
    <3> DEFINE r == Visible(IdOf[j])
    <3>1. CASE r = None
      <4>1. Shows(j, "not found", None)
        BY <2>3, <3>1 DEF Poll
      <4> QED BY <2>1, <3>1, <4>1
    <3>2. CASE r # None /\ r.status = Completed
      <4>1. Shows(j, "result", r.result)
        BY <2>3, <3>2, PollsAssumption DEF Poll, Completed, Failed
      <4>2. panel'[j].shows = "result"
        BY <2>1, <4>1
      <4> QED BY <2>1, <4>1, <4>2
    <3>3. CASE r # None /\ r.status = Failed
      <4>1. Shows(j, "failed", None)
        BY <2>3, <3>3, PollsAssumption DEF Poll, Completed, Failed
      <4>2. panel'[j].shows = "failed"
        BY <2>1, <4>1
      <4> QED BY <2>1, <4>1, <4>2
    <3>4. CASE r # None /\ r.status # Completed /\ r.status # Failed
      <4>1. Shows(j, IF panel[j].polls + 1 = MaxPolls THEN "timeout" ELSE "polling", None)
        BY <2>3, <3>4 DEF Poll
      <4>2. panel'[j].shows = IF panel[j].polls + 1 = MaxPolls THEN "timeout" ELSE "polling"
        BY <2>1, <4>1
      <4> QED BY <2>1, <4>1, <4>2
    <3> QED BY <3>1, <3>2, <3>3, <3>4
  <2> QED BY <2>2, <2>3
<1>3. \A k \in Jobs : Visible(IdOf[k])' = Visible(IdOf[k])
  BY <1>1 DEF Visible
<1> QED BY <1>1, <1>2, <1>3 DEF FoundOK

LEMMA MovedFound == ASSUME IInv, FoundOK, Switch \/ Restart PROVE FoundOK'
<1>1. /\ UNCHANGED panel /\ disturbed \subseteq disturbed'
      /\ \A j \in Jobs : worker[j] # NotYet => IdOf[j] \in disturbed'
  BY DEF Switch, Restart
<1>2. \A j \in Jobs : panel[j].shows = "polling" => worker[j] # NotYet
  BY DEF IInv, PanelsOK
<1> QED BY <1>1, <1>2 DEF FoundOK

(* A panel that was given an id is told "not found" only after Redis has   *)
(* gone or come back, or the server was restarted, or the last write of    *)
(* the job has raised (JobStore.get, the polls of handleSend).             *)
THEOREM PanelsFindTheirJobs == Spec => []NotFoundMeansMoved
<1>1. Init => FoundOK
  <2> SUFFICES ASSUME Init, NEW j \in Jobs
               PROVE  panel[j].shows # "polling" /\ panel[j].shows # "not found"
    BY DEF FoundOK
  <2>1. panel[j] = [polls |-> 0, shows |-> "nothing", of |-> None]
    BY DEF Init
  <2> QED BY <2>1
<1>2. IInv /\ FoundOK /\ [Next]_vars => FoundOK'
  <2> SUFFICES ASSUME IInv, FoundOK, [Next]_vars PROVE FoundOK'
    OBVIOUS
  <2>1. CASE UNCHANGED vars
    BY <2>1 DEF vars, stores, FoundOK, Visible
  <2> QED BY <2>1, CreateFound, UpdateFound, PollFound, MovedFound DEF Next
<1>3. FoundOK => NotFoundMeansMoved
  BY DEF FoundOK, NotFoundMeansMoved
<1> QED BY InitInv, StepInv, <1>1, <1>2, <1>3, PTL DEF Spec
================================================================================
