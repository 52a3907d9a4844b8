-------------------------------- MODULE JobStore --------------------------------
(***************************************************************************)
(* Background jobs: the records of services/job_store.py, in Redis or in   *)
(* memory, the workers that move a job through its stages (process_fusion_ *)
(* job of routes/chat.py, run_mock_scrape_job of main.py), and the chat    *)
(* panel that polls (App.tsx).  A job's id is its type and the second of   *)
(* its creation; jobs of one second share it.  Steps end at awaits.        *)
(***************************************************************************)
EXTENDS Naturals, FiniteSets

CONSTANTS
  Jobs,
  IdOf,       \* of each job
  None,       \* no record, no result
  Shared,     \* a worker holds the very object that memory holds
  LastStage,  \* parsing, searching, synthesizing: 3
  MaxPolls,   \* the panel gives up after 60
  MaxFaults   \* bound: Redis commands that raise, outages, restarts

Ids == {IdOf[j] : j \in Jobs}

(* Statuses: queued, the stages, completed, failed.                        *)
Queued == 0
Completed == LastStage + 1
Failed == LastStage + 2

(* What is told apart of a JobRecord; the result is that of a job.         *)
Record == [status : Queued..Failed, result : {None} \cup Jobs]

ASSUME JobsAssumption == DOMAIN IdOf = Jobs /\ None \notin Jobs
ASSUME NullsAssumption ==
  None \notin Record /\ Shared \notin Record /\ None # Shared
ASSUME PollsAssumption == {LastStage, MaxPolls} \subseteq Nat \ {0} /\ MaxFaults \in Nat

VARIABLES
  redisUp,     \* whether get_redis_pool has a client
  redis, memory,   \* per id its record
  worker,      \* per job: where its worker is, the status it writes, the record
  panel,       \* per job: the polls made and what the panel shows
  faults,
  disturbed    \* history: ids whose store changed or failed to be written

stores == <<redis, memory>>
vars == <<redisUp, stores, worker, panel, faults, disturbed>>

Terminal(r) == r # None /\ r.status \in {Completed, Failed}

Blank == [status |-> Queued, result |-> None]
Fault == faults > 0 /\ faults' = faults - 1

-----------------------------------------------------------------------------
(* The store                                                               *)

(* What get answers.                                                       *)
Visible(id) == IF redisUp THEN redis[id] ELSE memory[id]

(* hset of a record: fields without a value are left out and keep theirs.  *)
HSet(r, old) ==
  IF old = None THEN r
  ELSE [r EXCEPT !.result = IF r.result = None THEN old.result ELSE r.result]

(* Mutant of WithFields: the result follows in an update of its own.       *)
WithFieldsBare(r, j, status) == [r EXCEPT !.status = status]

(* The fields of job j's update to a status.                               *)
WithFields(r, j, status) ==
  [r EXCEPT !.status = status,
            !.result = IF status = Completed THEN j ELSE @]

Held(j) == IF worker[j].held = Shared THEN memory[IdOf[j]] ELSE worker[j].held

(* A worker, started by create, begins an update to a status.              *)
Updating(status) == [at |-> "read", status |-> status, held |-> None]
Over == [at |-> "over", status |-> Queued, held |-> None]
NotYet == [at |-> "not yet", status |-> Queued, held |-> None]

(* A scrape job of a refused address raises before its first stage.        *)
Beginnings == {Updating(1), Updating(Failed)}

(* A new object in memory leaves the old one to those who hold it.         *)
Detached(id) ==
  [k \in Jobs |-> IF IdOf[k] = id /\ worker[k].held = Shared
                  THEN [worker[k] EXCEPT !.held = memory[id]] ELSE worker[k]]

(* Mutant of Create: without Redis nothing is kept.                        *)
CreateInRedisOnly(j) ==
  /\ worker[j] = NotYet
  /\ redis' = IF redisUp THEN [redis EXCEPT ![IdOf[j]] = HSet(Blank, @)] ELSE redis
  /\ \E w \in Beginnings : worker' = [worker EXCEPT ![j] = w]
  /\ panel' = [panel EXCEPT ![j].shows = "polling"]
  /\ UNCHANGED <<redisUp, memory, faults, disturbed>>

(* create: over the record of an earlier job of this second, if there is   *)
(* one.  The upload is answered, the panel polls and the worker starts.    *)
Create(j) ==
  /\ worker[j] = NotYet
  /\ \E w \in Beginnings :
       IF redisUp
       THEN /\ redis' = [redis EXCEPT ![IdOf[j]] = HSet(Blank, @)]
            /\ worker' = [worker EXCEPT ![j] = w]
            /\ UNCHANGED memory
       ELSE /\ memory' = [memory EXCEPT ![IdOf[j]] = Blank]
            /\ worker' = [Detached(IdOf[j]) EXCEPT ![j] = w]
            /\ UNCHANGED redis
  /\ panel' = [panel EXCEPT ![j].shows = "polling"]
  /\ UNCHANGED <<redisUp, faults, disturbed>>

(* Redis raises, before or after the record is written: the upload is      *)
(* refused, a record may stay.                                             *)
CreateRaises(j) ==
  /\ worker[j] = NotYet /\ redisUp /\ Fault
  /\ \/ redis' = [redis EXCEPT ![IdOf[j]] = HSet(Blank, @)]
     \/ UNCHANGED redis
  /\ worker' = [worker EXCEPT ![j] = Over]
  /\ disturbed' = disturbed \cup {IdOf[j]}
  /\ UNCHANGED <<redisUp, memory, panel>>

(* update: the record is read, or begun anew if there is none, and given   *)
(* its fields; one from memory is changed in place.                        *)
Read(j) ==
  /\ worker[j].at = "read"
  /\ LET id == IdOf[j]
         r  == IF Visible(id) = None THEN Blank ELSE Visible(id)
         new == WithFields(r, j, worker[j].status)
         shared == ~redisUp /\ memory[id] # None
     IN  /\ worker' = [worker EXCEPT ![j].at = "write",
                                     ![j].held = IF shared THEN Shared ELSE new]
         /\ memory' = IF shared THEN [memory EXCEPT ![id] = new] ELSE memory
  /\ UNCHANGED <<redisUp, redis, panel, faults, disturbed>>

(* Once the update has returned, the next stage's work is done or raises;  *)
(* after the last update the worker is over.                               *)
After(status) ==
  IF status \in {Completed, Failed} THEN {Over}
  ELSE {Updating(status + 1), Updating(Failed)}

(* The record is written to the store there is by now.                     *)
Write(j) ==
  /\ worker[j].at = "write"
  /\ \E next \in After(worker[j].status) :
       IF redisUp
       THEN /\ redis' = [redis EXCEPT ![IdOf[j]] = HSet(Held(j), @)]
            /\ worker' = [worker EXCEPT ![j] = next]
            /\ UNCHANGED memory
       ELSE /\ memory' = [memory EXCEPT ![IdOf[j]] = Held(j)]
            /\ worker' = IF worker[j].held = Shared THEN [worker EXCEPT ![j] = next]
                         ELSE [Detached(IdOf[j]) EXCEPT ![j] = next]
            /\ UNCHANGED redis
  /\ UNCHANGED <<redisUp, panel, faults, disturbed>>

(* Mutant of Raised: the exception is only logged.                         *)
RaisedLogging(j) ==
  /\ worker' = [worker EXCEPT ![j] = Over]
  /\ UNCHANGED disturbed

(* An update that raises leads to one with status "failed"; when that one  *)
(* raises too, the worker is over.                                         *)
Raised(j) ==
  IF worker[j].status = Failed
  THEN worker' = [worker EXCEPT ![j] = Over] /\ disturbed' = disturbed \cup {IdOf[j]}
  ELSE worker' = [worker EXCEPT ![j] = Updating(Failed)] /\ UNCHANGED disturbed

(* hgetall, hset or publish raises, the last one with the record written.  *)
UpdateRaises(j) ==
  /\ redisUp /\ Fault
  /\ \/ worker[j].at \in {"read", "write"} /\ UNCHANGED redis
     \/ worker[j].at = "write" /\ redis' = [redis EXCEPT ![IdOf[j]] = HSet(Held(j), @)]
  /\ Raised(j)
  /\ UNCHANGED <<redisUp, memory, panel>>

-----------------------------------------------------------------------------
(* The panel, and the world                                                *)

Shows(j, text, result) ==
  panel' = [panel EXCEPT ![j] = [polls |-> @.polls + 1, shows |-> text, of |-> result]]

(* One poll of /api/chat/fusion/status: 404, a final status, or one more.  *)
Poll(j) ==
  /\ panel[j].shows = "polling"
  /\ LET r == Visible(IdOf[j])
     IN  CASE r = None -> Shows(j, "not found", None)
           [] r # None /\ r.status = Completed -> Shows(j, "result", r.result)
           [] r # None /\ r.status = Failed -> Shows(j, "failed", None)
           [] OTHER -> Shows(j, IF panel[j].polls + 1 = MaxPolls THEN "timeout"
                                ELSE "polling", None)
  /\ UNCHANGED <<redisUp, stores, worker, faults, disturbed>>

(* hgetall raises: the request is answered with an error.                  *)
PollRaises(j) ==
  /\ panel[j].shows = "polling" /\ redisUp /\ Fault
  /\ Shows(j, "failed", None)
  /\ UNCHANGED <<redisUp, stores, worker, disturbed>>

(* Redis goes or comes back: the records of the other store are read.      *)
Switch ==
  /\ redisUp' = ~redisUp /\ (redisUp => faults > 0)
  /\ faults' = IF redisUp THEN faults - 1 ELSE faults
  /\ disturbed' = disturbed \cup {IdOf[j] : j \in {k \in Jobs : worker[k] # NotYet}}
  /\ UNCHANGED <<stores, worker, panel>>

(* The server is restarted: memory and workers are gone, panels poll on.   *)
Restart ==
  /\ Fault
  /\ memory' = [id \in Ids |-> None]
  /\ worker' = [j \in Jobs |-> IF worker[j] = NotYet THEN NotYet ELSE Over]
  /\ disturbed' = disturbed \cup {IdOf[j] : j \in {k \in Jobs : worker[k] # NotYet}}
  /\ UNCHANGED <<redisUp, redis, panel>>

-----------------------------------------------------------------------------
Init ==
  /\ redisUp \in BOOLEAN
  /\ redis = [id \in Ids |-> None] /\ memory = [id \in Ids |-> None]
  /\ worker = [j \in Jobs |-> NotYet]
  /\ panel = [j \in Jobs |-> [polls |-> 0, shows |-> "nothing", of |-> None]]
  /\ faults = MaxFaults /\ disturbed = {}

Proceed(j) == Read(j) \/ Write(j) \/ UpdateRaises(j)

Next ==
  \/ \E j \in Jobs : Create(j) \/ CreateRaises(j) \/ Proceed(j)
                    \/ Poll(j) \/ PollRaises(j)
  \/ Switch \/ Restart

Spec == Init /\ [][Next]_vars

(* Workers run on.                                                         *)
FairSpec == Spec /\ \A j \in Jobs : WF_vars(Proceed(j))

-----------------------------------------------------------------------------
Panel == [polls : 0..MaxPolls,
          shows : {"nothing", "polling", "result", "failed", "not found", "timeout"},
          of : {None} \cup Jobs]

(* Records, workers and panels.                                            *)
TypeOK ==
  /\ redisUp \in BOOLEAN
  /\ redis \in [Ids -> {None} \cup Record] /\ memory \in [Ids -> {None} \cup Record]
  /\ worker \in [Jobs -> [at : {"not yet", "read", "write", "over"},
                          status : Queued..Failed, held : {None, Shared} \cup Record]]
  /\ \A j \in Jobs : worker[j].held = Shared => memory[IdOf[j]] # None
  /\ panel \in [Jobs -> Panel]
  /\ faults \in 0..MaxFaults /\ disturbed \subseteq Ids

(* Whoever reads that a job is completed reads its result with it, though  *)
(* records are merged field by field, shared by jobs of one second and     *)
(* kept in two stores: the panel relies on it.                             *)
CompletedHasResult ==
  /\ \A id \in Ids : \A r \in {redis[id], memory[id]} :
       r # None /\ r.status = Completed => r.result # None
  /\ \A j \in Jobs : panel[j].shows = "result" =>
                       panel[j].of # None /\ IdOf[panel[j].of] = IdOf[j]

(* A panel that was given an id is told "not found" only after Redis has   *)
(* gone or come back or the server was restarted in between.               *)
NotFoundMeansMoved ==
  \A j \in Jobs : panel[j].shows = "not found" => IdOf[j] \in disturbed

(* Without such an event every record that was created is final in the     *)
(* end: also when jobs share it and overwrite each other's stages, and     *)
(* when an update on the way has raised.                                   *)
JobsSettle ==
  \A j \in Jobs :
    <>[](worker[j] # NotYet => Terminal(Visible(IdOf[j])) \/ IdOf[j] \in disturbed)
================================================================================
