------------------------------- MODULE GdeltWorker -------------------------------
(***************************************************************************)
(* ingest_gdelt_events (services/gdelt_worker.py): one polling cycle, run  *)
(* by the background loop and, at any time, by POST /api/gdelt/ingest.     *)
(* Steps are separated where the code awaits the network, the database or  *)
(* Redis.  The article pipeline writes the same table.                     *)
(***************************************************************************)
EXTENDS Naturals, FiniteSets, SequencesExt

CONSTANTS
  Runs,       \* coroutines that run cycles: the loop, a manual trigger
  Events,     \* GDELT events of target countries, told apart by their id
  Url,        \* Events -> URL: several events may cite one article
  Impact,     \* Events -> {"High", "Medium", "Normal"}
  Updates,    \* the exports GDELT publishes, each a sequence of events
  Others,     \* URLs the article pipeline may store
  BatchSize,  \* settings.ingestion_batch_size
  HighCap, MediumCap,  \* 10 and 5
  MaxFaults   \* bound on failing statements

ASSUME UpdatesAssumption ==
  /\ Updates \in Seq(Seq(Events)) /\ Updates # <<>>
  /\ Impact \in [Events -> {"High", "Medium", "Normal"}] /\ DOMAIN Url = Events
ASSUME BoundsAssumption ==
  /\ BatchSize \in Nat \ {0} /\ HighCap \in Nat /\ MediumCap \in Nat
  /\ MaxFaults \in Nat

VARIABLES
  update,    \* which export lastupdate.txt points to
  rows,      \* events in high_impact_articles
  others,    \* URLs there that came from the article pipeline
  announced, \* how often each event was published on live_stream
  counter,   \* gdelt_events_inserted_total
  redisUp, faults,
  undisturbed, \* history: no cycle so far met a fault, another cycle or an
               \* article stored while it was under way
  pc, cand, rest, inserted, casts  \* one entry per run

table == <<rows, others>>
env   == <<redisUp, faults, undisturbed>>
local == <<pc, cand, rest, inserted, casts>>
vars  == <<update, table, announced, counter, env, local>>

Init ==
  /\ update = 1 /\ rows = {} /\ others = {}
  /\ announced = [e \in Events |-> 0] /\ counter = 0
  /\ redisUp \in BOOLEAN /\ faults = MaxFaults /\ undisturbed = TRUE
  /\ pc = [r \in Runs |-> "idle"]
  /\ cand = [r \in Runs |-> <<>>] /\ rest = [r \in Runs |-> <<>>]
  /\ inserted = [r \in Runs |-> 0] /\ casts = [r \in Runs |-> <<>>]

-----------------------------------------------------------------------------
TakenUrls == {Url[e] : e \in rows} \cup others

(* What is kept of the first n elements of a sequence, given the places    *)
(* that are kept.                                                          *)
Keeping(s, places) ==
  LET kept[n \in 0 .. Len(s)] ==
        IF n = 0 THEN <<>>
        ELSE IF n \in places THEN Append(kept[n - 1], s[n]) ELSE kept[n - 1]
  IN  kept

Keep(s, places) == Keeping(s, places)[Len(s)]

(* The places where a URL appears for the first time.                      *)
Firsts(s) == {k \in DOMAIN s : \A j \in 1 .. k - 1 : Url[s[j]] # Url[s[k]]}

(* Mutant of FirstPerUrl: the layer that looks inside the batch is gone.   *)
AllOfThem(s) == s

(* Within one export only the first event of each URL is kept.             *)
FirstPerUrl(s) == Keep(s, Firsts(s))

Leave(r) ==
  /\ pc' = [pc EXCEPT ![r] = "idle"] /\ cand' = [cand EXCEPT ![r] = <<>>]
  /\ rest' = [rest EXCEPT ![r] = <<>>] /\ casts' = [casts EXCEPT ![r] = <<>>]
  /\ inserted' = [inserted EXCEPT ![r] = 0]

(* The export was downloaded, parsed and filtered.                         *)
Fetch(r) ==
  /\ pc[r] = "idle"
  /\ pc' = [pc EXCEPT ![r] = "ids"]
  /\ cand' = [cand EXCEPT ![r] = FirstPerUrl(Updates[update])]
  /\ undisturbed' = (undisturbed /\ \A q \in Runs : pc[q] = "idle")
  /\ UNCHANGED <<update, table, announced, counter, redisUp, faults, rest,
                 inserted, casts>>

(* Layer two: events already stored under their GLOBALEVENTID.             *)
CheckIds(r) ==
  /\ pc[r] = "ids"
  /\ pc' = [pc EXCEPT ![r] = "urls"]
  /\ cand' = [cand EXCEPT ![r] = Keep(@, {k \in DOMAIN @ : @[k] \notin rows})]
  /\ UNCHANGED <<update, table, announced, counter, env, rest,
                 inserted, casts>>

(* Mutant of CheckUrls: there is no third layer.                           *)
CheckNoUrls(r) ==
  /\ pc[r] = "urls"
  /\ IF cand[r] = <<>> THEN Leave(r)
     ELSE /\ pc' = [pc EXCEPT ![r] = "insert"]
          /\ rest' = [rest EXCEPT ![r] = cand[r]]
          /\ UNCHANGED <<cand, inserted, casts>>
  /\ UNCHANGED <<update, table, announced, counter, env>>

(* Layer three: URLs already stored, by whomever.                          *)
CheckUrls(r) ==
  /\ pc[r] = "urls"
  /\ LET new == Keep(cand[r], {k \in DOMAIN cand[r] : Url[cand[r][k]] \notin TakenUrls})
     IN  IF new = <<>> THEN Leave(r)
         ELSE /\ pc' = [pc EXCEPT ![r] = "insert"]
              /\ cand' = [cand EXCEPT ![r] = new]
              /\ rest' = [rest EXCEPT ![r] = new]
              /\ UNCHANGED <<inserted, casts>>
  /\ UNCHANGED <<update, table, announced, counter, env>>

(* Mutant of Most: the slice ends one element early.                       *)
MostButOne(s, n) == SubSeq(s, 1, (IF Len(s) < n THEN Len(s) ELSE n) - 1)

Most(s, n) == SubSeq(s, 1, IF Len(s) < n THEN Len(s) ELSE n)
OfImpact(s, level) == Keep(s, {k \in DOMAIN s : Impact[s[k]] = level})

(* What is announced: at most ten and five events, high impact first.      *)
Broadcasts(new) ==
  Most(OfImpact(new, "High"), HighCap) \o Most(OfImpact(new, "Medium"), MediumCap)

(* INSERT OR IGNORE: a mapping whose URL is in the table, or precedes it   *)
(* in the batch, is left out.                                              *)
Ignored(batch) ==
  rows \cup {batch[k] : k \in {i \in Firsts(batch) : Url[batch[i]] \notin TakenUrls}}

(* Mutant of InsertBatch: the last batch is counted, not their sum.        *)
InsertBatchCountedAlone(r) ==
  /\ pc[r] = "insert" /\ rest[r] # <<>>
  /\ rows' = Ignored(Most(rest[r], BatchSize))
  /\ inserted' = [inserted EXCEPT ![r] = Len(Most(rest[r], BatchSize))]
  /\ rest' = [rest EXCEPT ![r] = SubSeq(@, BatchSize + 1, Len(@))]
  /\ UNCHANGED <<update, others, announced, counter, env, pc, cand,
                 casts>>

(* One batch is inserted and committed; every mapping is counted.          *)
InsertBatch(r) ==
  /\ pc[r] = "insert" /\ rest[r] # <<>>
  /\ rows' = Ignored(Most(rest[r], BatchSize))
  /\ inserted' = [inserted EXCEPT ![r] = @ + Len(Most(rest[r], BatchSize))]
  /\ rest' = [rest EXCEPT ![r] = SubSeq(@, BatchSize + 1, Len(@))]
  /\ UNCHANGED <<update, others, announced, counter, env, pc, cand,
                 casts>>

(* Mutant of ChooseBroadcasts: it does not wait for the last batch.        *)
ChooseBroadcastsEarly(r) ==
  /\ pc[r] = "insert"
  /\ pc' = [pc EXCEPT ![r] = "announce"]
  /\ casts' = [casts EXCEPT ![r] = Broadcasts(cand[r])]
  /\ UNCHANGED <<update, table, announced, counter, env, cand, rest,
                 inserted>>

(* All batches are in: the broadcasts of the cycle are chosen.             *)
ChooseBroadcasts(r) ==
  /\ pc[r] = "insert" /\ rest[r] = <<>>
  /\ pc' = [pc EXCEPT ![r] = "announce"]
  /\ casts' = [casts EXCEPT ![r] = Broadcasts(cand[r])]
  /\ UNCHANGED <<update, table, announced, counter, env, cand, rest,
                 inserted>>

(* pubsub_publish; without Redis it does nothing.                          *)
Announce(r) ==
  /\ pc[r] = "announce" /\ casts[r] # <<>>
  /\ announced' = IF redisUp THEN [announced EXCEPT ![Head(casts[r])] = @ + 1]
                  ELSE announced
  /\ casts' = [casts EXCEPT ![r] = Tail(@)]
  /\ UNCHANGED <<update, table, counter, env, pc, cand, rest, inserted>>

(* The counters are bumped and the cycle returns.                          *)
Finish(r) ==
  /\ pc[r] = "announce" /\ casts[r] = <<>>
  /\ counter' = counter + inserted[r]
  /\ Leave(r)
  /\ UNCHANGED <<update, table, announced, env>>

(* A statement fails: the cycle ends with an error.  What was committed    *)
(* stays; stats["inserted"] is still zero.                                 *)
StatementFails(r) ==
  /\ \/ pc[r] \in {"ids", "urls"}
     \/ pc[r] = "insert" /\ rest[r] # <<>>
  /\ faults > 0 /\ faults' = faults - 1 /\ undisturbed' = FALSE
  /\ Leave(r)
  /\ UNCHANGED <<update, table, announced, counter, redisUp>>

-----------------------------------------------------------------------------
NewUpdate ==
  /\ update < Len(Updates) /\ update' = update + 1
  /\ UNCHANGED <<table, announced, counter, env, local>>

StoreOther(u) ==
  /\ u \notin TakenUrls /\ others' = others \cup {u}
  /\ undisturbed' = (undisturbed /\ \A q \in Runs : pc[q] = "idle")
  /\ UNCHANGED <<update, rows, announced, counter, redisUp, faults, local>>

ToggleRedis ==
  /\ redisUp' = ~redisUp
  /\ UNCHANGED <<update, table, announced, counter, faults, undisturbed, local>>

Proceed(r) == \/ CheckIds(r) \/ CheckUrls(r) \/ InsertBatch(r)
              \/ ChooseBroadcasts(r) \/ Announce(r) \/ Finish(r)

Next ==
  \/ \E r \in Runs : Fetch(r) \/ Proceed(r) \/ StatementFails(r)
  \/ NewUpdate \/ ToggleRedis
  \/ \E u \in Others : StoreOther(u)

Spec == Init /\ [][Next]_vars

(* The event loop resumes every cycle under way.                           *)
FairSpec == Spec /\ \A r \in Runs : WF_vars(Proceed(r))

-----------------------------------------------------------------------------
(* The shape of the table, the counters and the cycles under way; a cycle  *)
(* has inserted or has still to insert each of its candidates once.        *)
TypeOK ==
  /\ update \in 1 .. Len(Updates) /\ rows \subseteq Events /\ others \subseteq Others
  /\ announced \in [Events -> Nat] /\ counter \in Nat
  /\ redisUp \in BOOLEAN /\ faults \in 0 .. MaxFaults
  /\ undisturbed \in BOOLEAN
  /\ pc \in [Runs -> {"idle", "ids", "urls", "insert", "announce"}]
  /\ cand \in [Runs -> Seq(Events)] /\ rest \in [Runs -> Seq(Events)]
  /\ casts \in [Runs -> Seq(Events)] /\ inserted \in [Runs -> Nat]
  /\ \A r \in Runs : pc[r] \in {"insert", "announce"} =>
       inserted[r] + Len(rest[r]) = Len(cand[r])

(* Only articles that are in the table are announced: cycles that overlap, *)
(* and the article pipeline, may have stored them first, but a conflict    *)
(* never leaves an announced event without a row.                          *)
AnnouncedIsStored ==
  \A e \in Events : announced[e] > 0 => Url[e] \in TakenUrls

(* Cycles that nothing disturbs announce no article twice, though the      *)
(* exports repeat events and several events cite one article.              *)
AnnouncedOnce ==
  undisturbed =>
    \A e, f \in Events :
      announced[e] > 0 /\ announced[f] > 0 /\ Url[e] = Url[f] =>
        e = f /\ announced[e] = 1

(* "GDELT events persisted to database": after cycles that nothing         *)
(* disturbed the counter is the number of events in the table.             *)
CounterIsTruth ==
  undisturbed /\ (\A r \in Runs : pc[r] = "idle") => counter = Cardinality(rows)

(* Whatever overlaps, the counter is behind the table only if a statement  *)
(* failed: cycles that meet count a row twice, never not at all.           *)
CounterNeverShort ==
  faults = MaxFaults /\ (\A r \in Runs : pc[r] = "idle") => Cardinality(rows) <= counter

(* The last export reaches the table if it is polled again and again, in   *)
(* spite of faults, overlapping cycles and an article pipeline that is     *)
(* faster: every URL of it is there in the end.                            *)
LastUpdateIsStored ==
  (/\ []<>(update = Len(Updates)) /\ \E r \in Runs : []<><<Fetch(r)>>_vars)
     => <>(\A e \in ToSet(Updates[Len(Updates)]) : Url[e] \in TakenUrls)
================================================================================
