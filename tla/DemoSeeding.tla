------------------------------- MODULE DemoSeeding -------------------------------
(***************************************************************************)
(* ArticlePipeline with demo seeding (enable_demo_seed_data, on unless the *)
(* environment says otherwise): create_tables runs at startup and again at *)
(* the beginning of every ingestion cycle, and seed_data_if_empty refills  *)
(* the table of articles when it counts fewer than a threshold.            *)
(***************************************************************************)
EXTENDS ArticlePipeline, FiniteSets, Functions

CONSTANTS
  SeedBatches,   \* the demo articles, split as they are committed
  SeedThreshold  \* "if count >= 2000: return"

Seeds == UNION Range(SeedBatches)

(* The URL of a demo article names its country, department and number.     *)
ASSUME SeedsAssumption ==
  /\ SeedBatches \in Seq(SUBSET Article) /\ SeedThreshold \in Nat
  /\ \A j, k \in DOMAIN SeedBatches :
       \A a \in SeedBatches[j], b \in SeedBatches[k] : a.url = b.url => j = k /\ a = b
ASSUME RowIdsAssumption == IsFiniteSet(RowIds)

VARIABLE
  short  \* since the table was last emptied, ingestion was let on over more
         \* than one row fewer than the threshold (a history variable)

seedVars == <<vars, short>>

(* A worker that seeds is at "delete" or "seed", the batches still to      *)
(* commit in todo; until the lifespan hook has seeded all are at "startup". *)
SeedInit == Fresh /\ short = FALSE /\ pc = [w \in Workers |-> "startup"]

(* The seeding worker, and after a startup all of them, can go on.         *)
Serve(w) ==
  /\ pc' = [v \in Workers |-> IF v = w \/ pc[v] = "startup" THEN "idle" ELSE pc[v]]
  /\ short' = (short \/ Cardinality(DOMAIN rows) + 1 < SeedThreshold)

(* The count, the DELETE or its commit raises: create_tables logs it and   *)
(* returns as after a seeding.                                             *)
SeedingRaises(w) ==
  /\ faults > 0 /\ faults' = faults - 1
  /\ Serve(w)

(* Who calls create_tables: a new session in which nothing is under way.   *)
Calls(w) ==
  \/ pc[w] = "idle" /\ session[w] = NoSession
  \/ \A v \in Workers : pc[v] = "startup"

(* Mutant of CountArticles: "count > threshold" for "count >= threshold".   *)
CountArticlesStrict(w) ==
  /\ Calls(w)
  /\ \/ Cardinality(DOMAIN rows) > SeedThreshold /\ Serve(w) /\ UNCHANGED faults
     \/ /\ Cardinality(DOMAIN rows) <= SeedThreshold
        /\ pc' = [pc EXCEPT ![w] = "delete"] /\ UNCHANGED <<faults, short>>
     \/ SeedingRaises(w)
  /\ UNCHANGED <<store, todo, unique, pend, confirm, prio, session, redisUp>>

(* create_tables counts the articles: enough of them, and it is done.  At  *)
(* startup the lifespan hook is the only caller.                           *)
CountArticles(w) ==
  /\ Calls(w)
  /\ \/ Cardinality(DOMAIN rows) >= SeedThreshold /\ Serve(w) /\ UNCHANGED faults
     \/ /\ Cardinality(DOMAIN rows) < SeedThreshold
        /\ pc' = [pc EXCEPT ![w] = "delete"] /\ UNCHANGED <<faults, short>>
     \/ SeedingRaises(w)
  /\ UNCHANGED <<store, todo, unique, pend, confirm, prio, session, redisUp>>

(* "Delete old seeding": DELETE FROM high_impact_articles, committed; or   *)
(* nothing is deleted and the caller goes on with the short table.         *)
DeleteArticles(w) ==
  /\ pc[w] = "delete"
  /\ \/ /\ rows' = EmptyTable /\ short' = FALSE
        /\ pc' = [pc EXCEPT ![w] = "seed"]
        /\ todo' = [todo EXCEPT ![w] = SeedBatches]
        /\ UNCHANGED faults
     \/ SeedingRaises(w) /\ UNCHANGED <<rows, todo>>
  /\ UNCHANGED <<dedup, archiveVersion, published, stored, unique, pend, confirm,
                 prio, session, redisUp>>

(* One batch of demo articles is committed.  A URL that is already there   *)
(* refuses it, and so may the database: the batch is tried once more       *)
(* without embeddings and then given up.                                   *)
InsertSeeds(w) ==
  /\ pc[w] = "seed" /\ todo[w] # <<>>
  /\ todo' = [todo EXCEPT ![w] = Tail(@)]
  /\ LET batch == Head(todo[w])
         free == RowIds \ (DOMAIN rows \cup UNION {DOMAIN session[v] : v \in Workers})
         keys == {f \in [batch -> free] :
                    \A a, b \in batch : f[a] = f[b] => a = b}
     IN  \/ /\ UrlsIn(batch) \cap UrlsOf(rows) = {} /\ keys # {}
            /\ LET f == CHOOSE f \in keys : TRUE
               IN  rows' = [i \in DOMAIN rows \cup {f[a] : a \in batch} |->
                              IF i \in DOMAIN rows THEN rows[i]
                              ELSE AsRow(CHOOSE a \in batch : f[a] = i)]
            /\ UNCHANGED faults
         \/ /\ UrlsIn(batch) \cap UrlsOf(rows) # {}
            /\ UNCHANGED <<rows, faults>>
         \/ /\ faults > 0 /\ faults' = faults - 1
            /\ UNCHANGED rows
  /\ UNCHANGED <<dedup, archiveVersion, published, stored, pc, unique, pend,
                 confirm, prio, session, redisUp, short>>

(* All batches tried: the lifespan hook, or the cycle, goes on.            *)
FinishSeeding(w) ==
  /\ pc[w] = "seed" /\ todo[w] = <<>>
  /\ Serve(w)
  /\ UNCHANGED <<store, todo, unique, pend, confirm, prio, session, redisUp, faults>>

(* A restart runs the startup hook again over the surviving database.      *)
Restart ==
  LoseMemory /\ pc' = [w \in Workers |-> "startup"] /\ UNCHANGED short

(* Ingestion goes on in workers that are neither seeding nor starting.     *)
SeedNext ==
  \/ \E w \in Workers :
       CountArticles(w) \/ DeleteArticles(w) \/ InsertSeeds(w) \/ FinishSeeding(w)
  \/ Restart
  \/ Ingestion /\ UNCHANGED short

SeedSpec == SeedInit /\ [][SeedNext]_seedVars

-----------------------------------------------------------------------------
Traceable == LeadUrls \cup AlsoUrls

(* What a commit stored leads a row or is named in some also_reported_by   *)
(* list until "Delete old seeding" empties the table: no election,         *)
(* roll-back, crash, later commit or demo batch forgets it, and no failed  *)
(* or interrupted seeding does.                                            *)
StoredUntilDeleted ==
  [][/\ stored' \ stored \subseteq Traceable'
     /\ Traceable \subseteq Traceable' \/ rows' = EmptyTable]_seedVars

(* "Delete old seeding" takes demo rows only, into which no ingested       *)
(* article was merged, unless ingestion was let on too early: over more    *)
(* than one row below the threshold, because the demo articles do not      *)
(* reach it or the seeding failed.  The dedup keys of what it takes then   *)
(* keep it out.                                                            *)
OnlySeedingDeleted ==
  [][\A i \in DOMAIN rows :
       \/ i \in DOMAIN rows' \/ short
       \/ {rows[i].url} \cup rows[i].also \subseteq UrlsIn(Seeds)]_seedVars
================================================================================
