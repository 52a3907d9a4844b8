---------------------------- MODULE ArticlePipeline ----------------------------
(***************************************************************************)
(* The ingestion pipeline of the backend (services/classifier.py): batches *)
(* of fetched articles are checked against the Redis dedup keys and the    *)
(* database, screened for near-duplicates, announced on the live stream,   *)
(* inserted in one transaction, and only then confirmed in Redis.          *)
(*                                                                         *)
(* A worker is one coroutine that runs classify_and_store_batch or         *)
(* save_article with a database session of its own: the periodic loop, a   *)
(* manual refresh, a country fetch or a scrape job.  An action is the code *)
(* between two awaits that other coroutines or the database can observe.   *)
(* Of the code's two branches the one without pgvector is modelled: near-  *)
(* duplicates are searched in Python.  A query reads the last commit.      *)
(***************************************************************************)
EXTENDS Naturals, Sequences

CONSTANTS
  Workers,    \* concurrently running ingestion coroutines
  Articles,   \* the articles providers return, records of type Article
  Batches,    \* the sequences of articles one fetch may return, with a URL
              \* at most once per country (ingestion.py drops repetitions)
  Scraped,    \* the articles scrape jobs may save
  Urls, Titles, Countries, Vectors,
  RowIds,     \* primary keys, a bound on the size of the table
  NoVec,      \* no embedding, or the all-zero one
  Unset,      \* cand_pri / ex_pri before their first assignment in a call
  MaxFaults   \* bound on failing database statements

(* Reputation as get_rep_priority ranks it: Verified Source 3, Developing  *)
(* 2, Unverified 1, anything else 0.                                       *)
Reputations == 0..3

(* `recent` says the article was published in the last 24 hours.           *)
Article == [url: Urls, title: Titles, cc: Countries, rep: Reputations,
            vec: Vectors \cup {NoVec}, recent: BOOLEAN]

(* A row of high_impact_articles; `also` is the also_reported_by list.     *)
Row == [url: Urls, title: Titles, cc: Countries, rep: Reputations,
        vec: Vectors \cup {NoVec}, recent: BOOLEAN, also: SUBSET Urls]

ASSUME ArticlesAssumption == Articles \subseteq Article
ASSUME BatchesAssumption  == Batches \subseteq Seq(Articles)
ASSUME ScrapedAssumption  == Scraped \subseteq Articles
ASSUME FaultsAssumption   == MaxFaults \in Nat
ASSUME UnsetAssumption    == Unset \notin [cand: Reputations, ex: Reputations]

VARIABLES
  rows,           \* committed table contents, by primary key
  dedup,          \* URLs with a drishya:dedup key in Redis
  redisUp,        \* whether get_redis_pool hands out a connection
  archiveVersion, \* drishya:archive:version
  published,      \* URLs ever announced on the live stream
  stored,         \* URLs ever committed by an insert
  pc, todo, unique, pend, confirm, prio, session,   \* one entry per worker
  faults

store  == <<rows, dedup, archiveVersion, published, stored>>
local  == <<pc, todo, unique, pend, confirm, prio, session>>
vars   == <<store, local, redisUp, faults>>

-----------------------------------------------------------------------------
UrlsOf(rs) == {rs[i].url : i \in DOMAIN rs}
UrlsIn(S) == {a.url : a \in S}

AsRow(a) == [url |-> a.url, title |-> a.title, cc |-> a.cc, rep |-> a.rep,
             vec |-> a.vec, recent |-> a.recent, also |-> {}]

EmptyTable == [i \in {} |-> {}]
NoSession == [i \in {} |-> {}]

(* A session maps primary keys to the objects it holds: the column values   *)
(* it loaded or assigned, and the groups of columns it will UPDATE.        *)
Dirty(s) == {i \in DOMAIN s : s[i].cols # {}}
OnlyDirty(s) == [i \in Dirty(s) |-> s[i]]

(* A query never refreshes an object the session already holds.            *)
Loaded(s, cc) ==
  [i \in Dirty(s) \cup {j \in DOMAIN rows : rows[j].cc = cc} |->
     IF i \in DOMAIN s THEN s[i] ELSE [row |-> rows[i], cols |-> {}]]

Candidate(w) == Head(todo[w])

(* Existing rows the similarity loop does not skip.                        *)
Comparable(w) ==
  IF Candidate(w).vec = NoVec THEN {}
  ELSE LET s == Loaded(session[w], Candidate(w).cc)
       IN  {i \in DOMAIN s : s[i].row.cc = Candidate(w).cc
                               /\ s[i].row.vec # NoVec}

(* Mutant of Elect: the demoted URL is dropped.                            *)
ElectWithoutDemotion(o, a, p) ==
  IF p.cand > p.ex
  THEN [row  |-> [o.row EXCEPT !.url = a.url, !.title = a.title,
                               !.vec = a.vec, !.rep = a.rep],
        cols |-> o.cols \cup {"lead"}]
  ELSE [row  |-> [o.row EXCEPT !.also = @ \cup {a.url}],
        cols |-> o.cols \cup {"also"}]

(* Lead article election between a candidate and a held object.            *)
Elect(o, a, p) ==
  IF p.cand > p.ex
  THEN [row  |-> [o.row EXCEPT !.url = a.url, !.title = a.title,
                               !.vec = a.vec, !.rep = a.rep,
                               !.also = @ \cup {o.row.url}],
        cols |-> o.cols \cup {"lead"}
                   \cup (IF o.row.url \in o.row.also THEN {} ELSE {"also"})]
  ELSE [row  |-> [o.row EXCEPT !.also = @ \cup {a.url}],
        cols |-> o.cols \cup (IF a.url \in o.row.also THEN {} ELSE {"also"})]

(* What the table holds once the session's UPDATEs are flushed.            *)
Flushed(s) ==
  [i \in DOMAIN rows |->
     IF i \notin Dirty(s) THEN rows[i]
     ELSE LET r == s[i].row
              lead == IF "lead" \in s[i].cols
                      THEN [rows[i] EXCEPT !.url = r.url, !.title = r.title,
                                           !.vec = r.vec, !.rep = r.rep]
                      ELSE rows[i]
          IN  IF "also" \in s[i].cols THEN [lead EXCEPT !.also = r.also]
              ELSE lead]

DistinctUrls(rs) == \A i, j \in DOMAIN rs : rs[i].url = rs[j].url => i = j

(* Primary keys for the collected rows: fresh, one each.                   *)
FreshIds(w) ==
  {f \in [pend[w] -> RowIds \ (DOMAIN rows \cup DOMAIN session[w])] :
     \A a, b \in pend[w] : f[a] = f[b] => a = b}

AfterCommit(w, f) ==
  [i \in DOMAIN rows \cup {f[a] : a \in pend[w]} |->
     IF i \in DOMAIN rows THEN Flushed(session[w])[i]
     ELSE AsRow(CHOOSE a \in pend[w] : f[a] = i)]

(* The transaction goes through: every row it updates still exists and the *)
(* UNIQUE constraint on url holds, for the INSERT against the committed    *)
(* rows and for the UPDATEs flushed by the commit.                         *)
Accepted(w, f) ==
  /\ Dirty(session[w]) \subseteq DOMAIN rows
  /\ UrlsIn(pend[w]) \cap UrlsOf(rows) = {}
  /\ DistinctUrls(AfterCommit(w, f))

SomeIds(w) == CHOOSE f \in FreshIds(w) : TRUE

-----------------------------------------------------------------------------
(* Nothing is stored, and no call under way holds anything.                *)
Fresh ==
  /\ rows = EmptyTable /\ dedup = {} /\ archiveVersion = 0
  /\ published = {} /\ stored = {}
  /\ redisUp \in BOOLEAN
  /\ todo = [w \in Workers |-> <<>>]
  /\ unique = [w \in Workers |-> <<>>]
  /\ pend = [w \in Workers |-> {}]
  /\ confirm = [w \in Workers |-> {}]
  /\ prio = [w \in Workers |-> Unset]
  /\ session = [w \in Workers |-> NoSession]
  /\ faults = MaxFaults

Init == Fresh /\ pc = [w \in Workers |-> "idle"]

(* classify_and_store_batch is called, in the session the worker has.      *)
StartBatch(w, b) ==
  /\ pc[w] = "idle"
  /\ pc' = [pc EXCEPT ![w] = "redisCheck"]
  /\ todo' = [todo EXCEPT ![w] = b]
  /\ UNCHANGED <<store, unique, pend, confirm, prio, session, redisUp, faults>>

(* A scrape job calls save_article, which skips is_duplicate.              *)
SaveArticle(w, a) ==
  /\ pc[w] = "idle"
  /\ pc' = [pc EXCEPT ![w] = "route"]
  /\ todo' = [todo EXCEPT ![w] = <<a>>]
  /\ UNCHANGED <<store, unique, pend, confirm, prio, session, redisUp, faults>>

(* Mutant of CheckRedisKey: the key is set while checking (SET NX).        *)
CheckRedisKeyOptimistic(w) ==
  /\ pc[w] = "redisCheck" /\ todo[w] # <<>>
  /\ IF redisUp /\ Candidate(w).url \in dedup
     THEN todo' = [todo EXCEPT ![w] = Tail(@)] /\ UNCHANGED <<pc, dedup>>
     ELSE /\ pc' = [pc EXCEPT ![w] = "dbCheck"]
          /\ dedup' = IF redisUp THEN dedup \cup {Candidate(w).url} ELSE dedup
          /\ UNCHANGED todo
  /\ UNCHANGED <<rows, archiveVersion, published, stored, unique, pend,
                 confirm, prio, session, redisUp, faults>>

(* is_duplicate, first layer: the Redis key.                               *)
CheckRedisKey(w) ==
  /\ pc[w] = "redisCheck" /\ todo[w] # <<>>
  /\ IF redisUp /\ Candidate(w).url \in dedup
     THEN todo' = [todo EXCEPT ![w] = Tail(@)] /\ UNCHANGED pc
     ELSE pc' = [pc EXCEPT ![w] = "dbCheck"] /\ UNCHANGED todo
  /\ UNCHANGED <<store, unique, pend, confirm, prio, session, redisUp, faults>>

KnownToDatabase(a) ==
  \E i \in DOMAIN rows : \/ rows[i].url = a.url
                         \/ rows[i].recent /\ rows[i].title = a.title

(* is_duplicate, second and third layers: URL and recent titles in the     *)
(* database; a failing query counts as "not a duplicate".                  *)
CheckDatabase(w) ==
  /\ pc[w] = "dbCheck"
  /\ pc' = [pc EXCEPT ![w] = "redisCheck"]
  /\ todo' = [todo EXCEPT ![w] = Tail(@)]
  /\ \/ KnownToDatabase(Candidate(w)) /\ UNCHANGED <<unique, faults>>
     \/ /\ ~KnownToDatabase(Candidate(w))
        /\ unique' = [unique EXCEPT ![w] = Append(@, Candidate(w))]
        /\ UNCHANGED faults
     \/ /\ faults > 0 /\ faults' = faults - 1
        /\ unique' = [unique EXCEPT ![w] = Append(@, Candidate(w))]
  /\ UNCHANGED <<store, pend, confirm, prio, session, redisUp>>

(* All articles checked: the unique ones are scraped and handed on.        *)
BeginPersist(w) ==
  /\ pc[w] = "redisCheck" /\ todo[w] = <<>>
  /\ pc' = [pc EXCEPT ![w] = "route"]
  /\ todo' = [todo EXCEPT ![w] = unique[w]]
  /\ unique' = [unique EXCEPT ![w] = <<>>]
  /\ UNCHANGED <<store, pend, confirm, prio, session, redisUp, faults>>

(* Mutant of PublishAndCollect: collected without an announcement.         *)
CollectSilently(w) ==
  /\ pend' = [pend EXCEPT ![w] = @ \cup {Candidate(w)}]
  /\ UNCHANGED published

(* The candidate survives the screening: it is announced, then collected.  *)
PublishAndCollect(w) ==
  /\ published' = published \cup {Candidate(w).url}
  /\ pend' = [pend EXCEPT ![w] = @ \cup {Candidate(w)}]

ScreenCandidate(w) ==
  /\ pc[w] = "route" /\ todo[w] # <<>>
  /\ todo' = [todo EXCEPT ![w] = Tail(@)]
  /\ UNCHANGED <<rows, dedup, archiveVersion, stored, pc, unique, confirm,
                 redisUp, faults>>

(* No usable row of the candidate's country: nothing to compare with.      *)
NoNeighbour(w) ==
  /\ ScreenCandidate(w)
  /\ Comparable(w) = {}
  /\ PublishAndCollect(w)
  /\ session' = [session EXCEPT ![w] =
                   IF Candidate(w).vec = NoVec THEN @
                   ELSE Loaded(@, Candidate(w).cc)]
  /\ UNCHANGED prio

(* The first usable row is similar: an election, and the candidate drops.  *)
NearDuplicate(w) ==
  /\ ScreenCandidate(w)
  /\ \E i \in Comparable(w) :
       LET s == Loaded(session[w], Candidate(w).cc)
           p == [cand |-> Candidate(w).rep, ex |-> s[i].row.rep]
       IN  /\ s[i].row.vec = Candidate(w).vec
           /\ prio' = [prio EXCEPT ![w] = p]
           /\ session' = [session EXCEPT ![w] =
                            [s EXCEPT ![i] = Elect(@, Candidate(w), p)]]
  /\ UNCHANGED <<published, pend>>

(* The first usable row is not similar.  The election runs all the same:   *)
(* on priorities left by an earlier article of this call, or it raises and *)
(* is logged.  Either way the candidate is announced and collected.        *)
UnrelatedNeighbour(w) ==
  /\ ScreenCandidate(w)
  /\ \E i \in Comparable(w) :
       LET s == Loaded(session[w], Candidate(w).cc)
       IN  /\ s[i].row.vec # Candidate(w).vec
           /\ session' = [session EXCEPT ![w] =
                IF prio[w] = Unset THEN s
                ELSE [s EXCEPT ![i] = Elect(@, Candidate(w), prio[w])]]
  /\ PublishAndCollect(w)
  /\ UNCHANGED prio

(* What the next call finds in this worker: its locals are gone, and the   *)
(* session keeps only the objects with pending changes.                    *)
ReturnFromCall(w) ==
  /\ pc' = [pc EXCEPT ![w] = "idle"]
  /\ pend' = [pend EXCEPT ![w] = {}]
  /\ prio' = [prio EXCEPT ![w] = Unset]

(* Rows whose URL is already stored are removed before the insert; with    *)
(* nothing left the call returns without a commit.                         *)
FilterExisting(w) ==
  /\ pc[w] = "route" /\ todo[w] = <<>>
  /\ \/ pend' = [pend EXCEPT ![w] = {a \in @ : a.url \notin UrlsOf(rows)}]
        /\ UNCHANGED faults
     \/ /\ pend[w] # {} /\ UNCHANGED pend
        /\ faults > 0 /\ faults' = faults - 1
  /\ IF pend'[w] = {}
     THEN /\ pc' = [pc EXCEPT ![w] = "idle"]
          /\ prio' = [prio EXCEPT ![w] = Unset]
          /\ session' = [session EXCEPT ![w] = OnlyDirty(@)]
     ELSE /\ pc' = [pc EXCEPT ![w] = "insert"]
          /\ UNCHANGED <<prio, session>>
  /\ UNCHANGED <<store, todo, unique, confirm, redisUp>>

(* INSERT, flush and COMMIT succeed.                                       *)
InsertBatch(w) ==
  /\ pc[w] = "insert" /\ FreshIds(w) # {}
  /\ Accepted(w, SomeIds(w))
  /\ rows' = AfterCommit(w, SomeIds(w))
  /\ stored' = stored \cup UrlsIn(pend[w])
  /\ confirm' = [confirm EXCEPT ![w] = UrlsIn(pend[w])]
  /\ pc' = [pc EXCEPT ![w] = "bump"]
  /\ session' = [session EXCEPT ![w] = NoSession]
  /\ UNCHANGED <<dedup, archiveVersion, published, todo, unique, pend, prio,
                 redisUp, faults>>

(* The transaction fails: everything it held is rolled back.               *)
RollBack(w) ==
  /\ pc[w] = "insert"
  /\ \/ FreshIds(w) # {} /\ ~Accepted(w, SomeIds(w)) /\ UNCHANGED faults
     \/ faults > 0 /\ faults' = faults - 1
  /\ ReturnFromCall(w)
  /\ session' = [session EXCEPT ![w] = NoSession]
  /\ UNCHANGED <<store, todo, unique, confirm, redisUp>>

(* _bump_archive_version: readers' cached archives go stale.               *)
BumpArchiveVersion(w) ==
  /\ pc[w] = "bump"
  /\ archiveVersion' = IF redisUp THEN archiveVersion + 1 ELSE archiveVersion
  /\ pc' = [pc EXCEPT ![w] = "confirm"]
  /\ UNCHANGED <<rows, dedup, published, stored, todo, unique, pend, confirm,
                 prio, session, redisUp, faults>>

(* confirm_persisted for one inserted URL; without Redis it is skipped.    *)
ConfirmPersisted(w, u) ==
  /\ pc[w] = "confirm" /\ u \in confirm[w]
  /\ dedup' = IF redisUp THEN dedup \cup {u} ELSE dedup
  /\ confirm' = [confirm EXCEPT ![w] = @ \ {u}]
  /\ UNCHANGED <<rows, archiveVersion, published, stored, pc, todo, unique,
                 pend, prio, session, redisUp, faults>>

FinishBatch(w) ==
  /\ pc[w] = "confirm" /\ confirm[w] = {}
  /\ ReturnFromCall(w)
  /\ UNCHANGED <<store, todo, unique, confirm, session, redisUp, faults>>

(* The caller leaves its session: uncommitted changes are discarded.       *)
CloseSession(w) ==
  /\ pc[w] = "idle" /\ session[w] # NoSession
  /\ session' = [session EXCEPT ![w] = NoSession]
  /\ UNCHANGED <<store, pc, todo, unique, pend, confirm, prio, redisUp, faults>>

(* The Redis pool fails or comes back (its cooldown counts as down).       *)
ToggleRedis ==
  /\ redisUp' = ~redisUp
  /\ UNCHANGED <<store, local, faults>>

(* A dedup key reaches its seven days, or Redis loses it.                  *)
ExpireKey(u) ==
  /\ u \in dedup
  /\ dedup' = dedup \ {u}
  /\ UNCHANGED <<rows, archiveVersion, published, stored, local, redisUp, faults>>

(* The backend process dies: memory is lost, the database and Redis stay.  *)
LoseMemory ==
  /\ faults > 0 /\ faults' = faults - 1
  /\ todo' = [w \in Workers |-> <<>>]
  /\ unique' = [w \in Workers |-> <<>>]
  /\ pend' = [w \in Workers |-> {}]
  /\ confirm' = [w \in Workers |-> {}]
  /\ prio' = [w \in Workers |-> Unset]
  /\ session' = [w \in Workers |-> NoSession]
  /\ UNCHANGED <<store, redisUp>>

Crash == LoseMemory /\ pc' = [w \in Workers |-> "idle"]

(* One step of a call already under way.                                   *)
Proceed(w) ==
  \/ CheckRedisKey(w) \/ CheckDatabase(w) \/ BeginPersist(w)
  \/ NoNeighbour(w) \/ NearDuplicate(w) \/ UnrelatedNeighbour(w)
  \/ FilterExisting(w) \/ InsertBatch(w) \/ RollBack(w)
  \/ BumpArchiveVersion(w)
  \/ \E u \in Urls : ConfirmPersisted(w, u)
  \/ FinishBatch(w)

Ingestion ==
  \/ \E w \in Workers :
       \/ \E b \in Batches : StartBatch(w, b)
       \/ \E a \in Scraped : SaveArticle(w, a)
       \/ Proceed(w)
       \/ CloseSession(w)
  \/ ToggleRedis
  \/ \E u \in Urls : ExpireKey(u)

Next == Ingestion \/ Crash

Spec == Init /\ [][Next]_vars

(* asyncio runs every coroutine that can go on; nothing makes a new batch  *)
(* arrive.                                                                 *)
FairSpec == Spec /\ \A w \in Workers : WF_vars(Proceed(w))

-----------------------------------------------------------------------------
(* Every variable keeps its shape (classifier.py and the tables it writes). *)
Session(s) == /\ DOMAIN s \subseteq RowIds
              /\ \A i \in DOMAIN s : /\ s[i].row \in Row
                                     /\ s[i].cols \subseteq {"lead", "also"}

TypeOK ==
  /\ DOMAIN rows \subseteq RowIds
  /\ \A i \in DOMAIN rows : rows[i] \in Row
  /\ dedup \subseteq Urls /\ published \subseteq Urls /\ stored \subseteq Urls
  /\ redisUp \in BOOLEAN /\ archiveVersion \in Nat /\ faults \in Nat
  /\ pc \in [Workers -> {"idle", "redisCheck", "dbCheck", "route", "insert",
                         "bump", "confirm"}]
  /\ todo \in [Workers -> Seq(Articles)]
  /\ unique \in [Workers -> Seq(Articles)]
  /\ pend \in [Workers -> SUBSET Articles]
  /\ confirm \in [Workers -> SUBSET Urls]
  /\ prio \in [Workers -> [cand : Reputations, ex : Reputations] \cup {Unset}]
  /\ DOMAIN session = Workers
  /\ \A w \in Workers : Session(session[w])

(* A dedup key never exists for a URL that was not committed to the        *)
(* database: confirm_persisted is the cure for the optimistic-dedup bug.   *)
DedupKeyOnlyAfterPersist == dedup \subseteq stored

(* The store-level promise, over all workers, crashes and outages.         *)
Store == INSTANCE ArticleStore WITH announced <- published, seen <- dedup
ImplementsStore == Store!Spec

LeadUrls == UrlsOf(rows)
AlsoUrls == UNION {rows[i].also : i \in DOMAIN rows}

(* An article that was stored once stays traceable: it leads a row or is   *)
(* named in some also_reported_by list.  An election moves the old URL     *)
(* into the list, so it must not vanish there.                             *)
StoredStaysTraceable == stored \subseteq LeadUrls \cup AlsoUrls

(* Every title the database should recognise keeps new articles out.       *)
Handled(a) == a.url \in stored \cup AlsoUrls \/ KnownToDatabase(a)

(* A batch holds a URL once, and no other URL reports an event of it.      *)
DistinctBatch(b) ==
  /\ \A k, l \in DOMAIN b : b[k].url = b[l].url => k = l
  /\ \A k \in DOMAIN b, a \in Articles :
       a.vec = b[k].vec /\ a.vec # NoVec => a.url = b[k].url

(* A batch that is offered again and again is handled in the end, whatever *)
(* the outages, the (finitely many) faults and the other batches: no       *)
(* article is skipped for good without having reached the database.  Two   *)
(* kinds of batches are not meant: with one URL for two countries it is    *)
(* refused on every offer until another one has brought that URL, and      *)
(* after an election that changes a lead it may carry one URL twice.       *)
OfferedIsHandled ==
  \A w \in Workers : \A b \in {c \in Batches : DistinctBatch(c)} :
    []<><<StartBatch(w, b)>>_vars => <>(\A k \in DOMAIN b : Handled(b[k]))
================================================================================
