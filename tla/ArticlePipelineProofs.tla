------------------------- MODULE ArticlePipelineProofs -------------------------
(***************************************************************************)
(* Proofs about ArticlePipeline for every set of workers, articles and     *)
(* batches.  The safety of the dedup keys needs only the queues of a call  *)
(* (QueueOK) and two facts about what a call carries between its awaits    *)
(* (Carried): what it will insert was announced, what it will confirm was  *)
(* committed.  That elections lose no URL of a row holds for one worker    *)
(* only, and needs what its session holds to be up to date (SessionsOK).   *)
(* Beside the demo seeding it holds until the table is emptied; that this  *)
(* takes demo articles only needs the number of rows against the threshold *)
(* (SeedInv, whose TableSize is what short excuses).                       *)
(***************************************************************************)
EXTENDS DemoSeeding, FiniteSetTheorems, TLAPS

(* The conjuncts of TypeOK that do not mention rows and sessions.          *)
QueueOK ==
  /\ dedup \subseteq Urls /\ published \subseteq Urls /\ stored \subseteq Urls
  /\ pc \in [Workers -> {"idle", "redisCheck", "dbCheck", "route", "insert",
                         "bump", "confirm"}]
  /\ todo \in [Workers -> Seq(Articles)]
  /\ unique \in [Workers -> Seq(Articles)]
  /\ pend \in [Workers -> SUBSET Articles]
  /\ confirm \in [Workers -> SUBSET Urls]

Carried ==
  /\ dedup \subseteq stored
  /\ \A w \in Workers : /\ UrlsIn(pend[w]) \subseteq published
                        /\ confirm[w] \subseteq stored

(* The URL of an article is a URL.                                         *)
LEMMA ArticleFields ==
  ASSUME NEW a \in Articles
  PROVE  /\ a.url \in Urls /\ a.title \in Titles /\ a.cc \in Countries
         /\ a.rep \in Reputations /\ a.vec \in Vectors \cup {NoVec}
         /\ a.recent \in BOOLEAN
BY ArticlesAssumption DEF Article

(* Taking the head of a non-empty sequence of articles.                    *)
LEMMA HeadOfQueue ==
  ASSUME NEW q \in Seq(Articles), q # <<>>
  PROVE  Head(q) \in Articles /\ Tail(q) \in Seq(Articles)
OBVIOUS

(* A "dbCheck" call has an article in hand.                                *)
InHand == \A w \in Workers : pc[w] = "dbCheck" => todo[w] # <<>>

LEMMA InitQueue == Init => QueueOK /\ InHand /\ Carried
BY DEF Init, Fresh, QueueOK, InHand, Carried, UrlsIn

(* The queues keep their types (classifier.py's local lists).              *)
LEMMA NextQueue ==
  ASSUME QueueOK, InHand, [Next]_vars
  PROVE  QueueOK' /\ InHand'
<1> USE DEF QueueOK, InHand, store, local
<1>1. ASSUME NEW w \in Workers, NEW b \in Batches, StartBatch(w, b)
      PROVE  QueueOK' /\ InHand'
  BY <1>1, BatchesAssumption DEF StartBatch
<1>2. ASSUME NEW w \in Workers, NEW a \in Scraped, SaveArticle(w, a)
      PROVE  QueueOK' /\ InHand'
  <2>1. <<a>> \in Seq(Articles)
    BY ScrapedAssumption
  <2> QED  BY <1>2, <2>1 DEF SaveArticle
<1>3. ASSUME NEW w \in Workers, CheckRedisKey(w) PROVE QueueOK' /\ InHand'
  <2>1. Tail(todo[w]) \in Seq(Articles)
    BY <1>3, HeadOfQueue DEF CheckRedisKey
  <2> QED  BY <1>3, <2>1 DEF CheckRedisKey
<1>4. ASSUME NEW w \in Workers, CheckDatabase(w) PROVE QueueOK' /\ InHand'
  <2>1. Candidate(w) \in Articles /\ Tail(todo[w]) \in Seq(Articles)
    BY <1>4, HeadOfQueue DEF CheckDatabase, Candidate
  <2>2. Append(unique[w], Candidate(w)) \in Seq(Articles)
    BY <2>1
  <2> QED  BY <1>4, <2>1, <2>2 DEF CheckDatabase
<1>5. ASSUME NEW w \in Workers, BeginPersist(w) PROVE QueueOK' /\ InHand'
  BY <1>5 DEF BeginPersist
<1>6. ASSUME NEW w \in Workers, ScreenCandidate(w),
             PublishAndCollect(w) \/ UNCHANGED <<published, pend>>
      PROVE  QueueOK' /\ InHand'
  <2>1. Candidate(w) \in Articles /\ Tail(todo[w]) \in Seq(Articles)
    BY <1>6, HeadOfQueue DEF ScreenCandidate, Candidate
  <2>2. Candidate(w).url \in Urls
    BY <2>1, ArticleFields
  <2>3. /\ todo' = [todo EXCEPT ![w] = Tail(todo[w])]
        /\ pc[w] = "route" /\ UNCHANGED <<dedup, stored, pc, unique, confirm>>
    BY <1>6 DEF ScreenCandidate
  <2>4. /\ published' \subseteq Urls
        /\ pend' \in [Workers -> SUBSET Articles]
    BY <1>6, <2>1, <2>2 DEF PublishAndCollect
  <2>5. /\ todo' \in [Workers -> Seq(Articles)]
        /\ \A v \in Workers : pc[v] = "dbCheck" => todo'[v] = todo[v]
    BY <2>1, <2>3
  <2> QED  BY <2>3, <2>4, <2>5
<1>7. ASSUME NEW w \in Workers, FilterExisting(w) PROVE QueueOK' /\ InHand'
  BY <1>7 DEF FilterExisting
<1>8. ASSUME NEW w \in Workers, InsertBatch(w) PROVE QueueOK' /\ InHand'
  <2>1. UrlsIn(pend[w]) \subseteq Urls
    BY ArticleFields DEF UrlsIn
  <2> QED  BY <1>8, <2>1 DEF InsertBatch
<1>9. ASSUME NEW w \in Workers, RollBack(w) PROVE QueueOK' /\ InHand'
  BY <1>9 DEF RollBack, ReturnFromCall
<1>10. ASSUME NEW w \in Workers, BumpArchiveVersion(w) PROVE QueueOK' /\ InHand'
  BY <1>10 DEF BumpArchiveVersion
<1>11. ASSUME NEW w \in Workers, NEW u \in Urls, ConfirmPersisted(w, u)
       PROVE  QueueOK' /\ InHand'
  BY <1>11 DEF ConfirmPersisted
<1>12. ASSUME NEW w \in Workers, FinishBatch(w) PROVE QueueOK' /\ InHand'
  BY <1>12 DEF FinishBatch, ReturnFromCall
<1>13. ASSUME NEW w \in Workers, CloseSession(w) PROVE QueueOK' /\ InHand'
  BY <1>13 DEF CloseSession
<1>14. ASSUME NEW u \in Urls, ExpireKey(u) PROVE QueueOK' /\ InHand'
  BY <1>14 DEF ExpireKey
<1>15. CASE ToggleRedis
  BY <1>15 DEF ToggleRedis
<1>16. CASE Crash
  BY <1>16 DEF Crash, LoseMemory
<1>17. CASE UNCHANGED vars
  BY <1>17 DEF vars
<1> QED
  BY <1>1, <1>2, <1>3, <1>4, <1>5, <1>6, <1>7, <1>8, <1>9, <1>10, <1>11,
     <1>12, <1>13, <1>14, <1>15, <1>16, <1>17
  DEF Next, Ingestion, Proceed, NoNeighbour, NearDuplicate, UnrelatedNeighbour

-----------------------------------------------------------------------------
(* What a call carries stays announced or committed.                       *)
LEMMA NextCarried ==
  ASSUME QueueOK, InHand, Carried, [Next]_vars
  PROVE  Carried'
<1> USE DEF Carried, UrlsIn, store, local
<1> USE DEF QueueOK
<1>1. ASSUME NEW w \in Workers, NEW b \in Batches, StartBatch(w, b)
      PROVE  Carried'
  BY <1>1 DEF StartBatch
<1>2. ASSUME NEW w \in Workers, NEW a \in Scraped, SaveArticle(w, a)
      PROVE  Carried'
  BY <1>2 DEF SaveArticle
<1>3. ASSUME NEW w \in Workers, CheckRedisKey(w) PROVE Carried'
  BY <1>3 DEF CheckRedisKey
<1>4. ASSUME NEW w \in Workers, CheckDatabase(w) PROVE Carried'
  BY <1>4 DEF CheckDatabase
<1>5. ASSUME NEW w \in Workers, BeginPersist(w) PROVE Carried'
  BY <1>5 DEF BeginPersist
<1>6. ASSUME NEW w \in Workers, ScreenCandidate(w),
             PublishAndCollect(w) \/ UNCHANGED <<published, pend>>
      PROVE  Carried'
  <2>1. UNCHANGED <<dedup, stored, confirm>>
    BY <1>6 DEF ScreenCandidate
  <2>2. CASE PublishAndCollect(w)
    <3>1. /\ published' = published \cup {Candidate(w).url}
          /\ \A v \in Workers :
               pend'[v] = IF v = w THEN pend[v] \cup {Candidate(w)} ELSE pend[v]
      BY <2>2 DEF PublishAndCollect
    <3>2. \A v \in Workers : UrlsIn(pend'[v]) \subseteq published'
      BY <3>1
    <3> QED  BY <2>1, <3>2
  <2>3. CASE UNCHANGED <<published, pend>>
    BY <2>1, <2>3
  <2> QED  BY <1>6, <2>2, <2>3
<1>7. ASSUME NEW w \in Workers, FilterExisting(w) PROVE Carried'
  <2>1. UNCHANGED <<dedup, stored, published, confirm>>
    BY <1>7 DEF FilterExisting
  <2>2. \/ pend' = [pend EXCEPT ![w] = {a \in @ : a.url \notin UrlsOf(rows)}]
        \/ UNCHANGED pend
    BY <1>7 DEF FilterExisting
  <2>3. \A v \in Workers : pend'[v] \subseteq pend[v]
    BY <2>2
  <2>4. \A v \in Workers : UrlsIn(pend'[v]) \subseteq published
    BY <2>3
  <2> QED  BY <2>1, <2>4
<1>8. ASSUME NEW w \in Workers, InsertBatch(w) PROVE Carried'
  BY <1>8 DEF InsertBatch
<1>9. ASSUME NEW w \in Workers, RollBack(w) PROVE Carried'
  BY <1>9 DEF RollBack, ReturnFromCall
<1>10. ASSUME NEW w \in Workers, BumpArchiveVersion(w) PROVE Carried'
  BY <1>10 DEF BumpArchiveVersion
<1>11. ASSUME NEW w \in Workers, NEW u \in Urls, ConfirmPersisted(w, u)
       PROVE  Carried'
  BY <1>11 DEF ConfirmPersisted
<1>12. ASSUME NEW w \in Workers, FinishBatch(w) PROVE Carried'
  BY <1>12 DEF FinishBatch, ReturnFromCall
<1>13. ASSUME NEW w \in Workers, CloseSession(w) PROVE Carried'
  BY <1>13 DEF CloseSession
<1>14. ASSUME NEW u \in Urls, ExpireKey(u) PROVE Carried'
  BY <1>14 DEF ExpireKey
<1>15. CASE ToggleRedis
  BY <1>15 DEF ToggleRedis
<1>16. CASE Crash
  BY <1>16 DEF Crash, LoseMemory
<1>17. CASE UNCHANGED vars
  BY <1>17 DEF vars
<1> QED
  BY <1>1, <1>2, <1>3, <1>4, <1>5, <1>6, <1>7, <1>8, <1>9, <1>10, <1>11,
     <1>12, <1>13, <1>14, <1>15, <1>16, <1>17
  DEF Next, Ingestion, Proceed, NoNeighbour, NearDuplicate, UnrelatedNeighbour

(* The inductive invariant of the pipeline's safety.                       *)
THEOREM PipelineInvariant == Spec => [](QueueOK /\ InHand /\ Carried)
<1>1. Init => QueueOK /\ InHand /\ Carried
  BY InitQueue
<1>2. QueueOK /\ InHand /\ Carried /\ [Next]_vars
      => (QueueOK /\ InHand /\ Carried)'
  BY NextQueue, NextCarried
<1> QED  BY <1>1, <1>2, PTL DEF Spec

(* A Redis dedup key is only ever set for a committed URL, whatever the    *)
(* workers, batches, faults, outages and crashes: confirm_persisted closes *)
(* the optimistic-dedup gap.                                               *)
THEOREM DedupKeySafety == Spec => []DedupKeyOnlyAfterPersist
<1>1. Carried => DedupKeyOnlyAfterPersist
  BY DEF Carried, DedupKeyOnlyAfterPersist
<1> QED  BY <1>1, PipelineInvariant, PTL

-----------------------------------------------------------------------------
(* Every step of the pipeline is a step of the store, or changes nothing   *)
(* the store shows.                                                        *)
LEMMA StepRefines ==
  ASSUME QueueOK, InHand, Carried, [Next]_vars
  PROVE  [Store!Next]_(Store!storeVars)
<1> USE DEF Store!storeVars, store, local
<1> DEFINE Quiet == UNCHANGED <<published, stored, dedup>>
<1>1. ASSUME NEW w \in Workers, ScreenCandidate(w), PublishAndCollect(w)
      PROVE  Store!Next
  <2>1. Candidate(w) \in Articles
    BY <1>1, HeadOfQueue DEF ScreenCandidate, Candidate, QueueOK
  <2>2. Candidate(w).url \in Urls
    BY <2>1, ArticleFields
  <2>3. Store!Announce(Candidate(w).url)
    BY <1>1 DEF ScreenCandidate, PublishAndCollect, Store!Announce
  <2> QED  BY <2>2, <2>3 DEF Store!Next
<1>2. ASSUME NEW w \in Workers, InsertBatch(w) PROVE Store!Next
  <2>1. UrlsIn(pend[w]) \subseteq Urls
    BY ArticleFields DEF UrlsIn, QueueOK
  <2>2. Store!Persist(UrlsIn(pend[w]))
    BY <1>2 DEF InsertBatch, Store!Persist, Carried
  <2> QED  BY <2>1, <2>2 DEF Store!Next
<1>3. ASSUME NEW w \in Workers, NEW u \in Urls, ConfirmPersisted(w, u)
      PROVE  Store!Next \/ Quiet
  <2>1. u \in stored
    BY <1>3 DEF ConfirmPersisted, Carried
  <2>2. Store!MarkSeen(u) \/ Quiet
    BY <1>3, <2>1 DEF ConfirmPersisted, Store!MarkSeen
  <2> QED  BY <2>2 DEF Store!Next
<1>4. ASSUME NEW u \in Urls, ExpireKey(u) PROVE Store!Next
  <2>1. Store!Forget(u)
    BY <1>4 DEF ExpireKey, Store!Forget
  <2> QED  BY <2>1 DEF Store!Next
<1>5. ASSUME NEW w \in Workers, NearDuplicate(w) PROVE Quiet
  BY <1>5 DEF NearDuplicate, ScreenCandidate
<1>6. ASSUME NEW w \in Workers,
             \/ \E b \in Batches : StartBatch(w, b)
             \/ \E a \in Scraped : SaveArticle(w, a)
             \/ CheckRedisKey(w) \/ CheckDatabase(w) \/ BeginPersist(w)
             \/ FilterExisting(w) \/ RollBack(w) \/ BumpArchiveVersion(w)
             \/ FinishBatch(w) \/ CloseSession(w)
      PROVE  Quiet
  BY <1>6 DEF StartBatch, SaveArticle, CheckRedisKey, CheckDatabase,
     BeginPersist, FilterExisting, RollBack, BumpArchiveVersion, FinishBatch,
     CloseSession
<1>7. CASE ToggleRedis \/ Crash \/ UNCHANGED vars
  BY <1>7 DEF ToggleRedis, Crash, LoseMemory, vars
<1> QED
  BY <1>1, <1>2, <1>3, <1>4, <1>5, <1>6, <1>7
  DEF Next, Ingestion, Proceed, NoNeighbour, UnrelatedNeighbour

(* The pipeline implements ArticleStore.                                   *)
THEOREM PipelineImplementsStore == Spec => ImplementsStore
<1>1. Init => Store!Init
  BY DEF Init, Fresh, Store!Init
<1>2. QueueOK /\ InHand /\ Carried /\ [Next]_vars
      => [Store!Next]_(Store!storeVars)
  BY StepRefines
<1> QED
  BY <1>1, <1>2, PipelineInvariant, PTL DEF Spec, ImplementsStore, Store!Spec

-----------------------------------------------------------------------------
(* The rest of TypeOK: the table, the sessions and the counters.           *)
TableOK ==
  /\ DOMAIN rows \subseteq RowIds
  /\ \A i \in DOMAIN rows : rows[i] \in Row
  /\ redisUp \in BOOLEAN /\ archiveVersion \in Nat /\ faults \in Nat
  /\ prio \in [Workers -> [cand : Reputations, ex : Reputations] \cup {Unset}]
  /\ DOMAIN session = Workers
  /\ \A w \in Workers : Session(session[w])

LEMMA NewRowTyped ==
  ASSUME NEW a \in Articles
  PROVE  AsRow(a) \in Row
BY ArticleFields DEF AsRow, Row

LEMMA EmptySession == Session(NoSession)
BY DEF Session, NoSession

(* An election leaves a well-formed object.                                *)
LEMMA ElectTyped ==
  ASSUME NEW o, NEW a \in Articles, NEW p,
         o.row \in Row, o.cols \subseteq {"lead", "also"}
  PROVE  /\ Elect(o, a, p).row \in Row
         /\ Elect(o, a, p).cols \subseteq {"lead", "also"}
BY ArticleFields DEF Elect, Row

(* So does a query.                                                        *)
LEMMA LoadedTyped ==
  ASSUME TableOK, NEW s, Session(s), NEW cc
  PROVE  Session(Loaded(s, cc))
BY DEF TableOK, Session, Loaded, Dirty

LEMMA OnlyDirtyTyped ==
  ASSUME NEW s, Session(s)
  PROVE  Session(OnlyDirty(s))
BY DEF Session, OnlyDirty, Dirty

(* A flush assigns well-formed columns only.                               *)
LEMMA FlushedTyped ==
  ASSUME TableOK, NEW s, Session(s), NEW i \in DOMAIN rows
  PROVE  Flushed(s)[i] \in Row
<1>1. rows[i] \in Row
  BY DEF TableOK
<1>2. CASE i \notin Dirty(s)
  BY <1>1, <1>2 DEF Flushed
<1>3. CASE i \in Dirty(s)
  <2>1. s[i].row \in Row
    BY <1>3 DEF Session, Dirty
  <2> QED  BY <1>1, <1>3, <2>1 DEF Flushed, Row
<1> QED  BY <1>2, <1>3

LEMMA InitTable == Init => TableOK
BY FaultsAssumption, EmptySession DEF Init, Fresh, TableOK, EmptyTable

LEMMA NextTable ==
  ASSUME QueueOK, InHand, TableOK, [Next]_vars
  PROVE  TableOK'
<1> DEFINE SameTable == UNCHANGED <<rows, archiveVersion>>
<1> USE DEF TableOK, store, local
<1>1. ASSUME NEW w \in Workers,
             \/ \E b \in Batches : StartBatch(w, b)
             \/ \E a \in Scraped : SaveArticle(w, a)
             \/ CheckRedisKey(w) \/ CheckDatabase(w) \/ BeginPersist(w)
             \/ \E u \in Urls : ConfirmPersisted(w, u)
             \/ FinishBatch(w)
      PROVE  TableOK'
  BY <1>1 DEF StartBatch, SaveArticle, CheckRedisKey, CheckDatabase,
     BeginPersist, ConfirmPersisted, FinishBatch, ReturnFromCall, Session
<1>2. ASSUME NEW w \in Workers, ScreenCandidate(w)
      PROVE  Candidate(w) \in Articles
  BY <1>2, HeadOfQueue DEF ScreenCandidate, Candidate, QueueOK
<1>3. ASSUME NEW w \in Workers, NoNeighbour(w) PROVE TableOK'
  <2>1. Session(Loaded(session[w], Candidate(w).cc))
    BY LoadedTyped
  <2>2. Session(session'[w])
    BY <1>3, <2>1 DEF NoNeighbour
  <2> QED  BY <1>3, <2>2 DEF NoNeighbour, ScreenCandidate, Session
<1>4. ASSUME NEW w \in Workers, NearDuplicate(w) PROVE TableOK'
  <2> DEFINE s == Loaded(session[w], Candidate(w).cc)
             p(i) == [cand |-> Candidate(w).rep, ex |-> s[i].row.rep]
  <2>1. PICK i \in Comparable(w) :
          /\ prio' = [prio EXCEPT ![w] = p(i)]
          /\ session' = [session EXCEPT ![w] =
                           [s EXCEPT ![i] = Elect(@, Candidate(w), p(i))]]
    BY <1>4 DEF NearDuplicate
  <2>2. Candidate(w) \in Articles
    BY <1>2, <1>4 DEF NearDuplicate
  <2>3. Session(s) /\ i \in DOMAIN s
    BY <2>1, LoadedTyped DEF Comparable
  <2>4. s[i].row \in Row /\ s[i].cols \subseteq {"lead", "also"}
    BY <2>3 DEF Session
  <2>5. p(i) \in [cand : Reputations, ex : Reputations]
    BY <2>2, <2>4, ArticleFields DEF Row
  <2>6. Session(session'[w])
    <3>1. session'[w] = [s EXCEPT ![i] = Elect(s[i], Candidate(w), p(i))]
      BY <2>1
    <3>2. /\ Elect(s[i], Candidate(w), p(i)).row \in Row
          /\ Elect(s[i], Candidate(w), p(i)).cols \subseteq {"lead", "also"}
      BY <2>2, <2>4, ElectTyped
    <3> HIDE DEF s, p
    <3> QED  BY <3>1, <3>2, <2>3 DEF Session
  <2> HIDE DEF s, p
  <2>7. UNCHANGED <<rows, archiveVersion, redisUp, faults>>
    BY <1>4 DEF NearDuplicate, ScreenCandidate
  <2>8. prio' \in [Workers -> [cand : Reputations, ex : Reputations] \cup {Unset}]
    BY <2>1, <2>5
  <2>9. /\ DOMAIN session' = Workers
        /\ \A v \in Workers : Session(session'[v])
    <3>1. \A v \in Workers \ {w} : session'[v] = session[v]
      BY <2>1
    <3> QED  BY <2>1, <2>6, <3>1
  <2> QED  BY <2>7, <2>8, <2>9
<1>5. ASSUME NEW w \in Workers, UnrelatedNeighbour(w) PROVE TableOK'
  <2> DEFINE s == Loaded(session[w], Candidate(w).cc)
  <2>1. PICK i \in Comparable(w) :
          session' = [session EXCEPT ![w] =
                        IF prio[w] = Unset THEN s
                        ELSE [s EXCEPT ![i] = Elect(@, Candidate(w), prio[w])]]
    BY <1>5 DEF UnrelatedNeighbour
  <2>2. Candidate(w) \in Articles
    BY <1>2, <1>5 DEF UnrelatedNeighbour
  <2>3. Session(s) /\ i \in DOMAIN s
    BY <2>1, LoadedTyped DEF Comparable
  <2>4. s[i].row \in Row /\ s[i].cols \subseteq {"lead", "also"}
    BY <2>3 DEF Session
  <2>5. Session(session'[w])
    <3>1. \/ session'[w] = s
          \/ session'[w] = [s EXCEPT ![i] = Elect(s[i], Candidate(w), prio[w])]
      BY <2>1
    <3>2. /\ Elect(s[i], Candidate(w), prio[w]).row \in Row
          /\ Elect(s[i], Candidate(w), prio[w]).cols \subseteq {"lead", "also"}
      BY <2>2, <2>4, ElectTyped
    <3> HIDE DEF s
    <3> QED  BY <3>1, <3>2, <2>3 DEF Session
  <2> HIDE DEF s
  <2>6. UNCHANGED <<rows, archiveVersion, redisUp, faults, prio>>
    BY <1>5 DEF UnrelatedNeighbour, ScreenCandidate
  <2>7. /\ DOMAIN session' = Workers
        /\ \A v \in Workers : Session(session'[v])
    <3>1. \A v \in Workers \ {w} : session'[v] = session[v]
      BY <2>1
    <3> QED  BY <2>1, <2>5, <3>1
  <2> QED  BY <2>6, <2>7
<1>6. ASSUME NEW w \in Workers, FilterExisting(w) PROVE TableOK'
  <2>1. Session(OnlyDirty(session[w]))
    BY OnlyDirtyTyped
  <2> QED  BY <1>6, <2>1 DEF FilterExisting, Session
<1>7. ASSUME NEW w \in Workers, InsertBatch(w) PROVE TableOK'
  <2> DEFINE f == SomeIds(w)
  <2>1. f \in [pend[w] -> RowIds \ (DOMAIN rows \cup DOMAIN session[w])]
    BY <1>7 DEF InsertBatch, SomeIds, FreshIds
  <2>2. DOMAIN rows' = DOMAIN rows \cup {f[a] : a \in pend[w]}
    BY <1>7 DEF InsertBatch, AfterCommit
  <2>3. ASSUME NEW i \in DOMAIN rows' PROVE rows'[i] \in Row
    <3>1. CASE i \in DOMAIN rows
      <4>1. rows'[i] = Flushed(session[w])[i]
        BY <1>7, <3>1 DEF InsertBatch, AfterCommit
      <4> QED  BY <3>1, <4>1, FlushedTyped
    <3>2. CASE i \notin DOMAIN rows
      <4> DEFINE a == CHOOSE a \in pend[w] : f[a] = i
      <4>1. a \in pend[w]
        BY <2>2, <2>3, <3>2
      <4>2. a \in Articles
        BY <4>1 DEF QueueOK
      <4>3. rows'[i] = AsRow(a)
        BY <1>7, <2>2, <2>3, <3>2 DEF InsertBatch, AfterCommit
      <4> HIDE DEF a
      <4> QED  BY <4>2, <4>3, NewRowTyped
    <3> QED  BY <3>1, <3>2
  <2>4. DOMAIN rows' \subseteq RowIds
    BY <2>1, <2>2
  <2> QED  BY <1>7, <2>3, <2>4, EmptySession DEF InsertBatch, Session
<1>8. ASSUME NEW w \in Workers, RollBack(w) PROVE TableOK'
  BY <1>8, EmptySession DEF RollBack, ReturnFromCall, Session
<1>9. ASSUME NEW w \in Workers, BumpArchiveVersion(w) PROVE TableOK'
  BY <1>9 DEF BumpArchiveVersion, Session
<1>10. ASSUME NEW w \in Workers, CloseSession(w) PROVE TableOK'
  BY <1>10, EmptySession DEF CloseSession, Session
<1>11. CASE ToggleRedis \/ (\E u \in Urls : ExpireKey(u)) \/ UNCHANGED vars
  BY <1>11 DEF ToggleRedis, ExpireKey, vars, Session
<1>12. CASE Crash
  BY <1>12, EmptySession DEF Crash, LoseMemory, Session
<1> QED
  BY <1>1, <1>3, <1>4, <1>5, <1>6, <1>7, <1>8, <1>9, <1>10, <1>11, <1>12
  DEF Next, Ingestion, Proceed

(* TypeOK holds of every instance of the pipeline.                         *)
THEOREM PipelineTypeOK == Spec => []TypeOK
<1>1. Init => QueueOK /\ InHand /\ TableOK
  BY InitQueue, InitTable
<1>2. QueueOK /\ InHand /\ TableOK /\ [Next]_vars
      => (QueueOK /\ InHand /\ TableOK)'
  BY NextQueue, NextTable
<1>3. QueueOK /\ TableOK => TypeOK
  BY DEF QueueOK, TableOK, TypeOK
<1> QED  BY <1>1, <1>2, <1>3, PTL DEF Spec

--------------------------------------------------------------------------------
(* What a session holds of a row: nothing that led it or is in its list is *)
(* forgotten, and what is not written back is what the table holds.        *)
Names(row) == {row.url} \cup row.also
HeldOK(o, row) ==
  /\ Names(row) \subseteq Names(o.row)
  /\ "lead" \notin o.cols => o.row.url = row.url
  /\ "also" \notin o.cols => o.row.also = row.also

SessionsOK ==
  \A w \in Workers : \A i \in DOMAIN session[w] :
    i \in DOMAIN rows /\ HeldOK(session[w][i], rows[i])

TraceInv == QueueOK /\ InHand /\ TableOK /\ SessionsOK

(* A step forgets no URL, and what it stores can be found.                 *)
TraceGrows == stored' \ stored \subseteq Traceable' /\ Traceable \subseteq Traceable'

(* An election forgets no URL of the object it changes.                    *)
LEMMA ElectKeepsNames ==
  ASSUME NEW o, NEW a \in Articles, NEW p, NEW row \in Row, o.row \in Row,
         o.cols \subseteq {"lead", "also"}, HeldOK(o, row)
  PROVE  HeldOK(Elect(o, a, p), row)
<1> DEFINE e == Elect(o, a, p)
<1>1. CASE p.cand > p.ex
  <2>1. /\ e.row.url = a.url /\ e.row.also = o.row.also \cup {o.row.url}
        /\ e.cols = o.cols \cup {"lead"} \cup (IF o.row.url \in o.row.also THEN {} ELSE {"also"})
    BY <1>1 DEF Elect, Row
  <2> HIDE DEF e
  <2>2. "also" \notin e.cols => "also" \notin o.cols /\ o.row.url \in o.row.also
    BY <2>1
  <2>3. Names(row) \subseteq Names(e.row)
    BY <2>1 DEF HeldOK, Names
  <2> QED BY <2>1, <2>2, <2>3 DEF HeldOK, e
<1>2. CASE ~(p.cand > p.ex)
  <2>1. /\ e.row.url = o.row.url /\ e.row.also = o.row.also \cup {a.url}
        /\ e.cols = o.cols \cup (IF a.url \in o.row.also THEN {} ELSE {"also"})
    BY <1>2 DEF Elect, Row
  <2> HIDE DEF e
  <2>2. "also" \notin e.cols => "also" \notin o.cols /\ a.url \in o.row.also
    BY <2>1
  <2>3. Names(row) \subseteq Names(e.row)
    BY <2>1 DEF HeldOK, Names
  <2> QED BY <2>1, <2>2, <2>3 DEF HeldOK, e
<1> QED BY <1>1, <1>2

(* A query finds what the table holds and leaves alone what is held.       *)
LEMMA LoadedHeld ==
  ASSUME NEW s, NEW cc, \A i \in DOMAIN s : i \in DOMAIN rows /\ HeldOK(s[i], rows[i])
  PROVE  \A i \in DOMAIN Loaded(s, cc) :
           i \in DOMAIN rows /\ HeldOK(Loaded(s, cc)[i], rows[i])
<1>1. ASSUME NEW i \in DOMAIN Loaded(s, cc)
      PROVE  i \in DOMAIN rows /\ HeldOK(Loaded(s, cc)[i], rows[i])
  <2>1. i \in Dirty(s) \cup {j \in DOMAIN rows : rows[j].cc = cc}
    BY DEF Loaded
  <2>2. CASE i \in DOMAIN s
    BY <2>1, <2>2 DEF Loaded
  <2>3. CASE i \notin DOMAIN s
    <3>1. i \in DOMAIN rows /\ Loaded(s, cc)[i] = [row |-> rows[i], cols |-> {}]
      BY <2>1, <2>3 DEF Loaded, Dirty
    <3> QED BY <3>1 DEF HeldOK
  <2> QED BY <2>2, <2>3
<1> QED BY <1>1

(* A flush forgets no URL of a row.                                        *)
LEMMA FlushedKeepsNames ==
  ASSUME TableOK, NEW s, Session(s),
         \A i \in DOMAIN s : i \in DOMAIN rows /\ HeldOK(s[i], rows[i]),
         NEW i \in DOMAIN rows
  PROVE  Names(rows[i]) \subseteq Names(Flushed(s)[i])
<1>1. rows[i] \in Row
  BY DEF TableOK
<1>2. CASE i \notin Dirty(s)
  BY <1>2 DEF Flushed
<1>3. CASE i \in Dirty(s)
  <2>1. s[i].row \in Row /\ HeldOK(s[i], rows[i])
    BY <1>3 DEF Session, Dirty
  <2>2. /\ Flushed(s)[i].url = (IF "lead" \in s[i].cols THEN s[i].row.url ELSE rows[i].url)
        /\ Flushed(s)[i].also = (IF "also" \in s[i].cols THEN s[i].row.also ELSE rows[i].also)
    BY <1>1, <1>3, <2>1 DEF Flushed, Row
  <2>3. Flushed(s)[i].url = s[i].row.url /\ Flushed(s)[i].also = s[i].row.also
    BY <2>1, <2>2 DEF HeldOK
  <2> QED BY <2>1, <2>3 DEF HeldOK, Names
<1> QED BY <1>2, <1>3

LEMMA TraceableNames ==
  /\ \A u : u \in Traceable <=> \E i \in DOMAIN rows : u \in Names(rows[i])
  /\ \A u : u \in Traceable' <=> \E i \in DOMAIN rows' : u \in Names(rows'[i])
BY DEF Traceable, LeadUrls, AlsoUrls, UrlsOf, Names

(* The commit of the only session there is.                                *)
LEMMA InsertKeepsTrace ==
  ASSUME TraceInv, NEW w \in Workers, InsertBatch(w)
  PROVE  TraceGrows
<1> DEFINE f == SomeIds(w)
<1>1. /\ f \in [pend[w] -> RowIds \ (DOMAIN rows \cup DOMAIN session[w])]
      /\ \A a, b \in pend[w] : f[a] = f[b] => a = b
  BY DEF InsertBatch, SomeIds, FreshIds
<1>2. rows' = AfterCommit(w, f) /\ stored' = stored \cup UrlsIn(pend[w])
  BY DEF InsertBatch
<1> HIDE DEF f
<1>3. \A i \in DOMAIN rows : i \in DOMAIN rows' /\ rows'[i] = Flushed(session[w])[i]
  BY <1>2 DEF AfterCommit
<1>4. ASSUME NEW u \in Traceable PROVE u \in Traceable'
  <2>1. PICK i \in DOMAIN rows : u \in Names(rows[i])
    BY TraceableNames
  <2>2. Names(rows[i]) \subseteq Names(Flushed(session[w])[i])
    BY FlushedKeepsNames DEF TraceInv, TableOK, SessionsOK
  <2>3. u \in Names(rows'[i]) /\ i \in DOMAIN rows'
    BY <1>3, <2>1, <2>2
  <2> QED BY <2>3, TraceableNames
<1>5. ASSUME NEW a \in pend[w] PROVE a.url \in Traceable'
  <2> DEFINE i == f[a]
             b == CHOOSE c \in pend[w] : f[c] = i
  <2>1. i \in DOMAIN rows' /\ i \notin DOMAIN rows
    BY <1>1, <1>2 DEF AfterCommit
  <2>2. rows'[i] = AsRow(b)
    BY <1>2, <2>1 DEF AfterCommit
  <2>3. b = a
    BY <1>1
  <2> HIDE DEF b
  <2>4. a.url \in Names(rows'[i])
    BY <2>2, <2>3 DEF AsRow, Names
  <2> HIDE DEF i
  <2> QED BY <2>1, <2>4, TraceableNames
<1>6. stored' \ stored \subseteq UrlsIn(pend[w])
  BY <1>2
<1> QED BY <1>4, <1>5, <1>6 DEF TraceGrows, UrlsIn

(* A screening changes the session of its worker only.                     *)
LEMMA ScreeningHeld ==
  ASSUME TraceInv, NEW w \in Workers, NoNeighbour(w) \/ NearDuplicate(w) \/ UnrelatedNeighbour(w)
  PROVE  SessionsOK' /\ UNCHANGED <<rows, stored>>
<1> DEFINE s == Loaded(session[w], Candidate(w).cc)
           Held(t) == \A i \in DOMAIN t : i \in DOMAIN rows /\ HeldOK(t[i], rows[i])
<1>1. UNCHANGED <<rows, stored>> /\ Candidate(w) \in Articles /\ session[w] \in {session[w]}
  BY HeadOfQueue DEF NoNeighbour, NearDuplicate, UnrelatedNeighbour, ScreenCandidate, Candidate,
                     TraceInv, QueueOK
<1>2. Held(session[w]) /\ Held(s) /\ Session(s) /\ DOMAIN session = Workers
  <2>1. Held(session[w])
    BY DEF TraceInv, SessionsOK
  <2>2. Held(s)
    BY <2>1, LoadedHeld
  <2> QED BY <2>1, <2>2, LoadedTyped DEF TraceInv, TableOK
<1>3. ASSUME NEW i \in Comparable(w), NEW p
      PROVE  Held([s EXCEPT ![i] = Elect(@, Candidate(w), p)])
  <2>1. i \in DOMAIN s
    BY <1>3 DEF Comparable
  <2> HIDE DEF s
  <2>2. i \in DOMAIN rows /\ rows[i] \in Row /\ HeldOK(s[i], rows[i])
        /\ s[i].row \in Row /\ s[i].cols \subseteq {"lead", "also"}
    BY <1>2, <2>1 DEF Session, TraceInv, TableOK
  <2>3. HeldOK(Elect(s[i], Candidate(w), p), rows[i])
    BY <1>1, <2>2, ElectKeepsNames
  <2> QED BY <1>2, <2>1, <2>3
<1>4. Held(session'[w]) /\ \A v \in Workers \ {w} : session'[v] = session[v]
  <2>1. CASE NoNeighbour(w)
    <3> HIDE DEF s
    <3>1. session' = [session EXCEPT ![w] = IF Candidate(w).vec = NoVec THEN session[w] ELSE s]
      BY <2>1 DEF NoNeighbour, s
    <3> QED BY <1>2, <3>1
  <2>2. CASE NearDuplicate(w)
    <3>1. PICK i \in Comparable(w) : \E p :
            session' = [session EXCEPT ![w] = [s EXCEPT ![i] = Elect(@, Candidate(w), p)]]
      BY <2>2 DEF NearDuplicate
    <3>2. PICK p : session' = [session EXCEPT ![w] = [s EXCEPT ![i] = Elect(@, Candidate(w), p)]]
      BY <3>1
    <3>3. Held([s EXCEPT ![i] = Elect(@, Candidate(w), p)])
      BY <1>3
    <3> HIDE DEF s
    <3> QED BY <1>2, <3>2, <3>3
  <2>3. CASE UnrelatedNeighbour(w)
    <3>1. PICK i \in Comparable(w) :
            session' = [session EXCEPT ![w] =
                          IF prio[w] = Unset THEN s
                          ELSE [s EXCEPT ![i] = Elect(@, Candidate(w), prio[w])]]
      BY <2>3 DEF UnrelatedNeighbour
    <3>2. Held([s EXCEPT ![i] = Elect(@, Candidate(w), prio[w])])
      BY <1>3
    <3> HIDE DEF s
    <3> QED BY <1>2, <3>1, <3>2
  <2> QED BY <2>1, <2>2, <2>3
<1> QED BY <1>1, <1>4 DEF SessionsOK, TraceInv

(* Every step of a pipeline with one worker.                               *)
LEMMA NextTrace ==
  ASSUME \A v, w \in Workers : v = w, TraceInv, [Next]_vars
  PROVE  TraceInv' /\ TraceGrows
<1>1. QueueOK' /\ InHand' /\ TableOK'
  BY NextQueue, NextTable DEF TraceInv
<1> DEFINE Kept == /\ UNCHANGED <<rows, stored>>
                   /\ \A v \in Workers : \A i \in DOMAIN session'[v] :
                        i \in DOMAIN session[v] /\ session'[v][i] = session[v][i]
<1>2. ASSUME UNCHANGED <<rows, stored>> PROVE TraceGrows
  BY <1>2, TraceableNames DEF TraceGrows
<1>0. ASSUME Kept PROVE SessionsOK' /\ TraceGrows
  BY <1>0, <1>2 DEF TraceInv, SessionsOK
<1>3. DOMAIN session = Workers /\ DOMAIN NoSession = {}
  BY DEF TraceInv, TableOK, NoSession
<1>4. ASSUME NEW w \in Workers,
             \/ \E b \in Batches : StartBatch(w, b)
             \/ \E a \in Scraped : SaveArticle(w, a)
             \/ CheckRedisKey(w) \/ CheckDatabase(w) \/ BeginPersist(w)
             \/ BumpArchiveVersion(w)
             \/ \E u \in Urls : ConfirmPersisted(w, u)
             \/ FinishBatch(w)
      PROVE  Kept
  BY <1>4 DEF StartBatch, SaveArticle, CheckRedisKey, CheckDatabase,
     BeginPersist, BumpArchiveVersion, ConfirmPersisted, FinishBatch, store
<1>5. ASSUME NEW w \in Workers, FilterExisting(w) PROVE Kept
  <2>1. UNCHANGED <<rows, stored>>
    BY <1>5 DEF FilterExisting, store
  <2>2. session' = session \/ session' = [session EXCEPT ![w] = OnlyDirty(@)]
    BY <1>5 DEF FilterExisting
  <2>3. \A i \in DOMAIN OnlyDirty(session[w]) :
          i \in DOMAIN session[w] /\ OnlyDirty(session[w])[i] = session[w][i]
    BY DEF OnlyDirty, Dirty
  <2> QED BY <1>3, <2>1, <2>2, <2>3
<1>6. ASSUME NEW w \in Workers, RollBack(w) \/ CloseSession(w) PROVE Kept
  <2>1. UNCHANGED <<rows, stored>> /\ session' = [session EXCEPT ![w] = NoSession]
    BY <1>6 DEF RollBack, CloseSession, store
  <2> QED BY <1>3, <2>1
<1>7. CASE ToggleRedis \/ (\E u \in Urls : ExpireKey(u)) \/ UNCHANGED vars
  <2>1. Kept
    BY <1>7 DEF ToggleRedis, ExpireKey, vars, store, local
  <2> QED BY <1>0, <1>1, <2>1 DEF TraceInv
<1>8. CASE Crash
  <2>1. Kept
    BY <1>3, <1>8 DEF Crash, LoseMemory, store
  <2> QED BY <1>0, <1>1, <2>1 DEF TraceInv
<1>9. ASSUME NEW w \in Workers, InsertBatch(w) PROVE TraceInv' /\ TraceGrows
  <2>1. session'[w] = NoSession
    BY <1>3, <1>9 DEF InsertBatch
  <2>2. \A v \in Workers : session'[v] = NoSession
    BY <2>1
  <2>3. SessionsOK'
    BY <1>3, <2>2 DEF SessionsOK
  <2> QED BY <1>1, <1>9, <2>3, InsertKeepsTrace DEF TraceInv
<1>10. ASSUME NEW w \in Workers, NoNeighbour(w) \/ NearDuplicate(w) \/ UnrelatedNeighbour(w)
       PROVE  TraceInv' /\ TraceGrows
  <2>1. SessionsOK' /\ UNCHANGED <<rows, stored>>
    BY <1>10, ScreeningHeld
  <2> QED BY <1>1, <1>2, <2>1 DEF TraceInv
<1>11. Kept => TraceInv' /\ TraceGrows
  BY <1>0, <1>1 DEF TraceInv
<1> HIDE DEF Kept
<1> QED
  BY <1>4, <1>5, <1>6, <1>7, <1>8, <1>9, <1>10, <1>11 DEF Next, Ingestion, Proceed

LEMMA InitTrace == Init => TraceInv /\ stored = {}
<1> SUFFICES ASSUME Init PROVE SessionsOK /\ stored = {}
  BY InitQueue, InitTable DEF TraceInv
<1>1. \A w \in Workers : DOMAIN session[w] = {}
  BY DEF Init, Fresh, NoSession
<1>2. stored = {}
  BY DEF Init, Fresh
<1> QED BY <1>1, <1>2 DEF SessionsOK

(* Without a second session an election moves the old lead into the list   *)
(* of the row it leaves, and no commit loses a URL that was stored, for    *)
(* any articles, batches, failures and crashes (the election of            *)
(* persist_high_impact_batch, classifier.py:936-1003).                     *)
THEOREM OneWorkerKeepsTrace ==
  ASSUME \A v, w \in Workers : v = w
  PROVE  Spec => []StoredStaysTraceable
<1>1. StoredStaysTraceable <=> stored \subseteq Traceable
  BY DEF StoredStaysTraceable, Traceable
<1>2. StoredStaysTraceable' <=> stored' \subseteq Traceable'
  BY DEF StoredStaysTraceable, Traceable
<1>3. Init => TraceInv /\ StoredStaysTraceable
  BY <1>1, InitTrace
<1>4. TraceInv /\ StoredStaysTraceable /\ [Next]_vars => (TraceInv /\ StoredStaysTraceable)'
  BY <1>1, <1>2, NextTrace DEF TraceGrows
<1> QED BY <1>3, <1>4, PTL DEF Spec

--------------------------------------------------------------------------------
(* The demo articles, with one worker.                                     *)
Preparing == {"startup", "delete", "seed"}

DemoOnly == Traceable \subseteq UrlsIn(Seeds)

(* Below the threshold the table holds demo articles only, unless          *)
(* ingestion was let on too early.                                         *)
TableSize == ~short => DemoOnly \/ SeedThreshold <= Cardinality(DOMAIN rows)

(* The queues of a call, apart from what the seeding keeps in todo.        *)
ListsOK ==
  /\ dedup \subseteq Urls /\ published \subseteq Urls /\ stored \subseteq Urls
  /\ unique \in [Workers -> Seq(Articles)]
  /\ pend \in [Workers -> SUBSET Articles]
  /\ confirm \in [Workers -> SUBSET Urls]
  /\ DOMAIN pc = Workers /\ todo = [w \in Workers |-> todo[w]]

Waits(w) ==
  /\ session[w] = NoSession
  /\ pc[w] # "seed"   => todo[w] \in Seq(Articles)
  /\ pc[w] = "delete" => Cardinality(DOMAIN rows) < SeedThreshold
  /\ pc[w] = "seed"   => ~short /\ DemoOnly /\ todo[w] \in Seq(SUBSET Seeds)

Works(w) ==
  /\ QueueOK /\ InHand
  /\ ~short => SeedThreshold <= Cardinality(DOMAIN rows) + 1
  /\ pc[w] = "insert" => pend[w] # {}

SeedInv(w) ==
  /\ ListsOK /\ TableOK /\ SessionsOK /\ TableSize
  /\ IF pc[w] \in Preparing THEN Waits(w) ELSE Works(w)

LEMMA SameTraceable == rows' = rows => Traceable' = Traceable
BY DEF Traceable, LeadUrls, AlsoUrls, UrlsOf

(* Rows can be counted.                                                    *)
LEMMA RowsFinite == TableOK => IsFiniteSet(DOMAIN rows) /\ Cardinality(DOMAIN rows) \in Nat
BY RowIdsAssumption, FS_Subset, FS_CardinalityType DEF TableOK

(* An insert adds a row.                                                   *)
LEMMA InsertAdds ==
  ASSUME TableOK, TableOK', NEW w \in Workers, InsertBatch(w), pend[w] # {}
  PROVE  Cardinality(DOMAIN rows) + 1 <= Cardinality(DOMAIN rows')
<1> DEFINE f == SomeIds(w)
<1>1. f \in [pend[w] -> RowIds \ (DOMAIN rows \cup DOMAIN session[w])]
  BY DEF InsertBatch, SomeIds, FreshIds
<1>2. rows' = AfterCommit(w, f)
  BY DEF InsertBatch
<1> HIDE DEF f
<1>3. PICK a \in pend[w] : TRUE
  OBVIOUS
<1>4. f[a] \notin DOMAIN rows /\ DOMAIN rows \cup {f[a]} \subseteq DOMAIN rows'
  BY <1>1, <1>2, <1>3 DEF AfterCommit
<1>5. IsFiniteSet(DOMAIN rows') /\ Cardinality(DOMAIN rows') \in Nat
  BY RowIdsAssumption, FS_Subset, FS_CardinalityType DEF TableOK
<1>6. Cardinality(DOMAIN rows \cup {f[a]}) <= Cardinality(DOMAIN rows')
  BY <1>4, <1>5, FS_Subset
<1>7. Cardinality(DOMAIN rows \cup {f[a]}) = Cardinality(DOMAIN rows) + 1
  BY <1>4, RowsFinite, FS_AddElement
<1> QED BY <1>6, <1>7

(* The steps of a call that do not insert leave table and places alone.    *)
LEMMA IngestionElsewhere ==
  ASSUME QueueOK, DOMAIN session = Workers, Ingestion, \A w \in Workers : ~InsertBatch(w)
  PROVE  /\ UNCHANGED <<rows, stored>>
         /\ DOMAIN session' = Workers
         /\ \A v \in Workers :
              pc'[v] = "insert" => pend'[v] # {} \/ (pc[v] = "insert" /\ pend'[v] = pend[v])
<1> USE DEF store, local
<1>1. ASSUME NEW w \in Workers,
             \/ \E b \in Batches : StartBatch(w, b)
             \/ \E a \in Scraped : SaveArticle(w, a)
             \/ CheckRedisKey(w) \/ CheckDatabase(w) \/ BeginPersist(w)
             \/ BumpArchiveVersion(w)
             \/ \E u \in Urls : ConfirmPersisted(w, u)
             \/ CloseSession(w)
      PROVE  /\ UNCHANGED <<rows, stored>>
             /\ DOMAIN session' = Workers /\ pend' = pend
             /\ pc' = pc \/ \E p \in {"redisCheck", "dbCheck", "route", "confirm"} :
                                pc' = [pc EXCEPT ![w] = p]
  BY <1>1 DEF StartBatch, SaveArticle, CheckRedisKey, CheckDatabase, BeginPersist,
     BumpArchiveVersion, ConfirmPersisted, CloseSession
<1>2. ASSUME NEW w \in Workers, RollBack(w) \/ FinishBatch(w)
      PROVE  /\ UNCHANGED <<rows, stored>>
             /\ DOMAIN session' = Workers /\ pend' = [pend EXCEPT ![w] = {}]
             /\ pc' = [pc EXCEPT ![w] = "idle"]
  BY <1>2 DEF RollBack, FinishBatch, ReturnFromCall
<1>3. ASSUME NEW w \in Workers, NoNeighbour(w) \/ NearDuplicate(w) \/ UnrelatedNeighbour(w)
      PROVE  /\ UNCHANGED <<rows, stored, pc>> /\ pc[w] = "route"
             /\ DOMAIN session' = Workers
             /\ pend' = pend \/ \E S : pend' = [pend EXCEPT ![w] = S]
  BY <1>3 DEF NoNeighbour, NearDuplicate, UnrelatedNeighbour, ScreenCandidate, PublishAndCollect
<1>4. ASSUME NEW w \in Workers, FilterExisting(w)
      PROVE  /\ UNCHANGED <<rows, stored>>
             /\ DOMAIN session' = Workers
             /\ pend' = pend \/ \E S : pend' = [pend EXCEPT ![w] = S]
             /\ \E p \in {"idle", "insert"} : pc' = [pc EXCEPT ![w] = p]
             /\ pc'[w] = "insert" => pend'[w] # {}
  BY <1>4 DEF FilterExisting, QueueOK
<1>5. CASE ToggleRedis \/ \E u \in Urls : ExpireKey(u)
  BY <1>5 DEF ToggleRedis, ExpireKey
<1> USE DEF QueueOK
<1>6. ASSUME NEW w \in Workers,
             \/ \E b \in Batches : StartBatch(w, b)
             \/ \E a \in Scraped : SaveArticle(w, a)
             \/ Proceed(w) \/ CloseSession(w)
      PROVE  /\ UNCHANGED <<rows, stored>>
             /\ DOMAIN session' = Workers
             /\ \A v \in Workers :
                  pc'[v] = "insert" => pend'[v] # {} \/ (pc[v] = "insert" /\ pend'[v] = pend[v])
  <2>1. CASE RollBack(w) \/ FinishBatch(w)
    BY <1>2, <2>1
  <2>2. CASE NoNeighbour(w) \/ NearDuplicate(w) \/ UnrelatedNeighbour(w)
    BY <1>3, <2>2
  <2>3. CASE FilterExisting(w)
    BY <1>4, <2>3
  <2>4. CASE \/ \E b \in Batches : StartBatch(w, b)
             \/ \E a \in Scraped : SaveArticle(w, a)
             \/ CheckRedisKey(w) \/ CheckDatabase(w) \/ BeginPersist(w)
             \/ BumpArchiveVersion(w)
             \/ \E u \in Urls : ConfirmPersisted(w, u)
             \/ CloseSession(w)
    BY <1>1, <2>4
  <2> QED BY <1>6, <2>1, <2>2, <2>3, <2>4 DEF Proceed
<1> QED BY <1>5, <1>6 DEF Ingestion

(* A worker that serves goes on as without seeding.                        *)
LEMMA WhileServing ==
  ASSUME NEW w, Workers = {w}, SeedInv(w), pc[w] \notin Preparing, Ingestion, short' = short
  PROVE  SeedInv(w)' /\ TraceGrows
<1>1. TraceInv /\ [Next]_vars /\ \A u, v \in Workers : u = v
  BY DEF SeedInv, Works, TraceInv, Next
<1>2. TraceInv' /\ TraceGrows
  BY <1>1, NextTrace
<1>3. ListsOK' /\ pc'[w] \notin Preparing /\ TableOK' /\ TableOK
  BY <1>2 DEF TraceInv, QueueOK, ListsOK, Preparing, SeedInv
<1>4. Cardinality(DOMAIN rows) \in Nat /\ Cardinality(DOMAIN rows') \in Nat /\ SeedThreshold \in Nat
  BY <1>3, RowsFinite, RowIdsAssumption, FS_Subset, FS_CardinalityType, SeedsAssumption DEF TableOK
<1>5. /\ ~short => SeedThreshold <= Cardinality(DOMAIN rows) + 1
      /\ pc[w] = "insert" => pend[w] # {}
      /\ TableSize /\ w \in Workers /\ DOMAIN session = Workers /\ QueueOK
  BY <1>3 DEF SeedInv, Works, TableOK
<1>6. /\ TableSize'
      /\ ~short' => SeedThreshold <= Cardinality(DOMAIN rows') + 1
      /\ pc'[w] = "insert" => pend'[w] # {}
  <2>1. CASE InsertBatch(w)
    <3>1. pend[w] # {} /\ pc'[w] = "bump"
      BY <1>5, <2>1 DEF InsertBatch, QueueOK
    <3>2. Cardinality(DOMAIN rows) + 1 <= Cardinality(DOMAIN rows')
      BY <1>3, <1>5, <2>1, <3>1, InsertAdds
    <3> QED BY <1>4, <1>5, <3>1, <3>2 DEF TableSize
  <2>2. CASE ~InsertBatch(w)
    <3>1. /\ UNCHANGED <<rows, stored>>
          /\ pc'[w] = "insert" => pend'[w] # {} \/ (pc[w] = "insert" /\ pend'[w] = pend[w])
      BY <1>5, <2>2, IngestionElsewhere
    <3> QED BY <1>5, <3>1, SameTraceable DEF TableSize, DemoOnly
  <2> QED BY <2>1, <2>2
<1>7. QueueOK' /\ InHand' /\ TableOK' /\ SessionsOK'
  BY <1>2 DEF TraceInv
<1>8. Works(w)'
  BY <1>6, <1>7, Zenon DEF Works
<1>9. SeedInv(w)'
  BY <1>3, <1>6, <1>7, <1>8, Zenon DEF SeedInv
<1> QED BY <1>2, <1>9

(* What a step that leaves the table alone keeps.                          *)
LEMMA SameTable ==
  ASSUME NEW w, SeedInv(w), DOMAIN pc' = Workers, todo' = [v \in Workers |-> todo'[v]],
         UNCHANGED <<store, unique, pend, confirm, prio, session, redisUp>>,
         faults' \in Nat, short => short'
  PROVE  ListsOK' /\ TableOK' /\ SessionsOK' /\ TableSize' /\ TraceGrows
<1> USE DEF store
<1>1. ListsOK'
  BY DEF SeedInv, ListsOK
<1>2. TableOK' /\ SessionsOK'
  BY DEF SeedInv, TableOK, SessionsOK, Session
<1>3. TableSize' /\ TraceGrows
  BY SameTraceable DEF SeedInv, TableSize, DemoOnly, TraceGrows
<1> QED BY <1>1, <1>2, <1>3

(* While it waits a worker takes no part in ingestion.                     *)
LEMMA WhilePreparing ==
  ASSUME NEW w, Workers = {w}, SeedInv(w), pc[w] \in Preparing, Ingestion, short' = short
  PROVE  SeedInv(w)' /\ TraceGrows
<1>1. ToggleRedis \/ \E u \in Urls : ExpireKey(u)
  <2>1. pc[w] \notin {"idle", "redisCheck", "dbCheck", "route", "insert", "bump", "confirm"}
    BY DEF Preparing
  <2> QED
    BY <2>1 DEF Ingestion, Proceed, StartBatch, SaveArticle, CheckRedisKey, CheckDatabase,
       BeginPersist, NoNeighbour, NearDuplicate, UnrelatedNeighbour, ScreenCandidate,
       FilterExisting, InsertBatch, RollBack, BumpArchiveVersion, ConfirmPersisted,
       FinishBatch, CloseSession
<1>2. /\ UNCHANGED <<rows, archiveVersion, published, stored, pc, todo, unique, pend, confirm,
                     prio, session, faults>>
      /\ dedup' \subseteq dedup /\ redisUp' \in BOOLEAN
  BY <1>1 DEF ToggleRedis, ExpireKey, store, local, SeedInv, TableOK
<1>3. ListsOK' /\ TableOK' /\ SessionsOK'
  BY <1>2 DEF SeedInv, ListsOK, TableOK, SessionsOK, Session
<1>4. Traceable' = Traceable /\ TableSize /\ Waits(w)
  BY <1>2, SameTraceable DEF SeedInv
<1>5. TableSize' /\ TraceGrows /\ Waits(w)'
  BY <1>2, <1>4 DEF TableSize, DemoOnly, TraceGrows, Waits
<1> QED BY <1>2, <1>3, <1>5 DEF SeedInv

(* Ingestion goes on, after a seeding or without one.                      *)
LEMMA ServeKeeps ==
  ASSUME NEW w, Workers = {w}, SeedInv(w), Serve(w), todo[w] \in Seq(Articles),
         UNCHANGED <<store, todo, unique, pend, confirm, prio, session, redisUp>>,
         faults' \in Nat
  PROVE  SeedInv(w)' /\ TraceGrows
<1>1. /\ pc' = [v \in Workers |-> "idle"]
      /\ short' = (short \/ Cardinality(DOMAIN rows) + 1 < SeedThreshold)
  BY DEF Serve
<1>2. todo' = [v \in Workers |-> todo'[v]] /\ todo' \in [Workers -> Seq(Articles)]
  BY DEF SeedInv, ListsOK
<1>3. ListsOK' /\ TableOK' /\ SessionsOK' /\ TableSize' /\ TraceGrows
  BY <1>1, <1>2, SameTable
<1>4. Cardinality(DOMAIN rows) \in Nat /\ SeedThreshold \in Nat /\ rows' = rows
  BY RowsFinite, SeedsAssumption DEF SeedInv, store
<1>5. QueueOK' /\ InHand'
  BY <1>1, <1>2, <1>3 DEF ListsOK, QueueOK, InHand
<1>6. ~short' => SeedThreshold <= Cardinality(DOMAIN rows') + 1
  <2>1. ~short' => ~(Cardinality(DOMAIN rows) + 1 < SeedThreshold)
    BY <1>1, Zenon
  <2> QED BY <1>4, <2>1
<1>7. pc'[w] = "idle"
  BY <1>1
<1>8. Works(w)'
  BY <1>5, <1>6, <1>7, Zenon DEF Works
<1> QED BY <1>3, <1>7, <1>8 DEF SeedInv, Preparing

(* create_tables counts, and serves or deletes.                           *)
LEMMA CountKeeps ==
  ASSUME NEW w, Workers = {w}, SeedInv(w), CountArticles(w)
  PROVE  SeedInv(w)' /\ TraceGrows
<1>1. /\ UNCHANGED <<store, todo, unique, pend, confirm, prio, session, redisUp>>
      /\ \/ Serve(w) /\ faults' \in Nat
         \/ /\ Cardinality(DOMAIN rows) < SeedThreshold
            /\ pc' = [pc EXCEPT ![w] = "delete"] /\ UNCHANGED <<faults, short>>
  BY DEF CountArticles, SeedingRaises, SeedInv, TableOK
<1>2. session[w] = NoSession /\ todo[w] \in Seq(Articles)
  <2>1. CASE pc[w] = "idle" /\ session[w] = NoSession
    BY <2>1 DEF SeedInv, Preparing, Works, QueueOK
  <2>2. CASE pc[w] = "startup"
    BY <2>2 DEF SeedInv, Preparing, Waits
  <2> QED BY <2>1, <2>2 DEF CountArticles, Calls
<1>3. CASE Serve(w) /\ faults' \in Nat
  BY <1>1, <1>2, <1>3, ServeKeeps
<1>4. CASE /\ Cardinality(DOMAIN rows) < SeedThreshold
           /\ pc' = [pc EXCEPT ![w] = "delete"] /\ UNCHANGED <<faults, short>>
  <2>1. /\ DOMAIN pc' = Workers /\ pc'[w] = "delete" /\ todo' = [v \in Workers |-> todo'[v]]
        /\ faults' \in Nat /\ rows' = rows
    BY <1>1, <1>4 DEF SeedInv, ListsOK, TableOK, store
  <2>2. ListsOK' /\ TableOK' /\ SessionsOK' /\ TableSize' /\ TraceGrows
    BY <1>1, <1>4, <2>1, SameTable
  <2>3. Waits(w)'
    BY <1>1, <1>2, <1>4, <2>1 DEF Waits
  <2> QED BY <2>1, <2>2, <2>3 DEF SeedInv, Preparing
<1> QED BY <1>1, <1>3, <1>4

(* The seeding has its batches from the demo articles.                     *)
LEMMA SeedsTyped ==
  /\ SeedBatches \in Seq(SUBSET Seeds) /\ Seeds \subseteq Article
  /\ \A q \in Seq(SUBSET Seeds) :
       q # <<>> => Head(q) \subseteq Seeds /\ Tail(q) \in Seq(SUBSET Seeds)
<1>1. SeedBatches \in Seq(SUBSET Article) /\ Len(SeedBatches) \in Nat
  BY SeedsAssumption
<1>2. Range(SeedBatches) = {SeedBatches[k] : k \in DOMAIN SeedBatches}
  BY DEF Range
<1>3. \A k \in 1 .. Len(SeedBatches) : SeedBatches[k] \subseteq Seeds /\ SeedBatches[k] \subseteq Article
  BY <1>1, <1>2 DEF Seeds
<1>4. SeedBatches = [k \in 1 .. Len(SeedBatches) |-> SeedBatches[k]]
  BY <1>1
<1>5. SeedBatches \in Seq(SUBSET Seeds)
  BY <1>1, <1>3, <1>4
<1>6. Seeds \subseteq Article
  BY <1>1, <1>2, <1>3 DEF Seeds
<1> HIDE DEF Seeds
<1>7. \A q \in Seq(SUBSET Seeds) :
        q # <<>> => Head(q) \subseteq Seeds /\ Tail(q) \in Seq(SUBSET Seeds)
  OBVIOUS
<1> QED BY <1>5, <1>6, <1>7

(* Deleting begins the seeding, or ends it.                                *)
LEMMA DeleteKeeps ==
  ASSUME NEW w, Workers = {w}, SeedInv(w), DeleteArticles(w)
  PROVE  /\ SeedInv(w)' /\ stored' = stored
         /\ TraceGrows \/ (rows' = EmptyTable /\ (short \/ DemoOnly))
<1>1. /\ pc[w] = "delete"
      /\ UNCHANGED <<dedup, archiveVersion, published, stored, unique, pend, confirm,
                     prio, session, redisUp>>
      /\ \/ /\ rows' = EmptyTable /\ short' = FALSE
            /\ pc' = [pc EXCEPT ![w] = "seed"]
            /\ todo' = [todo EXCEPT ![w] = SeedBatches] /\ faults' = faults
         \/ Serve(w) /\ faults' \in Nat /\ UNCHANGED <<rows, todo>>
  BY DEF DeleteArticles, SeedingRaises, SeedInv, TableOK
<1>2. /\ session[w] = NoSession /\ todo[w] \in Seq(Articles) /\ TableSize
      /\ Cardinality(DOMAIN rows) < SeedThreshold
  BY <1>1 DEF SeedInv, Waits, Preparing
<1>3. Cardinality(DOMAIN rows) \in Nat /\ SeedThreshold \in Nat
  BY RowsFinite, SeedsAssumption DEF SeedInv
<1>4. short \/ DemoOnly
  BY <1>2, <1>3 DEF TableSize
<1>5. CASE /\ rows' = EmptyTable /\ short' = FALSE
           /\ pc' = [pc EXCEPT ![w] = "seed"]
           /\ todo' = [todo EXCEPT ![w] = SeedBatches] /\ faults' = faults
  <2>1. DOMAIN NoSession = {} /\ DOMAIN EmptyTable = {}
    BY DEF NoSession, EmptyTable
  <2>2. ListsOK' /\ TableOK' /\ SessionsOK'
    BY <1>1, <1>2, <1>5, <2>1 DEF SeedInv, ListsOK, TableOK, SessionsOK, Session
  <2>3. Traceable' = {}
    BY <1>5, <2>1, TraceableNames
  <2>4. pc'[w] = "seed" /\ todo'[w] = SeedBatches /\ session' = session
    BY <1>1, <1>5 DEF SeedInv, ListsOK
  <2>5. TableSize' /\ Waits(w)'
    BY <1>2, <1>5, <2>3, <2>4, SeedsTyped DEF TableSize, DemoOnly, Waits
  <2> QED BY <1>1, <1>4, <1>5, <2>2, <2>4, <2>5 DEF SeedInv, Preparing
<1>6. CASE Serve(w) /\ faults' \in Nat /\ UNCHANGED <<rows, todo>>
  BY <1>1, <1>2, <1>6, ServeKeeps DEF store
<1> QED BY <1>1, <1>5, <1>6

(* A commit adds the URLs of its batch to the table.                      *)
LEMMA SeedsAdded ==
  ASSUME TableOK, NEW batch \in SUBSET Article, NEW free \in SUBSET (RowIds \ DOMAIN rows),
         NEW f \in [batch -> free], \A a, b \in batch : f[a] = f[b] => a = b,
         rows' = [i \in DOMAIN rows \cup {f[a] : a \in batch} |->
                    IF i \in DOMAIN rows THEN rows[i]
                    ELSE AsRow(CHOOSE a \in batch : f[a] = i)]
  PROVE  /\ DOMAIN rows' \subseteq RowIds /\ \A i \in DOMAIN rows' : rows'[i] \in Row
         /\ Traceable' = Traceable \cup UrlsIn(batch)
<1>1. \A i \in DOMAIN rows : i \in DOMAIN rows' /\ rows'[i] = rows[i]
  OBVIOUS
<1>2. ASSUME NEW a \in batch
      PROVE  f[a] \in DOMAIN rows' /\ f[a] \notin DOMAIN rows /\ rows'[f[a]] = AsRow(a)
  <2> DEFINE b == CHOOSE c \in batch : f[c] = f[a]
  <2>1. b = a
    OBVIOUS
  <2>2. f[a] \in DOMAIN rows' /\ f[a] \notin DOMAIN rows
    OBVIOUS
  <2>3. rows'[f[a]] = AsRow(b)
    BY <2>2
  <2> QED BY <2>1, <2>2, <2>3
<1>3. ASSUME NEW i \in DOMAIN rows' PROVE i \in DOMAIN rows \/ \E a \in batch : i = f[a]
  OBVIOUS
<1>4. \A a \in batch : AsRow(a) \in Row /\ Names(AsRow(a)) = {a.url}
  BY DEF Article, AsRow, Row, Names
<1>5. DOMAIN rows' \subseteq RowIds /\ \A i \in DOMAIN rows' : rows'[i] \in Row
  BY <1>1, <1>2, <1>3, <1>4 DEF TableOK
<1>6. Traceable' \subseteq Traceable \cup UrlsIn(batch)
  <2> SUFFICES ASSUME NEW u \in Traceable' PROVE u \in Traceable \cup UrlsIn(batch)
    OBVIOUS
  <2>1. PICK i \in DOMAIN rows' : u \in Names(rows'[i])
    BY TraceableNames
  <2>2. CASE i \in DOMAIN rows
    BY <1>1, <2>1, <2>2, TraceableNames
  <2>3. CASE \E a \in batch : i = f[a]
    BY <1>2, <1>4, <2>1, <2>3 DEF UrlsIn
  <2> QED BY <1>3, <2>2, <2>3
<1>7. Traceable \subseteq Traceable'
  BY <1>1, TraceableNames
<1>8. UrlsIn(batch) \subseteq Traceable'
  BY <1>2, <1>4, TraceableNames DEF UrlsIn
<1> QED BY <1>5, <1>6, <1>7, <1>8

(* A batch is committed, refused, or lost to a fault.                      *)
LEMMA InsertKeepsSeeding ==
  ASSUME NEW w, Workers = {w}, SeedInv(w), InsertSeeds(w)
  PROVE  SeedInv(w)' /\ TraceGrows
<1> DEFINE batch == Head(todo[w])
           free == RowIds \ (DOMAIN rows \cup UNION {DOMAIN session[v] : v \in Workers})
           keys == {f \in [batch -> free] : \A a, b \in batch : f[a] = f[b] => a = b}
<1>1. /\ pc[w] = "seed" /\ todo[w] # <<>> /\ todo' = [todo EXCEPT ![w] = Tail(@)]
      /\ UNCHANGED <<dedup, archiveVersion, published, stored, pc, unique, pend,
                     confirm, prio, session, redisUp, short>>
  BY DEF InsertSeeds
<1>2. \/ /\ faults' = faults
         /\ \E f \in keys :
              rows' = [i \in DOMAIN rows \cup {f[a] : a \in batch} |->
                         IF i \in DOMAIN rows THEN rows[i]
                         ELSE AsRow(CHOOSE a \in batch : f[a] = i)]
      \/ UNCHANGED <<rows, faults>>
      \/ faults > 0 /\ faults' = faults - 1 /\ rows' = rows
  <2> DEFINE after(f) == [i \in DOMAIN rows \cup {f[a] : a \in batch} |->
                            IF i \in DOMAIN rows THEN rows[i]
                            ELSE AsRow(CHOOSE a \in batch : f[a] = i)]
             some == CHOOSE f \in keys : TRUE
  <2>1. \/ keys # {} /\ rows' = after(some) /\ faults' = faults
        \/ UNCHANGED <<rows, faults>>
        \/ faults > 0 /\ faults' = faults - 1 /\ rows' = rows
    BY DEF InsertSeeds
  <2> HIDE DEF keys
  <2>2. keys # {} => some \in keys
    OBVIOUS
  <2> HIDE DEF some
  <2> QED BY <2>1, <2>2
<1>3. /\ ~short /\ DemoOnly /\ todo[w] \in Seq(SUBSET Seeds)
      /\ session[w] = NoSession /\ TableOK /\ ListsOK /\ w \in Workers
  BY <1>1 DEF SeedInv, Waits, Preparing
<1>4. /\ batch \subseteq Seeds /\ batch \in SUBSET Article
      /\ Tail(todo[w]) \in Seq(SUBSET Seeds)
  BY <1>1, <1>3, SeedsTyped
<1> HIDE DEF batch
<1>5. /\ DOMAIN rows' \subseteq RowIds /\ \A i \in DOMAIN rows' : rows'[i] \in Row
      /\ Traceable' = Traceable \cup UrlsIn(batch) \/ Traceable' = Traceable
  <2>1. CASE rows' = rows
    BY <1>3, <2>1, SameTraceable DEF TableOK
  <2>2. CASE \E f \in keys :
               rows' = [i \in DOMAIN rows \cup {f[a] : a \in batch} |->
                          IF i \in DOMAIN rows THEN rows[i]
                          ELSE AsRow(CHOOSE a \in batch : f[a] = i)]
    <3>1. free \in SUBSET (RowIds \ DOMAIN rows)
      OBVIOUS
    <3>2. PICK f \in keys :
            rows' = [i \in DOMAIN rows \cup {f[a] : a \in batch} |->
                       IF i \in DOMAIN rows THEN rows[i]
                       ELSE AsRow(CHOOSE a \in batch : f[a] = i)]
      BY <2>2
    <3> HIDE DEF free
    <3>3. f \in [batch -> free] /\ \A a, b \in batch : f[a] = f[b] => a = b
      BY <3>2
    <3> HIDE DEF keys
    <3> QED BY <1>3, <1>4, <3>1, <3>2, <3>3, SeedsAdded
  <2> QED BY <1>2, <2>1, <2>2
<1>6. faults' \in Nat
  BY <1>2, <1>3 DEF TableOK
<1>7. ListsOK'
  BY <1>1, <1>3 DEF ListsOK
<1>8. TableOK' /\ SessionsOK'
  <2>1. \A v \in Workers : session'[v] = NoSession
    BY <1>1, <1>3 DEF TableOK
  <2>2. DOMAIN NoSession = {}
    BY DEF NoSession
  <2> QED BY <1>1, <1>3, <1>5, <1>6, <2>1, <2>2, EmptySession DEF TableOK, SessionsOK, Session
<1>9. UrlsIn(batch) \subseteq UrlsIn(Seeds)
  BY <1>4 DEF UrlsIn
<1>10. DemoOnly' /\ TraceGrows
  BY <1>1, <1>3, <1>5, <1>9 DEF DemoOnly, TraceGrows
<1>11. pc'[w] = "seed" /\ todo'[w] = Tail(todo[w]) /\ session'[w] = NoSession /\ ~short'
  BY <1>1, <1>3 DEF ListsOK
<1>12. TableSize' /\ Waits(w)'
  BY <1>4, <1>10, <1>11 DEF TableSize, Waits
<1> QED BY <1>7, <1>8, <1>10, <1>11, <1>12 DEF SeedInv, Preparing

(* The seeding is over, whatever came of it.                               *)
LEMMA FinishKeeps ==
  ASSUME NEW w, Workers = {w}, SeedInv(w), FinishSeeding(w)
  PROVE  SeedInv(w)' /\ TraceGrows
<1>1. /\ Serve(w) /\ todo[w] = <<>>
      /\ UNCHANGED <<store, todo, unique, pend, confirm, prio, session, redisUp, faults>>
  BY DEF FinishSeeding
<1>2. todo[w] \in Seq(Articles) /\ faults' \in Nat
  BY <1>1 DEF SeedInv, TableOK
<1> QED BY <1>1, <1>2, ServeKeeps

(* A restart in the middle of anything starts over.                       *)
LEMMA RestartKeeps ==
  ASSUME NEW w, Workers = {w}, SeedInv(w), Restart
  PROVE  SeedInv(w)' /\ TraceGrows
<1>1. /\ faults > 0 /\ faults' = faults - 1
      /\ todo' = [v \in Workers |-> <<>>] /\ unique' = [v \in Workers |-> <<>>]
      /\ pend' = [v \in Workers |-> {}] /\ confirm' = [v \in Workers |-> {}]
      /\ prio' = [v \in Workers |-> Unset] /\ session' = [v \in Workers |-> NoSession]
      /\ pc' = [v \in Workers |-> "startup"]
      /\ UNCHANGED <<rows, dedup, archiveVersion, published, stored, redisUp, short>>
  BY DEF Restart, LoseMemory, store
<1>2. ListsOK'
  BY <1>1 DEF SeedInv, ListsOK
<1>3. TableOK' /\ SessionsOK'
  BY <1>1, EmptySession DEF SeedInv, TableOK, SessionsOK, Session, NoSession
<1>4. TableSize' /\ TraceGrows
  BY <1>1, SameTraceable DEF SeedInv, TableSize, DemoOnly, TraceGrows
<1>5. Waits(w)'
  BY <1>1 DEF Waits
<1> QED BY <1>1, <1>2, <1>3, <1>4, <1>5 DEF SeedInv, Preparing

(* The empty table.                                                       *)
LEMMA SeedInitKeeps ==
  ASSUME NEW w, Workers = {w}, SeedInit
  PROVE  SeedInv(w)
<1> USE DEF SeedInit, Fresh
<1>1. ListsOK
  BY DEF ListsOK
<1>2. TableOK /\ SessionsOK
  BY FaultsAssumption, EmptySession DEF TableOK, SessionsOK, EmptyTable, NoSession
<1>3. TableSize
  <2>1. rows = EmptyTable /\ DOMAIN EmptyTable = {}
    BY DEF EmptyTable
  <2> QED BY <2>1, TraceableNames DEF TableSize, DemoOnly
<1>4. Waits(w)
  BY DEF Waits
<1> QED BY <1>1, <1>2, <1>3, <1>4 DEF SeedInv, Preparing

(* Every step of a worker beside the seeding.                             *)
LEMMA SeedNextKeeps ==
  ASSUME NEW w, Workers = {w}, SeedInv(w), [SeedNext]_seedVars
  PROVE  /\ SeedInv(w)'
         /\ TraceGrows \/ (stored' = stored /\ rows' = EmptyTable /\ (short \/ DemoOnly))
<1>1. CASE UNCHANGED seedVars
  <2>1. UNCHANGED <<store, local, redisUp, faults, short>>
    BY <1>1 DEF seedVars, vars
  <2>2. DOMAIN pc' = Workers /\ todo' = [v \in Workers |-> todo'[v]] /\ faults' \in Nat
    BY <2>1 DEF local, SeedInv, ListsOK, TableOK
  <2>3. ListsOK' /\ TableOK' /\ SessionsOK' /\ TableSize' /\ TraceGrows
    BY <2>1, <2>2, SameTable DEF local
  <2>4. Traceable' = Traceable
    BY <2>1, SameTraceable DEF store
  <2>5. (Waits(w)' <=> Waits(w)) /\ (Works(w)' <=> Works(w)) /\ pc' = pc
    BY <2>1, <2>4 DEF store, local, Waits, Works, DemoOnly, QueueOK, InHand
  <2> QED BY <2>3, <2>5 DEF SeedInv
<1>2. CASE Ingestion /\ UNCHANGED short
  BY <1>2, WhileServing, WhilePreparing
<1>3. CASE Restart
  BY <1>3, RestartKeeps
<1>4. ASSUME NEW v \in Workers,
             CountArticles(v) \/ DeleteArticles(v) \/ InsertSeeds(v) \/ FinishSeeding(v)
      PROVE  /\ SeedInv(w)'
             /\ TraceGrows \/ (stored' = stored /\ rows' = EmptyTable /\ (short \/ DemoOnly))
  <2>1. v = w
    OBVIOUS
  <2> QED BY <1>4, <2>1, CountKeeps, DeleteKeeps, InsertKeepsSeeding, FinishKeeps
<1> QED BY <1>1, <1>2, <1>3, <1>4 DEF SeedNext

(* Beside the demo seeding one worker never loses a URL it stored, through *)
(* elections, refused and failed commits, restarts and seedings that fail  *)
(* half-way, until create_tables empties the table (persist_high_impact_   *)
(* batch, classifier.py:936-1125, and seed_data_if_empty).                 *)
THEOREM SeedingKeepsTrace ==
  ASSUME NEW w, Workers = {w}
  PROVE  SeedSpec => StoredUntilDeleted
<1>1. SeedInit => SeedInv(w)
  BY SeedInitKeeps
<1>2. SeedInv(w) /\ [SeedNext]_seedVars => SeedInv(w)'
  BY SeedNextKeeps
<1>3. SeedInv(w) /\ [SeedNext]_seedVars =>
        [/\ stored' \ stored \subseteq Traceable'
         /\ Traceable \subseteq Traceable' \/ rows' = EmptyTable]_seedVars
  BY SeedNextKeeps DEF TraceGrows
<1> QED BY <1>1, <1>2, <1>3, PTL DEF SeedSpec, StoredUntilDeleted

(* ... and unless ingestion was let on over a table more than one row      *)
(* below the threshold, what create_tables deletes is never anything but   *)
(* demo articles: the first ingested article reaches the threshold         *)
(* (seed_data_if_empty, database.py:199-211, whose errors create_tables    *)
(* swallows, 535-539).                                                     *)
THEOREM SeedingDeletesSeeds ==
  ASSUME NEW w, Workers = {w}
  PROVE  SeedSpec => OnlySeedingDeleted
<1>1. SeedInit => SeedInv(w)
  BY SeedInitKeeps
<1>2. SeedInv(w) /\ [SeedNext]_seedVars => SeedInv(w)'
  BY SeedNextKeeps
<1>3. SeedInv(w) /\ [SeedNext]_seedVars =>
        [\A i \in DOMAIN rows :
           \/ i \in DOMAIN rows' \/ short
           \/ {rows[i].url} \cup rows[i].also \subseteq UrlsIn(Seeds)]_seedVars
  <2> SUFFICES ASSUME SeedInv(w), [SeedNext]_seedVars
               PROVE  \A i \in DOMAIN rows :
                        \/ i \in DOMAIN rows' \/ short
                        \/ {rows[i].url} \cup rows[i].also \subseteq UrlsIn(Seeds)
    OBVIOUS
  <2>1. CASE short \/ DemoOnly
    BY <2>1, TraceableNames DEF DemoOnly, Names
  <2>2. CASE ~(short \/ DemoOnly)
    <3>1. rows' = rows \/ DOMAIN rows \subseteq DOMAIN rows'
      <4>1. CASE InsertBatch(w)
        BY <4>1 DEF InsertBatch, AfterCommit
      <4>2. CASE InsertSeeds(w)
        BY <4>2, Zenon DEF InsertSeeds
      <4>3. CASE CountArticles(w) \/ FinishSeeding(w) \/ Restart \/ UNCHANGED seedVars
        BY <4>3 DEF CountArticles, FinishSeeding, Restart, LoseMemory, seedVars, vars, store
      <4>4. CASE DeleteArticles(w)
        <5>1. w \in Workers /\ pc[w] = "delete" /\ TableSize /\ Waits(w)
          BY <4>4 DEF DeleteArticles, SeedInv, Preparing
        <5>2. Cardinality(DOMAIN rows) \in Nat /\ SeedThreshold \in Nat
          BY RowsFinite, SeedsAssumption DEF SeedInv
        <5> QED BY <2>2, <5>1, <5>2 DEF TableSize, Waits
      <4>5. CASE Ingestion /\ ~InsertBatch(w)
        <5>1. w \in Workers /\ \A v \in Workers : ~InsertBatch(v)
          BY <4>5
        <5> QED
          BY <4>5, <5>1 DEF Ingestion, Proceed, StartBatch, SaveArticle, CheckRedisKey,
             CheckDatabase, BeginPersist, NoNeighbour, NearDuplicate, UnrelatedNeighbour,
             ScreenCandidate, FilterExisting, RollBack, BumpArchiveVersion, ConfirmPersisted,
             FinishBatch, CloseSession, ToggleRedis, ExpireKey, store
      <4> QED BY <4>1, <4>2, <4>3, <4>4, <4>5 DEF SeedNext
    <3> QED BY <3>1
  <2> QED BY <2>1, <2>2
<1> QED BY <1>1, <1>2, <1>3, PTL DEF SeedSpec, OnlySeedingDeleted
================================================================================
