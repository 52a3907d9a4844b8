# Drishya in TLA+

TLA+ specifications of the concurrent and failure-prone parts of Drishya, the
OSINT dashboard in this repository: a FastAPI backend (`backend/app`) that polls
news providers and GDELT, classifies and stores articles, and pushes them to a
React dashboard (`src/`). Paths below are relative to the repository root.

1. [The system](#the-system)
2. [Modules and how they correspond to the code](#modules)
3. [Runs, bounds and what they show](#runs)
4. [Fairness](#fairness)
5. [Proofs](#proofs)
6. [Known divergences](#known-divergences)
7. [What is not modelled](#what-is-not-modelled)
8. [Plan](#plan)

Check a run with `tlc -config X.cfg MCX.tla` and a proof with
`tlapm XProofs.tla`, in this directory.

## The system

One Python process runs an asyncio event loop. Everything shares that loop, one
SQL database (PostgreSQL as `settings.py` and `docker-compose.yml` configure it;
SQLite when that cannot be reached) and one Redis (optional: every use has a
fallback). Coroutines interleave only where the code awaits; that is
the granularity of the actions in all modules.

| Component | State it keeps | Operations | What makes it hard | What makes it correct |
|---|---|---|---|---|
| Article pipeline (`services/classifier.py`, `main.py`) | table `high_impact_articles`; Redis dedup keys with 7 days to live; archive version counter; per call: queues, ORM session, collected rows | `classify_and_store_batch`, `save_article`, `is_duplicate`, `persist_high_impact_batch`, `confirm_persisted` | several loops and requests ingest at once; three layers of deduplication across two stores; elections change rows that other sessions hold; a batch is one transaction; Redis comes and goes; restarts | an article is marked as seen only once stored; nothing stored disappears; what is offered again is handled in the end |
| Demo seeding (`database.py`) | the same table | `create_tables`, `seed_data_if_empty`: count, delete, insert in batches | runs again at every ingestion cycle, beside ingestion; its failures are swallowed | deletes demo articles only, unless it left the table too short before |
| Provider calls and their breaker (`services/ingestion.py`) | `CircuitState` per provider: failures, throttles, open-until; per call: attempt | `_get_with_retry`, `allow`, `record_failure`, `record_rate_limit`, `set_tripped`, `reset`, `notify_circuit_breaker` | concurrent calls for several countries share one breaker and see each other's failures late | status messages agree with the breaker; cooldowns hold; calls end; a provider is let through again |
| Rate limiter (`services/rate_limiter.py`) | lists of request times per client and route group | the middleware, `is_allowed` | boundaries of a sliding window, rounding, routes that share a list | no window holds more than the limit; Retry-After is close to enough |
| Live feed (`main.py`, `MemoryLiveStream`) | WebSocket connections per channel; memory subscribers; SSE queues; the listener's subscription | `redis_listener_task`, `ConnectionManager`, `/api/events/stream`, the WebSub hook, publishers | peers vanish during a broadcast; Redis disappears, returns, or is never there; two paths to one client | no event twice on a channel, order kept, streams without gaps, reconnection, broadcasts end |
| Redis pool (`redis_pool.py`) | `_pool`, `_redis_last_failure`, `_lock` | `get_redis_pool` | the global is read, pinged, closed and reset across awaits, partly outside the lock | calls return; the pool recovers |
| GDELT worker (`services/gdelt_worker.py`) | the same table; counters; backoff | `ingest_gdelt_events`, `gdelt_ingestion_loop`, `POST /api/gdelt/ingest` | overlapping cycles, the pipeline storing the same URLs, batches committed one by one, repeated events, backoff against GDELT's period | what is announced is stored, once; counters tell the truth; no export is missed |
| Background jobs (`services/job_store.py`, workers in `main.py` and `api/routes/chat.py`, the panel in `src/App.tsx`) | records in Redis or in memory; a worker per job; polls of a panel | create, update, get, the workers' stages, polling | ids repeat within a second; two stores; the publish follows the write and may raise; records in memory are shared objects | a completed job has its result; a panel is told the truth; every job is final in the end |
| Dashboard (`src/App.tsx`; `GET /api/news/all` in `main.py`) | dossiers per country, buffer while scrolled, filter, loads and requests under way, WebSocket sessions; cached answers | loads, live messages, scrolling, the badge, choosing a country or category | overlapping loads and sessions, cached and late answers, handlers that see what was rendered | nothing shown is lost or multiplied; at rest the page shows what is stored; what is selected gets fetched |
| Shared notes (`api/routes/notes.py`, `src/components/SharedNotes.tsx`) | notes and their versions; per page its list, a list request, a WebSocket | create, edit, delete, expiry, broadcast, fetching and following | concurrent requests for one note; answers, messages and lists arrive in any order; lost messages; statements that raise between two commits; restarts | at rest a page shows what is stored; no needless copies; the history explains every text |
| Corroboration (`services/credibility.py`, `main.py`; not modelled) | stories, sources, statuses | match, update, persist loop, escalation gate | tasks started after each batch | a status follows its sources and is not lost at restart |
| Archive summaries (`services/summarizer.py`; not modelled) | cached summaries per version | generate, cache read and write | the version moves while a summary is computed | a cached summary covers what its version announced |

The remaining components of `PROJECT.json` (fetchers, REST queries, chat,
weather and risk, sessions, settings, the circuit breaker library, the legacy
Node server, Odysseus) hold no state the properties need or lie out of scope:
see [below](#what-is-not-modelled).

How they interact:

```
 providers --> fetchers --[breaker]--> article pipeline --+--> database <-- demo seeding
                                           |              +--> dedup keys, archive version --> summaries
 GDELT ------> GDELT worker ---------------+--> database
                    |                      |
                    v                      v
              Redis live_stream     memory_stream + Redis live_stream
                    |                      |            \
                    +---> redis_listener_task            SSE queues
                                 |
                                 v
    notes --(Redis)--> ConnectionManager --> WebSocket clients: dashboard, notes page
                                                  |                |
                       GET /api/news/all <--------+   GET /api/notes
                       (cached answers)
 uploads --> job store (Redis or memory) <-- workers;  chat panels poll it

 every Redis user --> get_redis_pool        every HTTP request --> rate limiter
```

`PROJECT.json` lists the hazards of this code, each at its line, with the
properties that cover it.

## Modules

Conventions that all modules share: an action reaches from one await to the
next; a variable with one entry per coroutine holds its locals; `pc` is where it
waits. Names of operators are those of the functions they stand for. Definitions
commented "Mutant of X" are wrong on purpose and used by nothing in the
specifications: they are variants of X with a plausible bug, and show that
the properties notice it. History variables are marked where they are declared
and guard no step.

### ArticlePipeline, ArticleStore

`ArticleStore` is the promise about one article: announced, then stored, then
(perhaps) marked as seen; marks can be lost, the rest cannot be taken back.

`ArticlePipeline` is the code of `classifier.py` for any number of workers, each
a coroutine with a database session of its own.

| Code | Model |
|---|---|
| `high_impact_articles` rows | `rows`, keyed by primary key; what was ever committed: `stored` |
| `drishya:dedup:*` keys | `dedup`; `ExpireKey` for the seven days or an eviction |
| `is_duplicate`, layer 1 / 2-3 | `CheckRedisKey` / `CheckDatabase` (a failing query counts as "no duplicate") |
| the SQLAlchemy session | `session[w]`: objects it holds and the columns it will update. A query does not refresh an object already held (identity map); `autoflush=False`, so an election is written by the next commit only; after a commit everything is reloaded |
| `cand_pri`, `ex_pri` | `prio[w]`: assigned in the branch for similar articles, read outside it, so they keep the values of an earlier article of the call |
| near-duplicate screening | `NoNeighbour`, `NearDuplicate`, `UnrelatedNeighbour`: the loop ends at the first comparable row whether it is similar or not, and which row is first the query does not say |
| lead election | `Elect`; `Reputations` ranks as `get_rep_priority` |
| `_publish_realtime` | `PublishAndCollect` adds to `published`, before the insert as in the code |
| INSERT and COMMIT | `InsertBatch` / `RollBack` by `Accepted`: UNIQUE on url for inserted and updated rows, updated rows still there |
| `_bump_archive_version`, `confirm_persisted` | `BumpArchiveVersion`, `ConfirmPersisted`, one step each since each awaits Redis |
| restart | `Crash`: locals and sessions are gone, database and Redis stay |

Abstractions: an embedding is one of a few vectors, and two are similar when
equal; zero or missing is `NoVec`. A title is compared only for equality, its
age by `recent` (an article does not grow old during a run). `redisUp` covers the
pool's cooldown: the caller cannot tell it from an outage. The branch taken on
SQLite is modelled: a query sees the last commit, near-duplicates are searched in
Python. `RowIds` bounds the table.

### DemoSeeding

Extends `ArticlePipeline` with `create_tables`. A worker at `"startup"` waits for
the lifespan hook; afterwards every worker may begin a cycle with it (`Calls`,
`Serve`). `CountArticles`, `DeleteArticles` (at `"delete"`), `InsertSeeds` (at
`"seed"`, the batches left in `todo`) and `FinishSeeding` are the separately
committed parts of `seed_data_if_empty`; `SeedingRaises` is a count, DELETE or
commit that raises, which `create_tables` logs before its caller goes on as ever;
`Restart` is a crash after which the hook runs again over the surviving table.
`short` is a history variable: since the table was last emptied, ingestion was let
on over more than one row below the threshold. All other steps are those of the
pipeline, so its run also shows the elections at work.

### ProviderBreaker

One provider. `Begin` is `allow()` and the first request; an answer and
everything it does up to the next await is one action: `Succeed`,
`Unauthorized` (401, 403), `Throttled` and `RateLimited` (429 before and at the
last attempt), `ServerDown` (5xx at its last attempt), `RequestFailed` (timeout,
earlier 5xx), `Unreachable`; `Wake` is the end of a backoff, after which the next
attempt goes out without asking `allow()` again. `mesh` is the last
`mesh_status` message on the memory stream, which is published in the same step
(the SSE streams, and the WebSockets after a fallback, show that one). It is about
the providers whose breaker lives as long as the process; the RSS fetcher makes a
fresh `CircuitState` per call (`ingestion.py:1114`). Time counts down in ticks, so `openFor = 0` is "now is
past `_open_until`". Counters saturate at their thresholds, with which alone they
are compared. No caller passes a `redis_url`, so the Redis half of
`CircuitState` is unreachable and left out. `authFor` is a history variable: the
time left of an authentication failure received while no other call was under
way.

### RateLimiter

`is_allowed` holds a lock and awaits nothing: a request is one step, `Admit` or
`Refuse`. `Bucket` is the pair of what `_get_limiter` (one limiter per limit) and
the middleware's key (client and path without its last segment) select.
`granted` is all a bucket ever let through, `log` what `_requests` still lists
of it; the code only sees `log`. Ticks are finer than seconds, because the
header is in whole seconds. The clock is monotone.

### SlidingWindow

The promise of a limiter, without lists: a request is let through if and only if
the whole history has fewer than the limit in the window that ends now, and a
refused client is told a fair time to come back (`FairlyTold`). `RateLimiter`
implements it (`ImplementsSlidingWindow`).

### LiveFeed

`listener` is `redis_listener_task`: connecting, listening, cut (Redis is gone
but received messages remain), sleeping five seconds, or fallback (its task ended
and its callback is subscribed to the memory stream). A `cast` is one run of
`broadcast` over a sequence of channels: `Snapshot` is `list(subscribers)`,
`SendText` one awaited send, `EndChannel` the disconnection of the dead. The
listener runs one cast at a time; a callback or a hook starts a task of its own.
`OpenStream`, `YieldEvent` and `CloseStream` are the SSE generator; closing one
that waits for its queue leaves it subscribed (`"leaked"`). Both WebSocket
routes put a connection on every channel, so a later `subscribe` message adds
nothing and one set of connections stands for all.

### RedisPool

The globals, and per caller what it awaits: the ping of the pool before the lock
or under it, the closing of a client, the lock, the ping of a new client.
`mine` is the client a caller awaits, which may no longer be `_pool`. `CutOff`:
closing a client ends other callers' pings of it with an error, or not. `Forget`
is what follows a failed ping: a caller that holds the lock creates a client, one
that came from the fast path goes to the lock. `OneCreator` relates the two paths:
only one call at a time creates a client, and the lock is never left behind.

### GdeltWorker, GdeltSchedule

`GdeltWorker` is `ingest_gdelt_events` run by the loop and by manual triggers:
`Fetch` (with the layer that drops repeated URLs in the export), `CheckIds`,
`CheckUrls`, `InsertBatch` (INSERT OR IGNORE, one commit per batch),
`ChooseBroadcasts`, `Announce`, `Finish`; `StatementFails` ends a cycle with an
error. `Others` are URLs the article pipeline stores in the same table.

`GdeltSchedule` is `gdelt_ingestion_loop` in time: the cycle (up to `MaxCycle`),
the interval, the backoff. One unit is 30 seconds.

### Dashboard

One open page. What the browser does in one handler is one action.

| Code | Model |
|---|---|
| `newsFeed` | `feed`: per country a list of signals, newest first, or `Missing` |
| `loadFeed` | a slot of `load`: `Answer` (first request), `Hydrate`, `Answer` again (after `POST /api/news/refresh`), `HydrateAgain`; `RefreshRefused` and `LoadFails` are its early ends; `loading` is the one flag all loads share |
| `GET /api/news/all` | `Listing`: the rows of the category, topped up to `Fill`, newest first; `cached` per category until `Expire` |
| the effect on `[selectedCountry, newsFeed]` | every change of the feed goes through `Updated`, which asks for the selected country when it has no dossier |
| `fetchCountryNews` | `fetches`, `FetchAnswered`, `FetchFails`: one country is merged into the feed |
| the WebSocket effect | a `socket` and a `wire` per session of the effect; `RenewUser` starts another one, and the `onclose` of the former reconnects all the same |
| `onmessage` | `Receive`: filtered by category, buffered while scrolled, else prepended and cut at `Cap` |
| `streamBuffer` and what is rendered of it | `buffer` and `badge`; `Release` shows the one and empties both |

The backend behind it is `Publish` (to every open connection, `Copies` messages
each) and `Store`, in either order, as `ArticlePipeline` and `GdeltWorker` show
that they come; message loss is `Cut`.

### SharedNotes

The four handlers of `routes/notes.py`, each step ending at a statement or commit:
`Create`, `Reread`, `AddVersion`; `ReadForUpdate`, `WriteUpdate`; `ReadForDelete`,
`DeleteRow`; then for all `Refresh`, `Publish` or `PublishFails`, `Respond`.
`RequestFails` is a statement that raises at any of these (what was committed
before stays) or an answer that is lost, `Restart` the end of the server with every
request and socket. A row
is its text and its author, since SQLAlchemy updates only the columns that
differ from what the session read (`Changed`). `GrowOld` and `CleanUp` are the
24 hours and the cleanup loop. A page is the list it shows (with how often it
shows a note), the list it has asked for, and its WebSocket: `StartFetch`,
`FetchAnswered`, `Receive` (`Merged`), `Respond`, `Cut` and `Connect`. `behind` and
`unversioned` are history variables: the pages that have a reason to differ from
the table, and the notes whose posting ended between its two commits.

### JobStore

`redis` and `memory` hold a record per id; `IdOf` maps a job to its type and
second. `Create`, then per update `Read` and `Write`, each ending at an await.
`held` is what a worker has read: its own copy, or (`Shared`) the very object that
memory holds, which it changes in place. `HSet` merges fields, as Redis does.
`UpdateRaises` is a Redis command that raises, the publish after the write
included; `Raised` is the worker's `except`, which writes `failed`. `Switch`
changes the store in use, `Restart` loses memory and workers. `Poll` is the chat
panel. `disturbed` is a history variable.

## Runs

Twelve runs, one per question. Numbers are distinct states.

| Run | Instance | Checks |
|---|---|---|
| `article_pipeline` (522,050) | two workers, batches `<A>`, `<B, A>` and `<A, A'>` (one URL for two countries), one fault | `DedupKeyOnlyAfterPersist`, `ImplementsStore`, `OfferedIsHandled` |
| `demo_seeding` (4,704,070) | one worker, two reports of one event, an unrelated article, a scraped one; two demo articles, threshold 2; two faults | `StoredUntilDeleted`, `OnlySeedingDeleted` |
| `provider_breaker` (1,146) | two calls, thresholds 3 and 2, up to four attempts | `DegradedMeansTripped`, `AuthCooldownHonoured`, `CallsEnd`, `ProviderComesBack` |
| `rate_limiter` (7,565) | two routes that share a list, limit 2, window of 6 ticks, 2 ticks a second, clock to 14 | `WindowLimit`, `RetryAfterNearlySuffices`, `ImplementsSlidingWindow` |
| `feed_order` (6,842,750) | two articles, two connections, one SSE stream | `AtMostOncePerChannel`, `RedisOrderKept`, `StreamIsExact`, `FollowersMissNothing` |
| `feed_live` (345,308) | an article, a GDELT event and a WebSub hook, one connection | `BroadcastsEnd`, `Reconnects` |
| `redis_pool` (2,750) | two callers, four clients, two faults | `OneCreator`, `CallersReturn`, `PoolRecovers` |
| `gdelt_worker` (76,394) | loop and manual trigger, two exports, one URL also stored by the pipeline, batches of two, one fault | `AnnouncedIsStored`, `AnnouncedOnce`, `CounterIsTruth`, `CounterNeverShort`, `LastUpdateIsStored` |
| `gdelt_schedule` (3,459) | the shipped times | `NoExportMissed` |
| `dashboard_feed` (539,653) | a watched country with a stored and a pushed signal of two categories, another country; two loads, two sessions, one change of choice, one fault | `ListsStayShort`, `SpinnerHasALoad`, `NoSignalMultiplied`, `NothingVanishes`, `FeedConverges`, `SelectedIsFetched` |
| `shared_notes` (6,116,644) | one page, one note; two requests at a time, two edits, a deletion, two faults | `ShownIsRecorded`, `AgreesAtRest`, `CopiesOnlyOfOwn`, `HistoryKnowsColumns` |
| `job_store` (1,323,561) | two jobs of one second, two stages, two polls, two faults | `CompletedHasResult`, `NotFoundMeansMoved`, `JobsSettle` |

The type invariants of all modules are proved for all constants
([below](#proofs)) and not checked again.

What they show, and why the bounds are enough:

* **article_pipeline.** A key in Redis always stands for a committed URL, the
  pipeline implements `ArticleStore`, and a batch that keeps being offered is
  handled. Two workers with overlapping batches are the least that lets one
  commit between the other's filter and its insert, and the batch of two is the
  least that can fail because of one of its rows. One fault is a failing
  statement or a crash, at any moment. A and B are about two events, so that the
  only near-duplicate of an article is the copy another worker has just stored, and
  an election leaves the lead as it is. `OfferedIsHandled` is promised to batches
  in which a URL occurs once and that report events no other URL reports
  (`DistinctBatch`). A fetch for several countries joins their articles without
  comparing URLs, so one article may come for two of them: the table then refuses
  the whole batch at every offer, until another batch brings that URL. The instance
  has such a batch beside the others, and without that condition the property is
  violated in it. An election that changes a lead may have the same effect
  ([divergences](#known-divergences)), once an embedding model is installed: the
  shipped requirements hold none.
* **demo_seeding.** Two questions about one table. With one session at a time no
  stored URL is lost while the table stands: an election moves it to
  `also_reported_by`, in whatever order reports, better reports, roll-backs,
  scraped articles, restarts and failing seedings come (`StoredUntilDeleted`).
  Three URLs are needed: a lead, a challenger, and an unrelated article that makes
  the session commit. (With two sessions a URL can be lost:
  [divergences](#known-divergences).) And emptying the table takes demo articles
  only, unless ingestion was let on over more than one row below the threshold since
  it was last emptied (`OnlySeedingDeleted`). That is so after a seeding that did not
  reach the threshold, or that raised and was swallowed by `create_tables`; then the
  next cycle does delete ingested articles. One row below the threshold is still
  safe, and the boundary is what the property is about: the first article that is
  stored fills the table.
  Only the order of row count, threshold and seeds matters, so one-article batches
  and small thresholds stand for them: seeding makes ten articles per country, with
  `node_modules/world-countries` installed (250 countries) 2500, above the threshold
  of 2000, with the built-in list of 30 countries 300, far below it; the Docker image
  has only the latter. Threshold and seeds are equal in the instance, so that a
  restart between the two inserts or a refused batch leaves a table below it, and a
  fault more makes the seeding raise. The theorems hold for any threshold and any
  demo articles.
* **provider_breaker.** Two calls are enough for one to answer between another's
  `allow()` and its answer. The relation of thresholds, attempts and cooldowns is
  kept (authentication longest). The shipped attempts are 4, 3 and 2.
* **rate_limiter.** The clock reaches more than two windows, so requests leave
  the list and others refill it; two ticks a second make the rounding visible.
  `ImplementsSlidingWindow` compares every decision with the one the whole history
  would give: pruning, at whatever calls it happens, changes none.
* **feed_order, feed_live.** `FollowersMissNothing` is about the step that ends a
  channel of a broadcast: peers that fail, leave or connect in the middle cost no
  other connection the event. So `feed_order` has two connections, one of which
  follows while the other comes and goes; two events, because order and repetition
  are about pairs, both articles, which use both channels and both paths; and a
  stream, which lives on the memory path beside the fallback of the WebSockets.
  `feed_live` has the three kinds of publishers, since liveness is about the tasks
  that each of them starts, and one connection that vanishes is enough to keep a
  broadcast from ending. All outages, reconnections and the fallback are included,
  without a bound.
* **redis_pool.** `MaxFaults` bounds outages and pings that a close cuts off: with
  unboundedly many, no recovery could be promised. Four clients are enough for a
  caller to await one that is no longer `_pool` while another is created.
* **gdelt_worker.** The exports repeat two events, two events cite one URL, one URL
  belongs to the article pipeline as well. `AnnouncedOnce` and `CounterIsTruth`
  are promised only while `undisturbed`: no cycle was overlapped, failed in the
  middle, or saw an article stored under it. Otherwise they are wrong:
  [divergences](#known-divergences). `CounterNeverShort` needs only that no
  statement failed: cycles that overlap count a row twice, never not at all.
* **gdelt_schedule.** The constants are the shipped ones, in units of 30 seconds:
  interval 300 s, backoff 30 to 300 s, an export every 900 s. `MaxCycle` 90 s
  bounds downloads with their timeouts. "Missed" means never polled; a poll whose
  download fails counts as a poll.

* **dashboard_feed.** Two overlapping loads and two sessions are the least that can
  interfere; one change of the category, the country or the scroll position
  during them is what makes an answer late or a buffer full. `Cap` 2 and `Fill` 1
  stand for 100 and 5, so that lists are cut and topped up with two signals.
  `ListsStayShort`: sessions that deliver once more and releases of the buffer do
  not make a list grow beyond the cap or what is stored of its country.
  `NothingVanishes` names the only ways for a signal to leave the screen.
  `FeedConverges` says that late and cached answers, however they overwrite newer
  state, are repaired by the refresh timer.
* **shared_notes.** All interleavings of two requests for one note with a page that
  fetches and follows: edits overlapping edits, the posting and the deletion, the
  cleanup, a lost message or answer, a statement that raises after a commit, a
  restart of the server. Notes are independent of each other but for the list, so
  one is enough. With two faults a posting may end between its commits and its
  editor still lose a message. `behind` lists what may make a page differ: a message
  that was lost or never sent (no socket, no Redis, a request that raised or died
  after its commit), a list that failed or was under way during a commit, and two
  requests for one note that overlapped; a list that is asked for while nothing is
  under way ends it. The run shows that nothing else makes a page differ, not that
  those do not: an overlap is excused altogether. `HistoryKnowsColumns` excuses the
  text and author that a posting stored which ended between its two commits, and
  nothing an edit wrote. `ShownIsRecorded` excuses nothing but the posted text:
  however stale a page is, the history explains what it shows.
* **job_store.** Two jobs of one second share a record; with two faults any two of
  raising commands, outages and a restart meet. Two stages and two polls are the
  least with a middle.

A deadlock check runs in every run except `job_store`, which really stops: jobs,
polls and faults are finite there. No run uses `SYMMETRY`.

## Fairness

Liveness is checked under `FairSpec`, always on the program's own steps, never on
outages, arrivals or clients.

* **ArticlePipeline**: weak fairness per worker on `Proceed`. A coroutine whose
  await completes is resumed by the event loop; database statements and Redis
  commands return or fail. Nothing makes batches arrive: `OfferedIsHandled`
  assumes that this batch is offered infinitely often, as the periodic loop does
  for articles its providers still list.
* **ProviderBreaker**: requests have timeouts, sleeps end, the clock runs. Nothing
  is assumed of which answer comes. New calls are not promised.
* **LiveFeed**: the listener's task and each broadcast go on. A send to a peer
  that vanished returns or raises; it may not do neither, which is what the
  sockets' own timeouts give.
* **RedisPool**: callers are resumed and call again (the loops do), the cooldown
  ends, and the lock is strongly fair, since `asyncio.Lock` wakes its waiters in
  order.
* **Dashboard**: answers arrive (`Answer`, `Hydrate`, `HydrateAgain`,
  `FetchAnswered`; a lost one is a fault), the refresh timer fires again and again
  (the page is visible), cached answers expire, messages are handled. Nothing
  makes the reader, the backend's pushes or a reconnection happen.
* **JobStore**: workers run on (`Proceed`, which includes raising). Neither panels
  nor Redis are promised to do anything.
* **GdeltWorker**: cycles under way go on; `LastUpdateIsStored` assumes that some
  runner fetches again and again.

## Proofs

Proved with TLAPS for all values of the constants, under the named assumptions
of the modules (types of the constants, and where listed more).

| Theorem (module) | States | Argument |
|---|---|---|
| `DedupKeySafety` (ArticlePipelineProofs) | `Spec => []DedupKeyOnlyAfterPersist` | inductive `QueueOK /\ InHand /\ Carried` |
| `PipelineImplementsStore` | `Spec => ImplementsStore` | each step maps to a step of `ArticleStore` or a stutter, given the same invariant |
| `OneWorkerKeepsTrace` | one worker: `Spec => []StoredStaysTraceable` | `TraceInv`, below |
| `SeedingDeletesSeeds` | one worker: `SeedSpec => OnlySeedingDeleted` | `SeedInv`, below |
| `SeedingKeepsTrace` | one worker: `SeedSpec => StoredUntilDeleted` | `SeedInv`, with `TraceGrows` of the steps of ingestion |
| `PipelineTypeOK` | `Spec => []TypeOK` | `QueueOK /\ InHand /\ TableOK`, with lemmas on `Elect`, `Loaded`, `Flushed`, `AfterCommit` |
| `MeshStatusSound` (ProviderBreakerProofs) | `Spec => []DegradedMeansTripped` | inductive with `TypeOK` |
| `AuthDisables` | `Spec => []AuthCooldownHonoured` | `QuietWhileDisabled`: while the time runs no call is under way |
| `BreakerTypeOK` | `Spec => []TypeOK` | part of the same induction |
| `WindowLimitHolds` (LimiterAndPoolProofs) | `Spec => []WindowLimit` | `IInv`, below |
| `RetryAfterHolds` | `Spec => []RetryAfterNearlySuffices` | `TInv`, below |
| `LimiterImplementsWindow` | `Spec => ImplementsSlidingWindow` | the list has the requests of the window, no more and no fewer, when it decides |
| `LimiterTypeOK` | `Spec => []TypeOK` | part of the same induction |
| `OneCreatorHolds` | `PoolSpec => []OneCreator` | inductive with `PoolTypeOK`, below |
| `PoolTypeCorrect` | `PoolSpec => []PoolTypeOK` | part of the same induction |
| `EveryExportIsPolled` (GdeltProofs) | `ScheduleSpec => []NoExportMissed` | `ScheduleInvariant`, below |
| `ScheduleTypeCorrect` | `ScheduleSpec => []ScheduleTypeOK` | part of the same induction |
| `AnnouncementsAreStored` | `Spec => []AnnouncedIsStored` | `StoredOK`, below |
| `ArticlesAreAnnouncedOnce` | `Spec => []AnnouncedOnce` | `UndisturbedOK`, below |
| `CounterCountsRows` | `Spec => []CounterIsTruth` | `UndisturbedOK` |
| `CounterNeverBehind` | `Spec => []CounterNeverShort` | `Counted`, below |
| `WorkerTypeOK` | `Spec => []TypeOK` | the types of the cycles and of `Keep` |
| `CompletedJobsHaveResults` (JobStoreProofs) | `Spec => []CompletedHasResult` | `StoresOK /\ WorkersOK /\ PanelsOK`, below |
| `PanelsFindTheirJobs` | `Spec => []NotFoundMeansMoved` | `FoundOK`, below |
| `JobsTypeOK` | `Spec => []TypeOK` | part of the same induction |
| `NoNeedlessCopies` (SharedNotesProofs) | `Spec => []CopiesOnlyOfOwn` | `IInv`, below |
| `PagesAgreeAtRest` | `Spec => []AgreesAtRest` | `AInv`, below |
| `HistoryIsComplete` | `Spec => []HistoryKnowsColumns` | `ColumnsKnown` with `AllRecorded`, below |
| `WhatIsShownIsRecorded` | `Spec => []ShownIsRecorded` | `AllRecorded`, below |
| `NotesTypeOK` | `Spec => []TypeOK` | part of the same induction |
| `SentAtMostOnce` (LiveFeedProofs) | `Spec => []AtMostOncePerChannel` | `IInv`, below |
| `SentInOrderOfRedis` | `Spec => []RedisOrderKept` | `OInv`, below |
| `NoFollowerIsPassedOver` | `Spec => FollowersMissNothing` | `NobodyPassedOver`, below |
| `StreamsSendTheLog` | `Spec => []StreamIsExact` | `StreamsOK`, below |
| `FeedTypeOK` | `Spec => []TypeOK` | part of the same induction |
| `SpinnerStops` (DashboardProofs) | `Spec => []SpinnerHasALoad` | inductive with the types of loads and answers (`BackendOK`, `LoadsOK`): a load that goes on keeps its slot |
| `SignalsAreNotMultiplied` | `Spec => []NoSignalMultiplied` | `CountOK`, below |
| `ListsDoNotGrow` | `Spec => []ListsStayShort` | `Short` and `AnswersOK`, below |
| `SignalsDoNotVanish` | `Spec => NothingVanishes` | `BadgeOK`, below |
| `DashboardTypeOK` | `Spec => []TypeOK` | part of the same induction |

Why the invariants need strengthening:

* *Pipeline.* `dedup \subseteq stored` says nothing of the URLs a worker is about
  to confirm. `Carried` adds that what a worker confirms was stored and that what
  it collected was announced, across crashes. `InHand` says that a worker at the
  database check has an article in hand. The refinement needs both: an insert is
  a `Persist` step only because its URLs were announced. `StoredStaysTraceable` is
  about the table, but an election changes what a session holds of a row, and a
  commit writes whole columns of it. `SessionsOK` relates the two: what is held has
  forgotten no URL of the row, and a column that will not be written is what the
  table has (`HeldOK`). A second session breaks exactly this, so the theorem assumes
  one worker and TLC shows that two lose a URL. It needs no fault-free run: crashes
  and roll-backs throw away the session, never a row.
* *Demo seeding.* What the DELETE takes is decided at a step that knows nothing of
  how the table became short. `SeedInv` carries that along. `TableSize`: unless
  ingestion was let on too early (`short`), a table below the threshold holds demo
  URLs only. `Waits`: while a seeding is under way no session is open, and what the
  table holds is demo articles. `Works`: a worker let on in time works on a table
  that lacks one row at most, so that the first row it inserts fills it. Hence
  what a later seeding finds too short has stored nothing, or `short` is set. No
  condition is put on the number of demo articles or on faults: a built-in list of
  300, a batch that is refused and a count or DELETE whose failure `create_tables`
  swallows set `short` if the table is left that short, and `StoredUntilDeleted`
  says what holds then too: the DELETE is the only step that forgets a URL. Both
  assume one worker: another could commit between the count and the delete.
* *Rate limiter.* `WindowLimit` is about what was granted, the code looks at a
  pruned list. `IInv` adds that grants are in order of time and that none still
  inside the window was pruned (`Listed`). `TInv` adds that a list is never longer
  than its limit and that, one second after the time a refused client was told, some
  listed request has left the window (`ToldOK`; the minimum over the list comes from
  the well-foundedness of `<`). The key lemma, `RoomMeansOld`: if the
  list has room, the request `limit` places back has left the window, since all
  that followed it would be listed and fill the limit. It counts an interval of
  indices, with the theorems on cardinalities. For the refinement, a request prunes
  before it decides, and what is left of the list is the window of the whole history
  (`WindowIsRecent`): nothing inside was pruned before, nothing outside is left.
* *Redis pool.* A ping and a closing occur before the lock and under it; what tells
  them apart is `lock` alone. `OneCreator` is inductive with the types because it
  names every place the holder can be at, and because a failed ping creates a
  client only for the holder (`Forget`).
* *Schedule.* `Behind` is the longest time from the end of the current phase to
  the next poll. `InTime`: an export that was not polled has age + left + Behind
  below the period. It is preserved because the slowest round, `MaxCycle +
  MaxBackoff + Interval`, fits (`RoundFits`); with the shipped times 90 + 300 +
  300 <= 900 seconds.
* *Breaker.* An authentication failure trips the breaker for the longest
  cooldown, but any call already under way may overwrite it; the promise is the
  one for the last call under way, and holds because `Begin` asks `allow()`.
* *Jobs.* `CompletedHasResult` is about the stores and the panels, but what is
  written next is in the hands of a worker: a copy it has read, or the object in
  memory that another worker may change under it. `Kept` says of every record
  anywhere that it is complete and that its result belongs to its id; the stores,
  the workers (`Work`) and the panels keep only such records. The lemmas show it
  for each way a record is made: anew, merged field by field, given new fields.
  `FoundOK` adds that the record a panel polls for can be read from the store in use,
  unless Redis came or went or the server restarted since the id was given out.
* *Notes.* A note that its page already shows twice would be shown thrice by the
  answer to its posting. `CopiesOK` adds that it is shown twice only once that
  answer was given; `HandlersOK` that there is one posting per note, made by the
  page that posted it; `Underway` and `Sendable` what requests and messages carry
  at each place, so that a list is only ever given rows. `ColumnsKnown` says of each
  stored note that its text and its author are recorded or in the hands of a
  handler that will put them there. When that handler dies, `AllRecorded` (below)
  knows of the row it leaves that each column was posted or has a version. `AgreesAtRest` is about a page where nothing is
  under way; `AInv` says what such a page relies on before (`Ready`): the messages
  for a note are in the order of the commits, the last of them, or the list under
  way, carries what is stored, and a commit whose message is still to be sent is the
  only one past its write. A request that dies before its commit or after its message
  changes none of this (`RequestsGone`); one that dies in between leaves every page
  behind. `ShownIsRecorded` is about pages, which show what a list,
  an answer or a message brought: `AllRecorded` says it of every row in the table,
  held by a request, in an answer, in a message or on a page (`Carried`). Steps carry
  rows from one of these places to another; new ones come only from the posting and
  from an edit, whose columns are the row's own or those of the version committed
  with it.
* *Live feed.* What a connection was sent says nothing of what is still to come.
  `BufferOK` and `InboxOK` add that an event is in one place: unpublished, on its
  way to Redis, in the buffer, with the listener's broadcast, or sent; `CastOK` that
  a broadcast has nothing left that was sent; `ListenerOK` that the two ways
  exclude each other, since memory is used only after the fallback, from which
  the listener never returns. `OneCarrier` draws the conclusion: no two
  broadcasts carry an event to the same channel. `OInv` relates places by the log of
  Redis: what was sent comes before what is being broadcast, and that before what
  waits. `NobodyPassedOver` says of a connection that is open and was ever sent
  something on the channel under way that it is still among the targets or was sent
  the event: one that opened after the targets were fixed has heard nothing on it
  yet, since nobody but the listener's broadcast sends there. `StreamsOK`: what an SSE stream was sent, followed by its queue, is the
  stretch of the in-memory log since it was opened.
* *Dashboard.* Whether a push is shown twice depends on the copies on the way.
  `CountOK` counts them together with the buffer and the page: at most `Copies` per
  WebSocket session, and one more for the signal a load may bring. `BadgeOK`, what
  is rendered of the buffer is its beginning, is what keeps "show new" from adding
  what was not counted. `Short` bounds the list of a country by the cap or by what is
  stored of it. It needs `AnswersOK`, that what is cached and what loads hold is
  stored, since an answer may be as long as the table's share of the country; a live
  message prepends and cuts at the cap, a release cuts the same way, and the table
  only grows.
  `NothingVanishes` goes through the actions: only an answer
  that replaces a list, or a full list, takes a signal away. The order of signals is a
  constant (`NewestFirst`), assumed to list a set's signals once each and to
  respect subsets, as sorting by time does.
* *GDELT cycles.* `CandidatesOK`: what is still to insert is what follows the
  candidates inserted. `StoredOK`: what was inserted, or is about to be announced,
  is in the table, whoever stored it. That an article is announced once, and that the
  counter is the number of rows, hold only until a second run or a fault interferes
  (`undisturbed`); until then one cycle is under way and its candidates have
  distinct URLs that were not announced, what is left of them is not in the table,
  and the counter and what it inserted make up the table (`AloneOK`).
  `CounterNeverShort` allows overlapping cycles, so it needs what they will still add
  to the counter: the rows are no more than the counter and what the cycles under way
  have inserted, each by its own count (`Counted`, pairs of a run and a number, since
  the sum over the runs is a recursion the prover cannot use). An insert adds at most
  as many rows as it counts, and the end of a cycle moves its count to the counter.
* *Recursive functions.* `Prepending` of Dashboard and `Keeping` of GdeltWorker are
  defined along a sequence. The prover has no induction to show that such a function
  exists, so the lemmas assume that there is none, take the least length at which it
  fails, with the well-foundedness of `<`, and extend the one that exists below.
  Bounds on what the function returns are shown by the same argument.

Only model-checked: the liveness properties, because fairness and ENABLED are
beyond the prover: `OfferedIsHandled`, `CallsEnd`, `ProviderComesBack`,
`BroadcastsEnd`, `Reconnects`, `CallersReturn`, `PoolRecovers`,
`LastUpdateIsStored`, `FeedConverges`, `SelectedIsFetched`, `JobsSettle`. Every
other property of the runs is stated by a theorem.

## Known divergences

Met while modelling. The properties of the runs are stated so that they hold in
spite of these; where a property excludes a case, or an instance is small in one
direction, this is why.

Pipeline, seeding, providers, feeds:

| Where | The code | What is said |
|---|---|---|
| `classifier.py:986` | `also_reported_by` is read with the row, extended in memory and written by a later commit: two sessions that merge into one row overwrite each other's list, and a lead that one demoted is then in no row (with two workers `StoredStaysTraceable` is violated) | the comment at `:966`: demoted to `also_reported_by` |
| `database.py:210` | `run_ingestion_cycle` calls `create_tables`, and below 2000 rows that deletes the whole table, ingested articles included, whose dedup keys then keep them out for a week; with the built-in list of 30 countries, the only one in the Docker image, seeding makes 300 rows, so that it happens at every cycle until ingestion has filled the table (`OnlySeedingDeleted` excuses it by `short`) | the comment at `:208`: old seeding |
| `database.py:538` | a count, DELETE or commit of the seeding that raises is logged, and the caller goes on over the short table; the next cycle deletes what it stored | the same comment |
| `main.py:1242` | up to all countries without signals are fetched by concurrent tasks that store through one shared session | SQLAlchemy's: a session is not for concurrent tasks |
| `classifier.py:964` | the election runs for an unrelated row as well, on `cand_pri` and `ex_pri` of an earlier article: one article can replace another, or be listed as reporting it, and is inserted in addition | the log line at `:1003` calls it a near-duplicate |
| `classifier.py:975` | after such a merge the updated row and the insert carry one URL; the whole batch is refused, every time it is offered | the filter at `:1071` exists "to avoid batch integrity errors" |
| `classifier.py:1082` | `fetch_global_news` (`ingestion.py:1146`) joins the articles of all countries without comparing URLs, and the filter compares with the table only: one URL fetched for two countries is in the batch twice, and the whole batch is refused each time it is offered, until another batch brings that URL | same comment |
| `classifier.py:1014` | articles are announced before the insert, and stay announced if it fails | `README.md:80`: "immediately after DB insert" |
| `ingestion.py:437` | persisting 5xx answers trip the breaker without a message | `ingestion.py:375`: clients are notified of a state change |
| `ingestion.py:395` | the Redis copies of two calls' messages follow awaits of their own and may overtake each other: "degraded" can stay on the screens after the recovery. The model ends at the memory stream, where this cannot happen | `ingestion.py:375` |
| `ingestion.py:444` | another call's late answer resets or shortens the cooldown of a 401 | `ingestion.py:416`: disabled for the cooldown |
| `ingestion.py:142` | only throttles that outlast their retries count, and five of them open the breaker | `system_report.md:100`: three consecutive 429 |
| `rate_limiter.py:65` | Retry-After is rounded down: a client that obeys may be refused | the header's own meaning: when to try again |
| `rate_limiter.py:149` | the limit applies per parent path | the docstring at `:86`: per route category |
| `main.py:797` | SSE carries only what goes through the memory stream: articles | docstring at `:783`: "all live events" |
| `main.py:808` | a stream that is cancelled while it waits for its queue is not unsubscribed: the queue goes on filling (`"leaked"` in the model; no property forbids it) | the `except` at `:808` unsubscribes |
| `main.py:766` | once Redis was reached, an outage silences the WebSockets: no fallback | docstring at `:719` |
| `main.py:772` | once it has fallen back the task ends and never reconnects | the same docstring |
| `redis_pool.py:43` | `_pool` is reset outside the lock: two clients can be in use at once | docstring at `:4`: "single" |
| `gdelt_worker.py:521` | mappings are counted, those the database ignored included | `observability.py:140`: "persisted to database" |
| `gdelt_worker.py:520` | rows committed before a later batch fails are known to the next cycle and never announced | `README.md:87`: pushed after insert |
| `gdelt_worker.py:605` | the backoff doubles before the first sleep: 60 s | `README.md:90`: 30 s first |

Dashboard (`src/App.tsx`):

| Where | The code | Consequence |
|---|---|---|
| `main.py:745` | an article is broadcast on two channels, every connection is on both, and `App.tsx:1478` compares no URLs | it is shown twice until the next load; `NoSignalMultiplied` counts `Copies` |
| `App.tsx:1537` | the `onclose` of a session that was cleaned up connects again | each renewal of `authUser` adds a session that delivers everything once more |
| `App.tsx:1719` | the whole buffer is emptied, but what is shown is what was rendered of it | a signal that comes in between is unseen until the next load |
| `App.tsx:1671` | one flag for all loads | the first to end clears the spinner of the others; `SpinnerHasALoad` claims one direction only |
| `App.tsx:1652` | the feed is replaced, countries outside the watchlist included | they are empty until fetched again, which only the selected one is |

Shared notes:

| Where | The code | Consequence |
|---|---|---|
| `SharedNotes.tsx:124` | the answer to a posting is put in front without comparing ids | its message, or a list, may hold the note already: shown twice |
| `SharedNotes.tsx:84` | after a reconnection the list is not fetched; after the page is left the timer still reconnects | what was sent meanwhile stays unseen (`behind`) |
| `SharedNotes.tsx:40` | a list that was under way replaces what messages brought | newer notes disappear until the next fetch |
| `notes.py:74` | the note is committed before its first version (`:77`) and its message: a second commit or a refresh that raises, or a restart in between | the note is stored without a version and no page is told; the caller reads an error |
| `notes.py:110` | an edit reads the row and writes the columns it changes | two edits may leave one editor's text under the other's name, and the later message may carry the older state |
| `notes.py` (all handlers) | the messages of two requests for one note are sent in any order, or not at all without Redis | a note may come back on the screens after its deletion |
| `main.py:506` | the cleanup sends no message | expired notes stay on open pages |

Background jobs:

| Where | The code | Consequence |
|---|---|---|
| `job_store.py:68` | an id is the type and the second | two uploads of a second share a record, and a panel may show the other's result; all URLs of one submission to the scraper do |
| `job_store.py:105` | the record is written, then published; a publish that raises ends in the worker's `except` | a completed job becomes a failed one |
| `job_store.py:89` | without a record an update starts a blank one in the store of the moment | a job completed while Redis was away is invisible once it is back: the panel times out |
| `main.py:32` | nothing resumes jobs at startup | a record in Redis stays unfinished for ever |

In parts that are not modelled: `data_to_signal` looks a story up by
`md5(title + country)` (`main.py:683`), a key the engine never uses
(`credibility.py:340`), so that every signal is "single_source". A restart empties
the engine, and `_corroboration_persistence_loop` (`main.py:522`) then overwrites
a persisted story with the fewer sources it has seen since. GDELT events and demo
articles raise no archive version, and an outage skips the bump, so that cached
summaries miss them until they expire. Parts of a recursive summary that
fail are left out, and the rest is cached (`summarizer.py:195`).

## What is not modelled

* The pgvector branch of the pipeline (`classifier.py:860-897`), which PostgreSQL
  takes when pgvector is installed: it differs in how candidates are found, and finds
  none as long as no embedding model is installed.
* Text classification (`route_article`): labels that nothing here depends on.
* Fetchers, REST queries, chat, weather, alerts, risk: conversions and reads
  without state of their own beyond caches.
* `CircuitBreaker`, `retry_with_backoff` (`services/circuit_breaker.py`): no
  fetcher uses them. `cleanup()` and `BruteForceProtector` of the rate limiter:
  nothing calls them.
* Of the dashboard: `job_update` and `mesh_status` messages, the error text, the
  time window (it filters as the category does), the live fetch that
  `/api/news/all` makes for countries without any signal, and what only draws.
* Of the job store: `subscribe` and its streams, which nobody sends to clients.
* Of the GDELT worker: the seeding that may empty the table it inserts into
  (`database.py:210`); in `GdeltWorker` no row is deleted.
* Corroboration and archive summaries: see the plan.
* Sessions and login: out of scope, this is about the data flow.
* Odysseus (`odysseus/`, a separate project that Drishya does not refer to) and
  the legacy Node server (`server/`, no script starts it). Together with scripts
  and generated pages they make up most of the repository's lines; what runs of
  Drishya is the Python backend and the dashboard in `src/`.
* Libraries are taken at their word: SQLAlchemy sessions, SQLite's isolation,
  redis-py, asyncio, React's rendering. The module comments say what is assumed
  of them.

## Plan

Done: the modules above, their runs and the theorems listed.

Left, in this order:

1. **ArchiveCache**: summaries cached under the version read at the beginning of
   a request, composed with ArticlePipeline. A cached summary covers every row
   that was there when its version came. The composition was measured: with two
   workers and without embeddings 3.8 million states, with the elections and the
   demo seeding 8.8 million and only one request, so it wants an instance of its
   own, beside `article_pipeline`.
2. **Corroboration** and escalation: statuses follow sources; nothing escalates
   twice; a restart loses no persisted story (which the code does not keep).
3. Pure algorithms against reference definitions: risk scoring, the ranking of
   reputations, code mappings.

The runs are kept few: a new one takes the place of one whose question it
includes, as `demo_seeding` includes the elections.
