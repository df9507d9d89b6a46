# MIR-FeedX: TLA+ models, checks and proofs

MIR-FeedX crawls Tumblr blogs into PostgreSQL, classifies and embeds the posts,
indexes the vectors in Qdrant and serves four kinds of search over HTTP. This
directory models the parts of it in which several processes share state (the
crawl, the processing of posts, the API client, the search with its cache, the
communities, the vector store and the indexer) and the pure functions that rank
and embed. Paths are relative to the repository; `crawler.py` is
`mir/ingestion/crawler.py`, `tasks.py` is `mir/workers/tasks.py`, and two files
that share a name are given with their directory.

## 1. The system

| Component | State | Operations | Interacts with |
|---|---|---|---|
| Crawler (`ingestion/crawler.py`) | `crawl_state` rows (status, cursor `last_timestamp`, `fail_count`), `posts`, `tags`, `accounts`; the session's copies of rows | `crawl`, `_crawl_blog`, `_crawl_tag`, `_pause_active_blogs`, `_discover_blogs`, `_persist_post` | started by `crawl_blog`; calls the API client and the downloader |
| Celery tasks (`workers/tasks.py`, `celery_app.py`) | broker queues, retries of a message | `crawl_blog`, `crawl_active_blogs`, `process_post`, `process_post_images`, `reindex_all`, `rebuild_communities`, `nightly_optimize`, `cleanup_cache`, `record_dead_letter` | Beat and the dashboard enqueue; tasks write PostgreSQL, Qdrant, the disk |
| API client (`ingestion/client.py`) | key index, cooldowns, token bucket in Redis | `_next_key`, `_acquire_token`, `_request` | called by the crawler |
| Image downloader (`ingestion/images.py`) | files under `data/raw_images` | `download_post_images` | called by the crawler, its files are read by `process_post` |
| NSFW classifier (`processing/safety.py`) | blocklist | `is_image_nsfw`, `is_text_nsfw`, `classify_post` | called by the two processing tasks |
| Text, image, fusion (`processing/text.py`, `images.py`, `embeddings.py`) | embedding cache in Redis | chunking, embedding, projection | called by `process_post` |
| Communities (`processing/communities.py`) | `communities` rows | `rebuild_communities` | nightly, and by an administrator |
| Vector store (`search/vector_store.py`, `api/app.py`) | Qdrant collections and points | create, upsert, search, delete, optimize | created when a process of the API starts, written by `process_post`, read by searches |
| Post indexer (`processing/embeddings.py`) | points of posts, accounts and tags; `accounts.embedding`, `tags.embedding` | `process_and_index_post`, `update_account_embedding`, `ensure_collections` | used by the tests only; what it promises is modelled with the task beside it |
| Searches (`search/general.py`, `tags.py`, `account_name.py`, `communities.py`) | none | RRF, re-ranking, pagination | PostgreSQL and Qdrant |
| Search cache (`search/cache.py`) | Redis keys with TTL | get, set, clear | wraps the four search endpoints |
| API and dashboard (`api/`) | none | `reset_dead`, `seed_crawl`, `trigger_crawl`, admin operations, health | writes `crawl_state`, enqueues tasks |

What is hard in it:

* **Overlapping tasks.** Celery acknowledges late and redelivers; Beat enqueues
  every active blog, and each `crawl_blog` task goes through *all* blogs. Two
  workers are therefore regularly on one blog, each with its own session.
* **Stale copies.** A session keeps the `CrawlState` objects it has loaded
  (`expire_on_commit=False`) and its commit writes the columns that it changed.
* **Several transactions per step.** The cursor is committed before the page;
  the Qdrant point is written before the row; a file is created before it is
  filled. A crash between the two leaves half.
* **Derived data that is stored.** A cached page, a page cursor, an account's
  vector and a table of clusters are computed from a state that moves on.
* **Time.** Cooldowns and buckets are compared with clocks that differ from host
  to host and are corrected either way, by clients that come and go with their tasks.
* **Checks before a wait.** The threshold, the `nsfw` flag and the existence of
  a blog are read in one transaction and used in another.

What makes the components correct, in a line each: the crawl loses no post but
those a crash takes with it, stays within the target and always ends; NSFW posts
leave the index and do not come back; the client respects each key's rate and
reports when no key is left; a cached response is never older than its TTL; pages
of one search neither overlap nor skip while nothing moves the list; a rebuild
of the communities leaves one set of clusters, which is complete; the vector of
an account is the mean of its newest posts, and that of a post holds all of it.
Where the code keeps less than that, the properties say how much less, and
section 3 lists the differences.

## 2. Modules

| Module | What it is |
|---|---|
| `Crawl` | `crawl_blog` and the crawler inside it, on the tables, with Beat, the dashboard and the failures |
| `CrawlBudget` | abstract specification: the soft cap that the threshold guards promise |
| `CrawlBudgetProofs` | the cap for any pool, target and page size |
| `CrawlProofs` | type correctness of `Crawl` and the sessions' bookkeeping, by induction; `Crawl` implements `CrawlBudget`, hence the cap for `Crawl` |
| `CrawlCoverage` | what the crawl does not lose: posts passed by a cursor, rows, sources, verdicts; the price of an abort; failures and cursors, whatever sessions overlap |
| `MCCrawl` | instances of `Crawl` for TLC |
| `PostPipeline` | downloads, `process_post`, `process_post_images`, `reindex_all`, Qdrant, dead letters |
| `PostPipelineProofs` | types, safety of the vectors, repair after a crash, writes after a verdict |
| `MCPostPipeline` | instances of `PostPipeline` for TLC |
| `TumblrClient` | key rotation, cooldowns and the token bucket shared in Redis |
| `TumblrClientProofs` | types, the rate of each key, the rest of refused keys |
| `GeneralSearch` | ranking and paging of the general search, as functions |
| `SearchApi` | the search handler and its cache, over `GeneralSearch`, with readers, new posts, verdicts and time |
| `Resolvers` | answers of the tag, account and community searches, as functions |
| `MCSearch` | instance of `SearchApi`, and `Resolvers` on all small inputs |
| `SearchProofs` | the ranking as a permutation, pages as pieces of it; types, verdicts that take effect, walks that partition, the scores of the other searches |
| `Communities`, `MCCommunities` | the nightly rebuild, overlapping with itself and with indexing |
| `CommunitiesProofs` | types, one carrier per message, duplicates only by overlap, complete scrolls |
| `VectorStore` | the collections, created by processes of the API that start together |
| `PostIndexer` | the indexer over `VectorStore`, with the task `process_post` beside it |
| `TextProcessor`, `ImageProcessor` | windows of a text, rows of a batch of images, as functions |
| `PostEmbedding` | the vector of a post, put together from the two |
| `MCIndex` | instance of `PostIndexer`, and `PostEmbedding` on all small inputs |
| `IndexProofs` | types, the race to create the collections, the vector of an account, windows of a text, rows of a batch of images |

### Crawl

One action is one database transaction or one API call, the points at which
another process can run. A worker's `pc` walks through `crawl_blog`:

```
idle -StartTask-> guard -CrawlGuard-> seed -SeedLookup-> (insert -SeedInsert->) next
next -SelectPass-> next          next -BeginBlog-> pageGuard          next -EndCrawl-> final
pageGuard -PageGuard-> fetch     fetch -FetchFails, FetchEmpty-> next
fetch -FetchPage-> process -ProcessPage-> commit -CommitPage-> recheck -Recheck-> pageGuard
pageGuard, recheck: at the target -> pause -PauseSelect-> pausing -PauseCommit-> final -FinishTask-> idle
```

| Variable | In the code |
|---|---|
| `db` | `crawl_state` rows: status, `last_timestamp` (`cursor`), `fail_count` (`fail`) |
| `sfw`, `nsfw` | committed `posts` by their `nsfw` column; `Cardinality(sfw)` is `_indexed_count()` |
| `queue` | `crawl_blog` messages; a set, because a second copy of a message adds no behaviour that redelivery does not already give |
| `task`, `pass`, `todo`, `cur` | the task's arguments, the pass over `pending`, `paused`, `active`, the rest of its list, the loop variable |
| `held` | the session's copies of rows. SQLAlchemy's identity map is weak: a copy lives as long as the list or the loop variable refers to it, which `SelectPass` follows |
| `page`, `fresh` | posts fetched and not yet committed; blogs found missing and added to the session |
| `aborts`, `dropped` | count of rollbacks (bound), and an auxiliary record of the posts that were on a page rolled back |
| `failed`, `together` | auxiliary: the failed fetches of a blog, up to three, since the last page that a session running alone was given; the workers whose task has run beside another one |

`Saved` is the ORM's commit: only columns that differ from the loaded copy are
written. `RetryTask` is the path of every exception, including the unique
violation on `crawl_state.blog_name` (`InsertCollides`).

The crawl starts with the dashboard's `SeedCrawl` or with `crawl_blog` messages for
seed blogs that have no row yet (`Bootstrap`); nothing in the repository sends
the latter, but `seeds.py` describes this start and `crawl()` inserts such a row.

Posts, blogs and timestamps are data of the instance. A page is any set of the
newest posts before the cursor of at most `PageSize`; with equal timestamps it
is Tumblr who decides which of them make it. Posts without a timestamp may come
on any page of their blog. A page with a timestamp on it moves the cursor and
commits (`FetchDated`); one without moves nothing, is stored, and the same
request follows (`FetchUndated`). Texts, tags and accounts are left
out: no guard of the crawl depends on them. `FlagNsfw` stands for the verdict of
`PostPipeline` on a post with explicit photos on disk.

### CrawlBudget

`count` and `admitted`, the number of workers past the guard with their page not
yet committed. `Admit` needs `count < Target`; `Deliver` adds up to a page;
`Withdraw` gives up; `Retract` takes back one post. `Crawl` maps its workers in
`fetch`, `process` and `commit` to `admitted`.

### PostPipeline

Three stores without a common transaction: the row (`stored`, `nsfw`,
`embedding`), the files (`whole`, `partial`) and the Qdrant point (`point`).
Vectors are abstracted to the set of photos they were computed from, which is all
that the properties distinguish; the text part is `HasText`.

The crawler's side is `Persist` (upsert, which locks the row until the page
commits), `SkipPhoto`, `FetchFails`, `OpenFile`, `CloseFile`, `StorePost`, and
`CrawlerDies`. Because of that lock no two crawl runs download the photos of one
post at the same time, and `Verdict` waits for it, as does a `Commit` that has
something to write. A worker's side is `LoadPost`, then `Unreadable`, `NoImages`
or `Classify`, then `Verdict`, or `Upsert` and `Commit`. A task that raises goes
back to the queue (`Requeue`) or, without retries left, to `dead` or to `lost`
(`DeadLetter`): the handler swallows whatever sending the dead letter raises
(celery_app.py:106). `Prune` is an operator who removes files when the crawler
logs that the storage cap is exceeded (external). `HasSession` says whether the
`ImageDownloader` was given a session: the class supports it, `crawl_blog` does
not give one (tasks.py:108). The safety runs have none, as the deployed program,
and files come from outside, whole or in part (`Supply`, external); the liveness
run has one, so that a crash can leave half a file. `late` counts the times a
point was written after the verdict. Rows of `posts` are never deleted, so `not_found` cannot occur.

### TumblrClient

A request of a client is at `idle`, `pick`, `acquire` or `sent`; each action is
what happens between two waits: `Pick` is one turn of the loop in `_request` with
`_next_key`, `Poll` one run of the Lua script (atomic in Redis), `Respond` the
handling of an answer, which is any status. `NewClient` is the next task's client:
it forgets rotation and cooldowns. Time is relative: `Tick` lets a unit pass.
Every client reads a clock of its own (`time.time()`), `off` ahead of the slowest
by `MaxSkew` at most, and `Correct` sets it back or forward within that range.
`cooling` is `_cooldowns[k]` as its distance from the real time, `since` the age of
a bucket's `ts`; both are cut off where they no longer matter, so that time has no
bound. `PollElsewhere` is any client of another process, with the same script and
any clock. Three variables are history. `owed` is the rest of the cooldown that the
last refusal asked for. `ahead` is the clock of the caller who wrote a bucket last,
and `credit` an ideal bucket, filled tick by tick with the time that passed, and
with what the caller's clock is ahead of the one before: `max(0, now - ts)`
(client.py:34) takes that for time. Two hosts whose clocks differ by d, taking turns,
therefore refill a bucket by d in every second turn, and no bound in real time
alone holds of this script; `RateBound` says that nothing else adds to it.

### GeneralSearch, SearchApi, Resolvers

`GeneralSearch` follows `GeneralSearchResolver.search`: the hits of the two
stores, `reciprocal_rank_fusion`, `rerank_score`, the sort, the page after a
cursor. Scores are integers: `Scale` makes each 1 / (k + rank) exact, and
recency is a power of two. `SearchApi` runs it in the handler: `CacheHit` or
`CacheMiss`, `KeywordSearch` and `VectorSearch` in either order
(`asyncio.gather`), `Rank` from the metadata query on, `CacheSet`. Between any
two of them `Store` commits a post that the crawler has met, `Rewrite` gives a
post met again another note count, `Verdict` changes a row, `Index` adds a point,
`Reorder` changes the order in which the stores return equal hits (the keyword
search has no tie-break, general.py:176-177; Qdrant's index is approximate),
`GrowOlder` halves the scores, `ClearKey` and `Tick` remove entries. Undated posts
do not decay, and posts dated in the future not before their date (`HalfLives`). A
reader opens a walk and goes on with `next_cursor` until there is none; the cache
key is what distinguishes the requests of one query, the cursor. `flagged` and
`seen` are history. The rounding of floats is not modelled; the tolerance with which
a cursor whose post is gone is compared (general.py:420) is.

`Resolvers` gives the answers of the other searches: `Best` is a sort with a
LIMIT whose ties fall either way, `Nearest` a search in Qdrant, and every score
is multiplied by what makes it an integer. Account names are cut off in the order
of SQL (class, then similarity), and the score that is computed afterwards and
shown does not sort them again (`NameOrder`, `NameScore`).

### Communities

A message of the task is in `queue` or with one worker. An attempt goes through
`Clear` (delete and commit), `Scroll` (a page each), `ClusterTags` (insert and
commit) or `SilhouetteRaises`, `Scroll`, `ClusterAccounts`. `Raises` is the way
of every exception, `WorkerLost` the redelivery under `acks_late`. What k-means
and HDBSCAN find is any of the labellings of the instance. Rows carry the run that
inserted them and what there was when its scroll began, as history.

### VectorStore, PostIndexer, PostEmbedding

`VectorStore` is `ensure_collections` per process: list, then create and index
one collection after another; a process that stops in between leaves a collection
"bare", or with "part" of its payload indexes. A process whose creation collides or fails is
`blind` from then on (app.py:42-44). `EnsureBare` is the indexer's method of the
same name, which creates no payload indexes. `PostIndexer` has one action per
call to a store: the gates (`Load`), the point, the window (`Scroll`), the
account's point, the account's row, the tags. The vector of an account is the set
of the posts it is the mean of. `TaskUpsert` is `process_post`, which writes the
same point with `published_at` as a string, and takes the post out of the order.

`PostEmbedding` computes what goes into the vector of a post: the passages of
`TextProcessor` (a text is the number of its tokens), as far as the encoder reads
them: each window is decoded to a string, and the encoder tokenises it again and
cuts it at a length of its own, `ENCODER_TOKENS` (`Embedded`); the rows of
`ImageProcessor` (an image is itself or a cached one that looks like it), its
tags. The weights are positive and not modelled.

## 3. Runs

All bounds are CONSTANTS in the `.cfg` files. `MaxAborts`/`MaxFaults` bound
crashes and errors, `MaxFail` the consecutive failures of a blog (it stands in
the guard of `FetchFails`), `MaxRetries` is `max_retries` of the task made small.

| Run | Instance | Shows |
|---|---|---|
| `budget` | 4 workers, target 20, pages of 3 | the cap, its inductive form |
| `crawl_two_workers` | 2 workers, 1 blog, 3 posts, target 1, pages of 1, two aborts, three failures, redelivery, an NSFW post | `OvershootBound`, `NothingSkipped`, `LossBounded`, `DeadHasFailed`, `NsfwIsFinal`, `CursorGoesBack`, `BudgetSpec` |
| `crawl_reblogs` | 2 workers, 2 blogs that reblog from each other, one retry, no API failure | `SourcesKnown`, `RowsKept`: the race of two inserts |
| `crawl_liveness` | 1 worker, 2 blogs, a video, two posts of one timestamp and one of none, pages of 2, four failures, `FairSpec` | `TaskEnds`, `BlogSettles`, `PausedResumed` |
| `pipeline_two_workers` | 2 workers, a post with a safe and an explicit photo, no session, one fault, no retry | `ExplicitNotIndexed`, `HalfDoneIsRepaired`, `LateWritesBounded` |
| `pipeline_liveness` | 1 worker, 1 post, a session, one fault, one retry, `FairSpec` | `Processed` |
| `client` | 1 client and those of other processes, 2 keys, a bucket of one token that takes two ticks, cooldowns of 2 and 3, clocks 1 apart at most, `FairSpec` | `RateBound`, `KeyRests`, `FailsLast`, `RequestsEnd` |
| `search` | 1 reader, 4 posts (3 at the start), pages of 1, limits of 2, two orders of equals, TTL 2, one edit or half-life, one fault, `FairSpec` | `StaleBound`, `WalksPartition`, `WalkEnds`; `WorseNeverAhead` on all inputs of three tags, two account names, three accounts, two communities |
| `communities` | 2 workers, 2 rebuilds, 1 or 3 tags, pages of 2, one fault, one retry, `FairSpec` | `DuplicatesOverlap`, `ScrollComplete`, `Refilled` |
| `index` | 2 processes, 2 indexers, 3 posts of one account, a window of 1, 3 jobs, one upset | `RaceHasWinner`, `FreshAfterQuietJob`; `TextsCovered` up to 16 tokens in windows of 5 and for any encoder of 1 to 5, `ImagesAligned` up to 3 images |

Why the bounds are enough: two workers are what every race of this code needs
(one holds a copy, the other changes the row); a target smaller than the number
of posts makes both workers pass the guard on the same count; one abort separates
a cursor from its page, and the second can come to the session that goes on from
there; `MaxFail` 3 lets a session count to the third failure, and 4 go past it. A
redelivered message is what a retry is, but for its counter: retries of the crawl
and of the pipeline are in `crawl_reblogs` and `pipeline_liveness` only. Workers are symmetric, and
symmetry is used only in runs without liveness. What the bounds cannot show for
larger systems is proved (section 5).

In `client` the bucket is at its capacity and at zero, and its
entry expires exactly when it is full again, the worst moment the assumption on
`BucketTtl` allows; two keys make a rotation, and 2 * 2 attempts reach the
limit `max(2 * keys, 4)`. In `search` a higher note count takes post 1 past post 2,
so that a page cached before and one computed after name each other as next:
`WalkEnds` meets that case, and fails with entries that a hit renews. The post that
is stored pushes another out of the keyword hits, of which two have equal ranks.
Each exclusion of `WalksPartition` is necessary: without the one of storing,
rewriting, indexing, flagging or reordering the same run violates it, and without
that of posts which decay otherwise it does once one of the posts has no date or
one in the future. In `communities` two pages are needed for three
tags, points come in between them, and k = 2 on two tags raises. In `index` a
window of one makes the newer of two posts push the older out, in either order of
writing, and 16 tokens are up to five windows. The pure functions are evaluated
before the first step only; `WorseNeverAhead`, `TextsCovered` and `ImagesAligned` say so.

Deadlock is checked except in `communities` and `index`, where everything that
was asked for may be done. In the crawl and the pipeline the environment (Beat,
the dashboard) can always take a step, so it says little there, and the liveness
runs carry that question.

### Where code and documents disagree

Two runs check a sentence of the repository each and find it violated.

| Run | Sentence | What happens |
|---|---|---|
| `crawl_crash` | crawler.py:314 "advance cursor BEFORE processing (crash-safe)" | a crash after the cursor's commit and before the page's loses the page for good |
| `pipeline_nsfw` | processing/safety.py:169 "NSFW posts MUST be excluded from all Qdrant collections" | the point written before the verdict stays |

`NothingSkipped` and `LossBounded` say what the crash costs at most;
`LateWritesBounded` how often a stale task can still write it. General search reads the
`nsfw` column again (general.py:225), and `StaleBound` says when a flagged post is
out of every answer.

Met while modelling, without a run of their own:

* **Resuming.** crawler.py:73 says "picks up exactly where the previous run left
  off". Of two overlapping runs the one with the older copy moves the cursor
  forward again (crawler.py:317), and pages are fetched twice. `CursorGoesBack`
  says that nothing but such a run does so; `NothingSkipped` holds.
* **Dead blogs.** tests/test_ingestion/test_crawler.py:302 expects a blog to be
  dead after three failures; the last update of `crawl_blog` (tasks.py:117) turns
  the blog it was started for to paused.
* **Paused blogs.** crawler.py:110 "so the next run can resume them": Beat
  enqueues active and pending blogs only (tasks.py:138). `PausedResumed` says that
  a run, if there is one, resumes them.
* **Undated pages.** crawler.py:315-318 moves no cursor for a page none of whose
  posts has a timestamp; the loop then asks for the same page. `TaskEnds` excepts
  a task that is given such pages for ever.
* **Downloads.** crawler.py:223 "then download raw images": the worker's downloader
  has no session (tasks.py:108) and its assertion on it (ingestion/images.py:71)
  is swallowed with the other errors of a photo: `crawl_blog` downloads nothing.
* **Dead letters.** celery_app.py:82 describes a central handler that records
  failed tasks; it ignores failures of its own send (line 106), so that a failed
  task may leave no trace (`lost`).
* **Rate.** client.py:50 speaks of Redis-backed rate limiting; with hosts whose clocks
  differ the bucket is refilled by the difference at every second turn (client.py:34).
* **The limiter.** The worker's client has no Redis (tasks.py:107), so
  `_acquire_token` returns at once: `RateBound` speaks of clients that have one.
* **Keys.** client.py:55 "marked dead until restart": for the next task, whose
  client is new, the key is usable again (`NewClient`).
* **Communities.** processing/communities.py:42 "Safe to call repeatedly —
  idempotent": two rebuilds that overlap leave the clusters of both, which
  `DuplicatesOverlap` allows. With two tags k-means makes two clusters,
  `silhouette_score` raises, and every attempt fails after emptying the table.
* **Start of the API.** app.py:43 "/health will flag it": the probes of
  `api/routers/health.py` (lines 55-63) answer "connected" in any case, and a
  process that lost the race to create a collection stays without Qdrant.
* **Filters.** schemas.py:17-19 describe filters for dates and tags; `date_to` and
  `tags` do not reach the vector search (general.py:349-356), and no retrieval
  uses `tags`. Points of `process_post` carry `published_at` as a string
  (tasks.py:219), which a numeric filter never matches.
* **Drill-down.** search/communities.py:53 builds a GET URL for
  `/api/v1/search/general`, which is a POST route (api/routers/search.py:43).
* **Long texts.** text.py:214 says of 512 tokens "encode directly", and windows are
  as long. The encoder it names, all-MiniLM-L6-v2, truncates its input at a limit of
  its own (256 tokens as published), special tokens included, so that the tail of
  every longer piece is not embedded. `TextsCovered` bounds what is lost for any
  such limit. `process_post` embeds the text in one piece (tasks.py:182), not
  in these windows, which `PostIndexer` uses.
* **Unreadable images.** If none of a post's files can be opened, the indexer takes
  the mean of no rows (embeddings.py:331), and the vector is not a number:
  `EmbeddingWhole` states the exception. `process_post` opens the files first and raises.
* **Posts without a date** do not decay (general.py:139), nor do posts dated in the
  future before their date (general.py:137), so a walk over several half-lives can
  meet a post twice: `WalksPartition` excludes that case.
* **Account names.** account_name.py:50-52 gives a score in which posts count;
  the answer comes in the order of SQL, which does not look at them (line 75).

A target raised in the settings leads to the same stop as paused blogs.

## 4. Fairness

`Crawl`: weak fairness of each worker's own steps (a worker that runs keeps
running: API calls have a timeout of 30 s, database calls return) and of
`EnqueueActive`, which Beat fires every `crawl_interval_minutes`. None for the
dashboard, for verdicts and for faults, whose number is bounded.

`PostPipeline`: weak fairness of a crawl run inside its page; strong fairness of
taking each message, because the broker's list is first in, first out and an
administrator may enqueue again and again; strong fairness of a task's steps,
because the row lock it waits for is granted in the order of requests while crawl
runs may take it again and again. None for persisting, reindexing and faults.

`TumblrClient`: weak fairness of `Tick` and of a running request (the loop sleeps
a second between two polls, client.py:146, and an HTTP request has a timeout). Not of other
processes: if they take every token the wait is endless, as `RequestsEnd` says.

`SearchApi`: weak fairness of `Tick` and of a reader's handler together with the
reader's going on. Nobody has to open a walk; edits and faults are bounded.

`Communities`: weak fairness of each worker (Celery takes a message and runs it).
Requests and new points need not come. `PostIndexer`: safety only, no fairness.

## 5. Proofs

Checked by TLAPS for every value of the constants that the named assumptions of
the modules allow: `CrawlAssumption`, `BudgetAssumption`, `PipelineAssumption`,
`ClientAssumption`, `SearchAssumption`, `ApiAssumption`, `ResolversAssumption`,
`CommunitiesAssumption`, `VectorStoreAssumption`, `IndexerAssumption`,
`TextAssumption`, `ImageAssumption` and `NaNAssumption`. These say that the sets of
workers, posts and clients are finite, that the functions of the instance have
their domains, that `None` and `"NaN"` are none of the data, and that settings are
positive. Five say something of the code: `BucketTtl >= Full` (7200 s against the
hour in which a bucket fills, client.py), `CoolAuth >= Cool429` (a refused key rests
no shorter than a throttled one), `OVERLAP_TOKENS < WINDOW_TOKENS` (text.py), levels
of at most 31 (the counts are 32-bit columns), and a `Scale` that the divisors of
the ranks divide, which makes the fractions of RRF integers. The runs evaluate all of them.

Each module of proofs has an inductive invariant, `IInv`, and shows for one action
after the other that it keeps it. Every state invariant and every action property
of a passing run is a theorem; the liveness properties are not.

### The crawl

* `BudgetHolds` (`CrawlBudgetProofs`). `count <= Target - 1 + PageSize * Pool` is
  not inductive: a state with every worker admitted and the count at the bound
  satisfies it, and one `Deliver` breaks it. `BudgetInv` charges each admitted
  worker its page in advance, `count + PageSize * admitted`, and is inductive:
  `Admit` has `count < Target` and at most `Pool` charges, `Deliver` turns a
  charge into posts.
* `TypeCorrect` (`CrawlProofs`). Types alone are not inductive: `held[w][cur[w]]`
  must be a row when it is used. `SessionInv` says what a session holds at each
  label, and is carried through all actions together with the types.
* `ImplementsBudget`, `OvershootBounded` (`CrawlProofs`). Every step of
  `Crawl` admits, delivers or withdraws one worker, retracts a post, or leaves
  both cardinalities alone. The work is in the cardinalities: a page has at most
  `PageSize` posts, and `BudgetBound` is then taken over from the proofs of the
  abstract module.
* `NothingIsSkipped` (`CrawlCoverage`). The property speaks of the table, the
  steps of copies. `SkipInv` states the same of every copy a session holds; a
  page fetched by an old copy is safe because its cursor is no further than the
  posts which that copy accounts for, and accounted posts stay so.
* `LossIsBounded`. Only the actions that roll a transaction back add to `dropped`,
  and they count themselves; the page of one worker is at most `PageSize` (`RInv`).
* `RowsAreKept`, `VerdictsAreFinal`: from `IInv`, action by action. A commit writes
  rows it holds a copy of, and a copy stands for a row that is there; the upsert
  of a page leaves out what has a verdict.
* `SourcesAreKnown`. `SourcesInv` says where the row of a source is while the post is
  not committed: in the table, or among the `fresh` rows of the worker that has the
  post on its page, so that one commit writes both, and one rollback drops both.
* `DeadOnlyByFailures`, `CursorsOnlyGoBack`, for any number of workers. `FailInv`
  says that no row and no copy counts more failures than the blog had
  (`CountsInv`): a stale copy may count fewer, never more, because `failed` is only
  cleared for a session that runs alone. The copies of such a session have the
  cursor of their rows and at least their failures (`AloneFollows`), as all that the
  others can have written since is `reset_dead`; and no session starts or runs
  beside it unseen (`Apart`).

### The pipeline

* `TypeCorrect`, `ExplicitStaysOut` (`PostPipelineProofs`). The strengthening says that what a
  worker carries from `Classify` to `Upsert` and `Commit` is safe.
* `LateWritesAreBounded`. `LateInv` adds to the late writes of a post the number of
  workers that still may make one, because they have read the flag before it was
  set: the sum stays below the number of workers. It is so when the verdict comes,
  since its own worker is none of them; an `Upsert` turns one of these into a late
  write, and every later delivery reads the flag anew.
* `HalfDoneRepaired`. `RepairInv` follows the promise of a repair from a message
  to the worker that takes it, back to the queue by a crash or a retry, and to
  the dead-letter queue or, when that send fails, to `lost`. A worker that comes to its commit without photos does
  not keep the promise, but it has emptied the point.

### The client

* `RateHolds` (`TumblrClientProofs`). `RateBound` speaks of `credit`, the ideal bucket;
  the code only sees `tokens`, `ts` and an entry that may expire. `BucketInv` says that
  what the caller before would find, asking again, is never more than the ideal, and
  that an entry which rests for `BucketTtl` belongs to an ideal bucket that is full: so
  Redis may forget it. A caller whose clock is further ahead finds more, by what the
  ideal bucket is credited with; one whose clock is behind finds less.
* `KeysRest`, `FailsOnlyLast`. `CooldownInv` compares what is stored with what the
  refusal asked for, each with its own length: the stored cooldown ends no earlier,
  and later by the skew of the clocks at most, unless it is over on all of them.

### The searches

* `PagesPartition` (`SearchProofs`). First of the functions: a finite strict order
  gives each element its place (`Ranks`), so the ranking is a permutation of the
  candidates, a page is the piece of it after the cursor, and halving all scores
  keeps the order (`OrderStays`). Then of the behaviours: as long as nothing was
  stored, rewritten, indexed, flagged or reordered and all posts decay alike
  (`StillInv`), every cached entry and every page on its way holds the piece
  after its own cursor. This must be said of entries that no walk has asked for yet,
  hence it is about keys, not about readers.
* `VerdictsTakeEffect`. `StaleBound` is inductive with the types: a page holds only
  posts that the metadata query still found safe (`PageShowsPiece`), so its age is the
  longest a verdict can be older, and the entry it becomes counts down from there.
* `WorseStaysBehind`. Of each search that an answer which is left out would not have
  been ahead: first the bounds of what the weights can add up to (the 100 for the name
  against 60 and 30 for similarity and usage, times the divisor; the classes of
  account names, which up to 31 levels do not meet: 3200 and more, 1000 to 3060, at
  most 510; min-max normalisation, which is monotone and divides by no zero; a product
  of similarity and size, which grows with both where the similarity is positive),
  then that merging and the two cuts, in any order of ties, keep it. The run tries a
  few values of each and this theorem all.

### The communities

* `DuplicatesHaveOverlapped`, `ScrollsAreComplete` (`CommunitiesProofs`). Messages
  have one carrier, in the queue or with a worker (`Carriers`); attempts have numbers
  of their own and any two that are under way overlap (`Attempts`); once an attempt
  has emptied the table, the rows it finds are of attempts that it overlaps
  (`AttemptInv`); what was there when a scroll began it has, or will still meet
  (`ScrollInv`). `TypeCorrect` needs one more: that the number of attempts is bounded
  by what messages, retries and redeliveries allow (`Balance`), the cardinality of a
  set of attempts that are still to come.

### The index

* `RaceIsWon` (`IndexProofs`). Collections come into being in their order (`InOrder`);
  one that is bare has the process that created it; and some process leads: it has
  seen all that exists, or is past it, so that none of its creations can collide.
* `QuietJobsRefresh`. `Quiet` says of each account that nothing blurred what its
  vector is if nobody is at work on it, and what the one job has in hand at each of
  its steps otherwise.
* `TextsAreCovered`. The windows by number: a token is in the window its position
  divided by the step gives, or in the one that reached the end. What an encoder reads
  of a window is its first tokens (`ReadIs`), so that an unread token has a read one
  before it no further away than the window is too long (`TailsLost`).
* `ImagesStayAligned`. What `FlattenSeq` folds exists (`JoinExists`) and joins one row
  after the other (`FlattenSteps`); both, and what the first i rows are (`RowsTo`), by
  the least length for which it would be false, in place of an induction.
  `NaNAssumption` was missing until the proof asked for it: an image by that name
  would be taken for the mean of no rows.

### Only model-checked

Liveness (`TaskEnds`, `BlogSettles`, `PausedResumed`, `Processed`, `RequestsEnd`, `WalkEnds`,
`Refilled`) is out of the prover's reach: there is no rule for fairness, and
ENABLED is not supported. `MaxAborts` and the other bounds occur in guards, so the
theorems hold for each value of them.

## 6. Not modelled

* The blocklist for texts (`is_text_nsfw`, `classify_post`): safety.py:44 says it
  must run at ingestion time, but no task calls it. `Upsert` of `PostPipeline`
  has no condition on the text, as in the code.
* `_crawl_tag`: no caller passes `seed_tags`.
* Rows of `tags`, `post_tags`, `accounts`, and row locks between pages. Two pages
  with the same tags in another order deadlock in PostgreSQL; in `Crawl` that is
  `TaskRaises`.
* New posts above the first page, and blogs once `done`: the code never returns
  to them, and the instance's set of posts is fixed.
* The filters of a search and the wording of its answers, SQL matching and trigram
  similarity: which rows match is data of the instance.
* Models and arithmetic on floats (CLIP, MiniLM, projection, KMeans, HDBSCAN,
  cosines): their results are data, or a choice among results.
* `delete_post` and the decorator `cached`: no caller. `upsert_batch` is called with
  one point at a time.
* Training scripts, evaluation, the terminal monitor, the HTML page, API keys,
  request validation and the probes: they keep no shared state.

## 7. Plan

Done: all components of the table in section 1 are modelled and checked, and each
of them has its state invariants proved.

What is left are theorems beyond what the runs check, in this order:

1. What the theorems say where nothing goes wrong: no post is lost without a
   rollback, a table of communities written by one worker holds one attempt.
2. Safety halves of the liveness properties: that what `Processed`, `WalkEnds` and
   `Refilled` wait for is still there to happen (a message, a page, an attempt).
3. Measures for the loops: that between two rollbacks each page of a blog takes
   the cursor of the session that fetches it further back.
