----------------------------- MODULE SearchApi -----------------------------
(***************************************************************************)
(* The search endpoint with its cache: src/mir/api/routers/search.py over   *)
(* src/mir/search/cache.py, the ranking from GeneralSearch.  Readers follow *)
(* next_cursor from page to page while posts are crawled, crawled again     *)
(* with other note counts, indexed, found to be NSFW and grow older, while  *)
(* the stores return equal scores in another order, and the cache expires,  *)
(* is cleared or is unreachable.  The other three endpoints run the same    *)
(* handler without a cursor.                                                *)
(***************************************************************************)
EXTENDS GeneralSearch

CONSTANTS
    Reader,     \* clients of the API
    Crawled,    \* the posts that are in the database at the start
    Indexed,    \* of these, the ones that have a point in Qdrant
    KwOrder,    \* the order of the keyword search at the start
    VecOrder,   \* the order of the vector search at the start
    Boost,      \* Boost[p]: the factor of the note_count at the start
    Boosts,     \* Boosts[p]: the factors that its note_count can get
    Explicit,   \* the posts that will be found to be NSFW, if looked at
    Ttl,        \* settings.cache_ttl_seconds, in ticks
    MaxCompute, \* assumption: ticks from the metadata query to the cache_set
    MaxEvents,  \* bound: edits and half-lives together
    MaxFaults   \* bound: failures of Redis, Qdrant or the embedding

ASSUME ApiAssumption ==
    /\ Crawled \subseteq Post /\ Indexed \subseteq Crawled /\ Explicit \subseteq Post
    /\ KwOrder \in KwOrders /\ VecOrder \in VecOrders
    /\ Boosts \in [Post -> SUBSET (Nat \ {0})] /\ \A p \in Post : Boost[p] \in Boosts[p]
    /\ Boost \in [Post -> Nat]
    /\ Ttl \in Nat \ {0} /\ {MaxCompute, MaxEvents, MaxFaults} \subseteq Nat

VARIABLES
    rows,       \* the posts of the database
    sfw,        \* of these, the ones with nsfw = false
    points,     \* the posts with a point in Qdrant, all with nsfw = false
    boost,      \* boost[p]: the factor of the note_count of p
    kwOrder,    \* the order in which PostgreSQL returns equal ranks
    vecOrder,   \* the order in which Qdrant finds the posts
    age,        \* half-lives since the start
    cache,      \* Redis: entries [key, page, ttl]
    req,        \* req[r]: the request of r and what it has read so far
    seen,       \* seen[r][p]: how often this walk has shown p, 2 for more
    flagged,    \* history: flagged[p], ticks since the verdict on p
    edits,      \* changes of the data or its order so far
    faults      \* failures of Redis, Qdrant or the embedding so far

orderVars == <<boost, kwOrder, vecOrder>>
dataVars == <<rows, sfw, points, orderVars, age, flagged, edits>>
apiVars == <<cache, req, seen, faults>>
vars == <<dataVars, apiVars>>

\* Longer ago than anything is remembered.
LongAgo == Ttl + MaxCompute + 1

Empty == [posts |-> <<>>, next |-> NoCursor]
Pending == <<0>>            \* a retrieval that has not returned yet
Closed == [pc |-> "closed", cursor |-> NoCursor, kw |-> Pending, vec |-> Pending,
           page |-> Empty, busy |-> 0]

Init ==
    /\ rows = Crawled /\ sfw = Crawled /\ points = Indexed
    /\ boost = Boost /\ kwOrder = KwOrder /\ vecOrder = VecOrder
    /\ age = 0
    /\ cache = {}
    /\ req = [r \in Reader |-> Closed]
    /\ seen = [r \in Reader |-> [p \in Post |-> 0]]
    /\ flagged = [p \in Post |-> 0]
    /\ edits = 0
    /\ faults = 0

Calm == edits + age < MaxEvents
Fault == faults < MaxFaults /\ faults' = faults + 1

-----------------------------------------------------------------------------
(* A request.                                                               *)

\* A reader asks for the first page.
Open(r) ==
    /\ req[r].pc = "closed"
    /\ req' = [req EXCEPT ![r].pc = "get"]
    /\ seen' = [seen EXCEPT ![r] = [p \in Post |-> 0]]
    /\ UNCHANGED <<dataVars, cache, faults>>

\* The response: the reader goes on with next_cursor, or has all pages.
Serve(r, page) ==
    /\ seen' = [seen EXCEPT ![r] = [p \in Post |->
          IF p \in Hits(page.posts) /\ seen[r][p] < 2 THEN seen[r][p] + 1 ELSE seen[r][p]]]
    /\ req' = [req EXCEPT ![r] = IF page.next = NoCursor THEN Closed
                                 ELSE [Closed EXCEPT !.pc = "get", !.cursor = page.next]]

\* make_cache_key: everything that selects the page; here only the cursor varies.
CacheKey(r) == req[r].cursor

\* Mutant: a hit renews the expiry of the entry.
CacheHitRenews(r) ==
    /\ req[r].pc = "get"
    /\ \E e \in cache : /\ e.key = CacheKey(r) /\ Serve(r, e.page)
                       /\ cache' = (cache \ {e}) \cup {[e EXCEPT !.ttl = Ttl]}
    /\ UNCHANGED <<dataVars, faults>>

\* cache_get finds the page.
CacheHit(r) ==
    /\ req[r].pc = "get"
    /\ \E e \in cache : e.key = CacheKey(r) /\ Serve(r, e.page)
    /\ UNCHANGED <<dataVars, cache, faults>>

\* cache_get finds nothing, or fails, which is the same to the handler.
CacheMiss(r) ==
    /\ req[r].pc = "get"
    /\ \/ (\A e \in cache : e.key # CacheKey(r)) /\ UNCHANGED faults
       \/ Fault
    /\ req' = [req EXCEPT ![r].pc = "retrieve"]
    /\ UNCHANGED <<dataVars, cache, seen>>

\* The keyword and the vector search run side by side.
KeywordSearch(r) ==
    /\ req[r].pc = "retrieve" /\ req[r].kw = Pending
    /\ req' = [req EXCEPT ![r].kw = KeywordHits(kwOrder, sfw)]
    /\ UNCHANGED <<dataVars, cache, seen, faults>>

VectorSearch(r) ==
    /\ req[r].pc = "retrieve" /\ req[r].vec = Pending
    /\ req' = [req EXCEPT ![r].vec = VectorHits(vecOrder, points)]
    /\ UNCHANGED <<dataVars, cache, seen, faults>>

\* Mutant: the metadata query forgets nsfw = false.
FoundAny == Post

\* _fetch_post_metadata: the candidates that are not NSFW by now.
Found == sfw

\* The rest of the search, from the metadata query on.
Rank(r) ==
    /\ req[r].pc = "retrieve" /\ req[r].kw # Pending /\ req[r].vec # Pending
    /\ \E score \in {Scores(req[r].kw, req[r].vec, Found, boost, age)} :
         \E ranking \in {Ranking(score)} :
           req' = [req EXCEPT ![r] = [Closed EXCEPT
                     !.pc = "set", !.cursor = req[r].cursor,
                     !.page = Page(ranking, score, req[r].cursor)]]
    /\ UNCHANGED <<dataVars, cache, seen, faults>>

\* Mutant: the entry is added beside the one the key had.
StoredBeside(r) ==
    cache \cup {[key |-> CacheKey(r), page |-> req[r].page, ttl |-> Ttl]}

\* SET with EX: replaces the entry of the key and its expiry.
Stored(r) ==
    {e \in cache : e.key # CacheKey(r)}
        \cup {[key |-> CacheKey(r), page |-> req[r].page, ttl |-> Ttl]}

\* cache_set, which may fail, and the response.
CacheSet(r) ==
    /\ req[r].pc = "set"
    /\ \/ cache' = Stored(r) /\ UNCHANGED faults
       \/ UNCHANGED cache /\ Fault
    /\ Serve(r, req[r].page)
    /\ UNCHANGED dataVars

\* Qdrant or the embedding fails: an error response, and the reader asks again.
SearchFails(r) ==
    /\ req[r].pc = "retrieve"
    /\ Fault
    /\ req' = [req EXCEPT ![r] = [Closed EXCEPT !.pc = "get", !.cursor = req[r].cursor]]
    /\ UNCHANGED <<dataVars, cache, seen>>

-----------------------------------------------------------------------------
(* The rest of the system.                                                  *)

\* The crawler commits a post: a keyword hit from then on.
Store(p) ==
    /\ Calm
    /\ p \notin rows
    /\ rows' = rows \cup {p} /\ sfw' = sfw \cup {p}
    /\ edits' = edits + 1
    /\ UNCHANGED <<points, orderVars, age, flagged, apiVars>>

\* The crawler meets the post again: the upsert rewrites note_count.
Rewrite(p) ==
    /\ Calm
    /\ p \in rows
    /\ \E b \in Boosts[p] \ {boost[p]} : boost' = [boost EXCEPT ![p] = b]
    /\ edits' = edits + 1
    /\ UNCHANGED <<rows, sfw, points, kwOrder, vecOrder, age, flagged, apiVars>>

\* process_post stores the vector of a post in Qdrant.
Index(p) ==
    /\ Calm
    /\ p \in rows \ points
    /\ points' = points \cup {p}
    /\ edits' = edits + 1
    /\ UNCHANGED <<rows, sfw, orderVars, age, flagged, apiVars>>

\* process_post_images or the downloader finds the post NSFW; its point stays.
Verdict(p) ==
    /\ Calm
    /\ p \in sfw \cap Explicit
    /\ sfw' = sfw \ {p}
    /\ flagged' = [flagged EXCEPT ![p] = 0]
    /\ edits' = edits + 1
    /\ UNCHANGED <<rows, points, orderVars, age, apiVars>>

\* PostgreSQL sorts equal ranks otherwise, or Qdrant finds the posts in another
\* order: equal similarities, an approximate index, a vector written anew.
Reorder ==
    /\ Calm
    /\ kwOrder' \in KwOrders /\ vecOrder' \in VecOrders
    /\ <<kwOrder', vecOrder'>> # <<kwOrder, vecOrder>>
    /\ edits' = edits + 1
    /\ UNCHANGED <<rows, sfw, points, boost, age, flagged, apiVars>>

\* Scores decay.
GrowOlder ==
    /\ Calm /\ age < MaxAge
    /\ age' = age + 1
    /\ UNCHANGED <<rows, sfw, points, orderVars, flagged, edits, apiVars>>

\* cache_clear deletes what its SCAN returned, key by key; cleanup_cache finds
\* no key without a TTL.
ClearKey ==
    /\ \E e \in cache : cache' = cache \ {e}
    /\ UNCHANGED <<dataVars, req, seen, faults>>

\* A tick passes; Redis drops the entries that expire.
Tick ==
    /\ \A r \in Reader : req[r].pc = "set" => req[r].busy < MaxCompute
    /\ req' = [r \in Reader |-> IF req[r].pc = "set"
                                  THEN [req[r] EXCEPT !.busy = @ + 1] ELSE req[r]]
    /\ cache' = {[e EXCEPT !.ttl = @ - 1] : e \in {x \in cache : x.ttl > 1}}
    /\ flagged' = [p \in Post |-> IF p \in sfw \/ flagged[p] = LongAgo
                                    THEN flagged[p] ELSE flagged[p] + 1]
    /\ UNCHANGED <<rows, sfw, points, orderVars, age, edits, seen, faults>>

Next ==
    \/ \E r \in Reader : \/ Open(r) \/ CacheHit(r) \/ CacheMiss(r) \/ KeywordSearch(r)
                         \/ VectorSearch(r) \/ Rank(r) \/ CacheSet(r) \/ SearchFails(r)
    \/ \E p \in Post : Store(p) \/ Rewrite(p) \/ Index(p) \/ Verdict(p)
    \/ Reorder \/ GrowOlder \/ ClearKey \/ Tick

\* The handlers run to their end, the readers go on, time passes.  Nobody is
\* bound to open a walk, and nothing is asked of the environment.
Fairness ==
    /\ WF_vars(Tick)
    /\ \A r \in Reader : WF_vars(\/ CacheHit(r) \/ CacheMiss(r) \/ KeywordSearch(r)
                                 \/ VectorSearch(r) \/ Rank(r) \/ CacheSet(r))

Spec == Init /\ [][Next]_vars
FairSpec == Spec /\ Fairness

-----------------------------------------------------------------------------
Cursors == {NoCursor} \cup [id : Post, score : Nat]
IsPage(page) == page.posts \in Seq(Post) /\ page.next \in Cursors

TypeOK ==
    /\ rows \subseteq Post /\ sfw \subseteq rows /\ points \subseteq rows
    /\ DOMAIN boost = Post /\ \A p \in Post : boost[p] \in Boosts[p]
    /\ kwOrder \in KwOrders /\ vecOrder \in VecOrders
    /\ age \in 0 .. MaxAge /\ edits \in 0 .. MaxEvents /\ faults \in 0 .. MaxFaults
    /\ \A e \in cache : e.key \in Cursors /\ IsPage(e.page) /\ e.ttl \in 1 .. Ttl
    /\ \A e, f \in cache : e.key = f.key => e = f
    /\ \A r \in Reader :
         /\ req[r].pc \in {"closed", "get", "retrieve", "set"}
         /\ req[r].cursor \in Cursors /\ IsPage(req[r].page)
         /\ req[r].busy \in 0 .. MaxCompute
    /\ seen \in [Reader -> [Post -> 0 .. 2]]
    /\ flagged \in [Post -> 0 .. LongAgo]

(* A post is out of every answer Ttl + MaxCompute ticks after its verdict:  *)
(* a page that still holds it was computed before, and neither the cache    *)
(* nor the two searches, which see the verdict at different times, carry it *)
(* further (cache.py:127-130, search.py:101, general.py:224-225).           *)
StaleBound ==
    \A p \in rows \ sfw :
        /\ \A e \in cache :
             p \in Hits(e.page.posts) => flagged[p] + e.ttl <= Ttl + MaxCompute
        /\ \A r \in Reader :
             req[r].pc = "set" /\ p \in Hits(req[r].page.posts) => flagged[p] <= req[r].busy

\* All posts have grown older by the half-lives that passed: none is without a
\* date or dated in the future, unless no time has passed.
DecayAlike == \A p \in Post : HalfLives(p, age) = HalfLives(p, 0) + age

(* As long as no post is stored, crawled again, indexed or found to be      *)
(* NSFW, the stores keep their order among equals, and all posts decay      *)
(* alike, the walks of all readers, through cached and computed pages of    *)
(* different ages, show no post twice, and at their end have shown every    *)
(* candidate, although the scores that their cursors carry are those of     *)
(* other times.  Any one of these changes may move the list in mid-walk:    *)
(* paging is by position in a list that each request makes anew             *)
(* (general.py:125-142, 176-177, 405-434).                                  *)
WalksPartition ==
    edits = 0 /\ DecayAlike => \A r \in Reader :
        /\ \A p \in Post : seen[r][p] <= 1
        /\ req[r].pc = "closed" /\ (\E p \in Post : seen[r][p] > 0)
             => \A p \in (Hits(KeywordHits(kwOrder, sfw)) \cup Hits(VectorHits(vecOrder, points)))
                           \cap Found : seen[r][p] = 1

(* A walk comes to an end, although each of these changes can reorder the   *)
(* list under it and two cached pages of different ages can name each other *)
(* as next: the entries expire and the list is walked afresh.               *)
WalkEnds == \A r \in Reader : req[r].pc = "get" ~> req[r].pc = "closed"
=============================================================================
