------------------------------- MODULE Crawl -------------------------------
(***************************************************************************)
(* The crawl: Celery workers that run crawl_blog (mir/workers/tasks.py) and *)
(* inside it Crawler.crawl (mir/ingestion/crawler.py), against the tables   *)
(* crawl_state and posts, Celery Beat, the dashboard's operations and the   *)
(* Tumblr API.                                                              *)
(*                                                                          *)
(* Grain: one action per database transaction or API call, the points at    *)
(* which another worker can run.  A session keeps the CrawlState objects it *)
(* has loaded (expire_on_commit=False, db/session.py:23): a later query     *)
(* returns the object as it was, and a commit writes only the columns that  *)
(* differ from it.  `held' is that copy, and Saved that commit.             *)
(***************************************************************************)
EXTENDS Integers, Sequences, FiniteSets

CONSTANTS
    Workers,     \* processes of the Celery worker pool
    Blogs,       \* blog names
    SeedBlogs,   \* mir.ingestion.seeds.SEED_BLOGS
    Posts,       \* the posts Tumblr holds, as the API would return them
    BlogOf,      \* BlogOf[p]: the blog p was posted on
    Stamp,       \* Stamp[p]: p's timestamp, None if it has none
    Video,       \* the posts whose type is in EXCLUDED_POST_TYPES
    Explicit,    \* the posts with an image that the classifier finds NSFW
    Sources,     \* Sources[p]: blogs named by p's reblog fields and trail
    None,        \* no row, no blog, no cursor, no timestamp
    Target,      \* settings.target_post_count
    PageSize,    \* posts per API page
    MaxRetries,  \* max_retries of crawl_blog
    MaxFail,     \* bound: no fetch fails in a session whose fail_count is this
    MaxAborts    \* bound: crashes and errors that the environment may cause

Statuses == {"pending", "active", "paused", "done", "dead"}

Row == [status : Statuses, cursor : Nat \cup {None}, fail : Nat]

Message == [blog : Blogs, retries : 0..MaxRetries]

ASSUME CrawlAssumption ==
    /\ IsFiniteSet(Workers)
    /\ IsFiniteSet(Posts)
    /\ SeedBlogs \subseteq Blogs
    /\ BlogOf \in [Posts -> Blogs]
    /\ Stamp \in [Posts -> Nat \cup {None}]
    /\ Video \subseteq Posts
    /\ Explicit \subseteq Posts
    /\ Sources \in [Posts -> SUBSET Blogs]
    /\ None \notin Blogs /\ None \notin Nat /\ None \notin Row /\ None \notin Message
    /\ Target \in Nat \ {0}
    /\ PageSize \in Nat \ {0}
    /\ MaxRetries \in Nat
    /\ MaxFail \in Nat
    /\ MaxAborts \in Nat

VARIABLES
    db,       \* crawl_state: the row of each blog, or None
    sfw,      \* posts rows with nsfw = false
    nsfw,     \* posts rows with nsfw = true
    queue,    \* crawl_blog messages waiting at the broker
    pc,       \* where each worker is
    task,     \* the message a worker is processing (unacknowledged)
    pass,     \* which status crawl() is going through
    todo,     \* rows of the running query not yet handled
    cur,      \* crawl()'s loop variable `state', by its blog name
    held,     \* the session's copies of crawl_state rows
    page,     \* posts fetched, cursor committed, not yet stored
    fresh,    \* blogs the session has found missing and means to insert
    aborts,   \* transactions rolled back so far
    dropped,  \* auxiliary: posts of pages that were rolled back
    failed,   \* auxiliary: failed fetches of a blog, up to 3, since the last
              \* page that a session running alone was given
    together  \* auxiliary: workers whose task has run beside another one

tables == <<db, sfw, nsfw>>
locals == <<pc, task, pass, todo, cur, held, page, fresh>>
faults == <<aborts, dropped>>
history == <<failed, together>>
vars == <<db, sfw, nsfw, queue, pc, task, pass, todo, cur, held, page, fresh,
          aborts, dropped, failed, together>>

Labels == {"idle", "guard", "seed", "insert", "next", "pageGuard", "fetch",
           "process", "commit", "recheck", "pause", "pausing", "final"}

\* The crawl may be started by calling crawl_blog for seed blogs (seeds.py:5),
\* before any blog has a row; the other way to start it is SeedCrawl.
Bootstrap == {[blog |-> b, retries |-> 0] : b \in SeedBlogs}

Init ==
    /\ db = [b \in Blogs |-> None]
    /\ sfw = {}
    /\ nsfw = {}
    /\ queue \in SUBSET Bootstrap
    /\ pc = [w \in Workers |-> "idle"]
    /\ task = [w \in Workers |-> None]
    /\ pass = [w \in Workers |-> 0]
    /\ todo = [w \in Workers |-> {}]
    /\ cur = [w \in Workers |-> None]
    /\ held = [w \in Workers |-> [b \in Blogs |-> None]]
    /\ page = [w \in Workers |-> {}]
    /\ fresh = [w \in Workers |-> {}]
    /\ aborts = 0
    /\ dropped = {}
    /\ failed = [b \in Blogs |-> 0]
    /\ together = {}

-----------------------------------------------------------------------------
(* What the code computes from the tables.                                  *)

\* Mutant: the guards let one post too many through.
ThresholdReachedLate == Cardinality(sfw) > Target

\* _indexed_count() >= settings.target_post_count
ThresholdReached == Cardinality(sfw) >= Target

WithStatus(S) == {b \in Blogs : db[b] # None /\ db[b].status \in S}

NewRow == [status |-> "pending", cursor |-> None, fail |-> 0]

\* Mutant: paused blogs are left out.
PassesButPaused == <<"pending", "active", "active">>

\* crawl()'s order: pending, then paused, then active.
Passes == <<"pending", "paused", "active">>

\* An ORM commit: the columns of `new' that differ from the loaded `old'
\* overwrite the row, the others keep what is in the table.
Saved(old, new, row) ==
    [status |-> IF new.status # old.status THEN new.status ELSE row.status,
     cursor |-> IF new.cursor # old.cursor THEN new.cursor ELSE row.cursor,
     fail   |-> IF new.fail # old.fail THEN new.fail ELSE row.fail]

\* The session of w sets its copy of blog b to `new' and commits.
Save(w, b, new) ==
    /\ db' = [db EXCEPT ![b] = Saved(held[w][b], new, @)]
    /\ held' = [held EXCEPT ![w][b] = new]

Dated == {p \in Posts : Stamp[p] # None}

\* Tumblr: the posts of b before cursor c; a page brings some of the newest,
\* at most PageSize.  Which posts of equal timestamps make it is Tumblr's, and
\* so is on which pages the posts without timestamp come, if on any.
Earlier(b, c) == {p \in Dated : BlogOf[p] = b /\ (c = None \/ Stamp[p] < c)}

Undated(b) == {p \in Posts \ Dated : BlogOf[p] = b}

Pages(b, c) ==
    {S \in SUBSET (Earlier(b, c) \cup Undated(b)) :
        /\ S # {}
        /\ Cardinality(S) <= PageSize
        /\ \A p \in S \cap Dated, q \in Earlier(b, c) \ S : Stamp[q] <= Stamp[p]}

\* Mutant: the cursor is taken for inclusive, and moved one second further.
OldestLessOne(S) ==
    {Stamp[p] - 1 : p \in {q \in S \cap Dated : \A r \in S \cap Dated : Stamp[q] <= Stamp[r]}}

\* min(timestamps) of a page; no element if none of its posts has one
Oldest(S) ==
    {Stamp[p] : p \in {q \in S \cap Dated : \A r \in S \cap Dated : Stamp[q] <= Stamp[r]}}

\* Reblog sources of the page's non-video posts.
Discovered(S) == UNION {Sources[p] : p \in S \ Video}

-----------------------------------------------------------------------------
(* The task around the crawl.                                               *)

Goto(w, label) == pc' = [pc EXCEPT ![w] = label]

\* The session closes: whatever it held is gone.
Close(w) ==
    /\ task' = [task EXCEPT ![w] = None]
    /\ pass' = [pass EXCEPT ![w] = 0]
    /\ todo' = [todo EXCEPT ![w] = {}]
    /\ cur' = [cur EXCEPT ![w] = None]
    /\ held' = [held EXCEPT ![w] = [b \in Blogs |-> None]]
    /\ page' = [page EXCEPT ![w] = {}]
    /\ fresh' = [fresh EXCEPT ![w] = {}]
    /\ together' = together \ {w}

Busy == {w \in Workers : pc[w] # "idle"}

\* crawl_blog starts.  At the threshold it only touches last_crawled_at.
StartTask(w) ==
    /\ pc[w] = "idle"
    /\ \E m \in queue :
        /\ queue' = queue \ {m}
        /\ IF ThresholdReached
           THEN UNCHANGED <<pc, task, together>>
           ELSE /\ Goto(w, "guard")
                /\ task' = [task EXCEPT ![w] = m]
                /\ together' = together \cup (IF Busy = {} THEN {} ELSE Busy \cup {w})
    /\ UNCHANGED <<tables, pass, todo, cur, held, page, fresh, faults, failed>>

\* crawl()'s own guard.
CrawlGuard(w) ==
    /\ pc[w] = "guard"
    /\ Goto(w, IF ThresholdReached THEN "final" ELSE "seed")
    /\ UNCHANGED <<tables, queue, task, pass, todo, cur, held, page, fresh, faults, history>>

\* Mutant: the retry limit is not looked at.
RetryTaskForever(w) ==
    /\ queue' = queue \cup {[task[w] EXCEPT !.retries = @ + 1]}
    /\ aborts' = aborts + 1
    /\ dropped' = dropped \cup page[w]
    /\ Goto(w, "idle")
    /\ Close(w)
    /\ UNCHANGED <<tables, failed>>

\* The transaction of w rolls back and crawl_blog asks for a retry.
RetryTask(w) ==
    /\ queue' = IF task[w].retries < MaxRetries
                THEN queue \cup {[task[w] EXCEPT !.retries = @ + 1]}
                ELSE queue
    /\ aborts' = aborts + 1
    /\ dropped' = dropped \cup page[w]
    /\ Goto(w, "idle")
    /\ Close(w)
    /\ UNCHANGED <<tables, failed>>

\* _get_or_create_crawl_state looks the blog of the task up ...
SeedLookup(w) ==
    /\ pc[w] = "seed"
    /\ IF db[task[w].blog] = None
       THEN Goto(w, "insert") /\ fresh' = [fresh EXCEPT ![w] = {task[w].blog}]
       ELSE Goto(w, "next") /\ UNCHANGED fresh
    /\ UNCHANGED <<tables, queue, task, pass, todo, cur, held, page, faults, history>>

\* ... and inserts it, unless another transaction did so in between: then
\* the unique constraint on blog_name fails the task.
NeverCollides(w) == FALSE    \* Mutant: blog_name is not unique.

Collides(w) == \E b \in fresh[w] : db[b] # None

InsertFresh(w) == [b \in Blogs |-> IF b \in fresh[w] THEN NewRow ELSE db[b]]

SeedInsert(w) ==
    /\ pc[w] = "insert"
    /\ ~Collides(w)
    /\ db' = InsertFresh(w)
    /\ fresh' = [fresh EXCEPT ![w] = {}]
    /\ Goto(w, "next")
    /\ UNCHANGED <<sfw, nsfw, queue, task, pass, todo, cur, held, page, faults, history>>

\* An insert of the seed blog, or of a discovered one, hits the constraint.
InsertCollides(w) ==
    /\ pc[w] \in {"insert", "commit"}
    /\ Collides(w)
    /\ RetryTask(w)

\* crawl_blog after crawl() returned: at the threshold the task's own blog
\* becomes 'paused', whatever it was.
FinishTask(w) ==
    /\ pc[w] = "final"
    /\ LET b == task[w].blog IN
        db' = IF ThresholdReached /\ db[b] # None
              THEN [db EXCEPT ![b].status = "paused"]
              ELSE db
    /\ Goto(w, "idle")
    /\ Close(w)
    /\ UNCHANGED <<sfw, nsfw, queue, faults, failed>>

-----------------------------------------------------------------------------
(* Crawler.crawl: the three passes over crawl_state.                        *)

\* The query of the next pass.  Objects still referenced, those of the last
\* pass and of the loop variable, keep the copy they have; and only the new
\* list, or the loop variable if that list is empty, stays referenced.
SelectPass(w) ==
    /\ pc[w] = "next"
    /\ todo[w] = {}
    /\ pass[w] < Len(Passes)
    /\ pass' = [pass EXCEPT ![w] = @ + 1]
    /\ LET rows == WithStatus({Passes[pass[w] + 1]})
           kept == IF rows = {} THEN {cur[w]} ELSE rows
           Load(b) == IF held[w][b] # None THEN held[w][b] ELSE db[b]
       IN  /\ todo' = [todo EXCEPT ![w] = rows]
           /\ held' = [held EXCEPT ![w] =
                [b \in Blogs |-> IF b \in kept THEN Load(b) ELSE None]]
    /\ UNCHANGED <<tables, queue, pc, task, cur, page, fresh, faults, history>>

EndCrawl(w) ==
    /\ pc[w] = "next"
    /\ todo[w] = {}
    /\ pass[w] = Len(Passes)
    /\ Goto(w, "final")
    /\ UNCHANGED <<tables, queue, task, pass, todo, cur, held, page, fresh, faults, history>>

\* _crawl_blog(state) begins by making its blog 'active'.
BeginBlog(w) ==
    /\ pc[w] = "next"
    /\ \E b \in todo[w] :
        /\ Save(w, b, [held[w][b] EXCEPT !.status = "active"])
        /\ todo' = [todo EXCEPT ![w] = @ \ {b}]
        /\ cur' = [cur EXCEPT ![w] = b]
    /\ Goto(w, "pageGuard")
    /\ UNCHANGED <<sfw, nsfw, queue, task, pass, page, fresh, faults, history>>

-----------------------------------------------------------------------------
(* Crawler._crawl_blog: one iteration of its page loop.                     *)

State(w) == held[w][cur[w]]

\* Both threshold guards pause the blog in hand and end the crawl.
PauseCurrent(w) ==
    /\ Save(w, cur[w], [State(w) EXCEPT !.status = "paused"])
    /\ Goto(w, "pause")

\* Mutant: no guard before the fetch.
PageGuardMissing(w) ==
    /\ pc[w] = "pageGuard"
    /\ Goto(w, "fetch")
    /\ UNCHANGED <<tables, queue, task, pass, todo, cur, held, page, fresh, faults, history>>

\* The guard before a fetch.
PageGuard(w) ==
    /\ pc[w] = "pageGuard"
    /\ IF ThresholdReached
       THEN PauseCurrent(w)
       ELSE Goto(w, "fetch") /\ UNCHANGED <<db, held>>
    /\ UNCHANGED <<sfw, nsfw, queue, task, pass, todo, cur, page, fresh, faults, history>>

\* Mutant: the second failure already kills.
FetchFailsEarly(w) ==
    /\ pc[w] = "fetch"
    /\ State(w).fail < MaxFail
    /\ LET n == State(w).fail + 1 IN
        Save(w, cur[w], [State(w) EXCEPT
                !.fail = n,
                !.status = IF n >= 2 THEN "dead" ELSE @])
    /\ failed' = [failed EXCEPT ![cur[w]] = IF @ < 3 THEN @ + 1 ELSE @]
    /\ Goto(w, "next")
    /\ UNCHANGED <<sfw, nsfw, queue, task, pass, todo, cur, page, fresh, faults, together>>

\* get_blog_posts raises: the third failure in a row kills the blog.
FetchFails(w) ==
    /\ pc[w] = "fetch"
    /\ State(w).fail < MaxFail
    /\ LET n == State(w).fail + 1 IN
        Save(w, cur[w], [State(w) EXCEPT
                !.fail = n,
                !.status = IF n >= 3 THEN "dead" ELSE @])
    /\ failed' = [failed EXCEPT ![cur[w]] = IF @ < 3 THEN @ + 1 ELSE @]
    /\ Goto(w, "next")
    /\ UNCHANGED <<sfw, nsfw, queue, task, pass, todo, cur, page, fresh, faults, together>>

\* Mutant: what would be the last page is taken for the end of the blog.
FetchEmptyEarly(w) ==
    /\ pc[w] = "fetch"
    /\ Cardinality(Earlier(cur[w], State(w).cursor)) <= PageSize
    /\ Save(w, cur[w], [State(w) EXCEPT !.status = "done"])
    /\ Goto(w, "next")
    /\ UNCHANGED <<sfw, nsfw, queue, task, pass, todo, cur, page, fresh, faults, history>>

\* An empty page: the blog is exhausted.
FetchEmpty(w) ==
    /\ pc[w] = "fetch"
    /\ Earlier(cur[w], State(w).cursor) = {}
    /\ Save(w, cur[w], [State(w) EXCEPT !.status = "done"])
    /\ Goto(w, "next")
    /\ UNCHANGED <<sfw, nsfw, queue, task, pass, todo, cur, page, fresh, faults, history>>

\* Auxiliary: a fetch of w's blog has succeeded, and the commit that says so.
Cleared(w) ==
    failed' = IF w \in together THEN failed ELSE [failed EXCEPT ![cur[w]] = 0]

\* Mutant: the cursor stays where it was.
FetchPageAgain(w) ==
    /\ pc[w] = "fetch"
    /\ \E S \in Pages(cur[w], State(w).cursor) :
        /\ page' = [page EXCEPT ![w] = S]
        /\ Save(w, cur[w], [State(w) EXCEPT !.fail = 0])
    /\ Cleared(w)
    /\ Goto(w, "process")
    /\ UNCHANGED <<sfw, nsfw, queue, task, pass, todo, cur, fresh, faults, together>>

\* A page with a timestamp on it: the failure count is cleared and the cursor
\* moved past the page, in a transaction that commits before any of its posts
\* is stored.
FetchDated(w, S) ==
    /\ \E t \in Oldest(S) :
            Save(w, cur[w], [State(w) EXCEPT !.fail = 0, !.cursor = t])
    /\ Cleared(w)

\* A page without one moves no cursor and commits nothing yet.
FetchUndated(S) ==
    /\ Oldest(S) = {}
    /\ UNCHANGED <<db, held, failed>>

FetchPage(w) ==
    /\ pc[w] = "fetch"
    /\ \E S \in Pages(cur[w], State(w).cursor) :
        /\ page' = [page EXCEPT ![w] = S]
        /\ FetchDated(w, S) \/ FetchUndated(S)
    /\ Goto(w, "process")
    /\ UNCHANGED <<sfw, nsfw, queue, task, pass, todo, cur, fresh, faults, together>>

\* _process_post and _discover_blogs for each post that is no video: the
\* rows are written but not committed; the reblog sources that have no
\* crawl_state row yet are added to the session.
ProcessPage(w) ==
    /\ pc[w] = "process"
    /\ fresh' = [fresh EXCEPT ![w] = {b \in Discovered(page[w]) : db[b] = None}]
    /\ Goto(w, "commit")
    /\ UNCHANGED <<tables, queue, task, pass, todo, cur, held, page, faults, history>>

\* What the commit of a page writes to crawl_state: the rows of the blogs
\* discovered, and fail_count = 0 if the page's first commit did not.
CommitStates(w) ==
    LET new == [State(w) EXCEPT !.fail = 0] IN
        /\ db' = [InsertFresh(w) EXCEPT ![cur[w]] = Saved(State(w), new, @)]
        /\ held' = [held EXCEPT ![w][cur[w]] = new]
        /\ fresh' = [fresh EXCEPT ![w] = {}]
        /\ Cleared(w)

\* Mutant: the upsert also sets nsfw, to its default.
CommitPageResetsNsfw(w) ==
    /\ pc[w] = "commit"
    /\ ~Collides(w)
    /\ sfw' = sfw \cup (page[w] \ Video)
    /\ nsfw' = nsfw \ (page[w] \ Video)
    /\ CommitStates(w)
    /\ page' = [page EXCEPT ![w] = {}]
    /\ Goto(w, "recheck")
    /\ UNCHANGED <<queue, task, pass, todo, cur, faults, together>>

\* Mutant: the posts are committed before the discovered blogs are added.
CommitPageFirst(w) ==
    /\ pc[w] = "commit"
    /\ sfw' = sfw \cup ((page[w] \ Video) \ nsfw)
    /\ page' = [page EXCEPT ![w] = {}]
    /\ Goto(w, "recheck")
    /\ UNCHANGED <<db, nsfw, queue, task, pass, todo, cur, held, fresh, faults, history>>

\* The commit of the page.  A post already stored keeps its nsfw flag: the
\* upsert of _persist_post sets note_count and image_urls only.
CommitPage(w) ==
    /\ pc[w] = "commit"
    /\ ~Collides(w)
    /\ sfw' = sfw \cup ((page[w] \ Video) \ nsfw)
    /\ CommitStates(w)
    /\ page' = [page EXCEPT ![w] = {}]
    /\ Goto(w, "recheck")
    /\ UNCHANGED <<nsfw, queue, task, pass, todo, cur, faults, together>>

\* The guard after a page.
Recheck(w) ==
    /\ pc[w] = "recheck"
    /\ IF ThresholdReached
       THEN PauseCurrent(w)
       ELSE Goto(w, "pageGuard") /\ UNCHANGED <<db, held>>
    /\ UNCHANGED <<sfw, nsfw, queue, task, pass, todo, cur, page, fresh, faults, history>>

-----------------------------------------------------------------------------
(* Crawler._pause_active_blogs: a query, then a commit.                     *)

PauseSelect(w) ==
    /\ pc[w] = "pause"
    /\ todo' = [todo EXCEPT ![w] = WithStatus({"active"})]
    /\ Goto(w, "pausing")
    /\ UNCHANGED <<tables, queue, task, pass, cur, held, page, fresh, faults, history>>

\* A copy that already says 'paused' is no change, so it is not written.
PauseCommit(w) ==
    /\ pc[w] = "pausing"
    /\ LET changed == {b \in todo[w] : held[w][b] = None \/ held[w][b].status # "paused"}
       IN  db' = [b \in Blogs |-> IF b \in changed
                                  THEN [db[b] EXCEPT !.status = "paused"]
                                  ELSE db[b]]
    /\ Goto(w, "final")
    /\ UNCHANGED <<sfw, nsfw, queue, task, pass, todo, cur, held, page, fresh, faults, history>>

-----------------------------------------------------------------------------
(* Failures of the environment.                                             *)

\* A statement or a commit fails: the exception reaches crawl_blog.
TaskRaises(w) ==
    /\ pc[w] # "idle"
    /\ aborts < MaxAborts
    /\ RetryTask(w)

\* The worker process dies: the message was not acknowledged (acks_late), so
\* the broker delivers it again.
Crash(w) ==
    /\ pc[w] # "idle"
    /\ aborts < MaxAborts
    /\ queue' = queue \cup {task[w]}
    /\ aborts' = aborts + 1
    /\ dropped' = dropped \cup page[w]
    /\ Goto(w, "idle")
    /\ Close(w)
    /\ UNCHANGED <<tables, failed>>

\* A task that outlives the broker's visibility timeout is delivered again
\* while it still runs.
Redeliver(w) ==
    /\ pc[w] # "idle"
    /\ queue' = queue \cup {task[w]}
    /\ UNCHANGED <<tables, locals, faults, history>>

-----------------------------------------------------------------------------
(* The other writers of the tables and of the queue.                        *)

\* Mutant: only blogs never started are enqueued.
EnqueuePending ==
    /\ queue' = queue \cup
            {[blog |-> b, retries |-> 0] : b \in WithStatus({"pending"})}
    /\ UNCHANGED <<tables, locals, faults, history>>

\* crawl_active_blogs, which Beat runs, and the dashboard's trigger_crawl.
EnqueueActive ==
    /\ queue' = queue \cup
            {[blog |-> b, retries |-> 0] : b \in WithStatus({"active", "pending"})}
    /\ UNCHANGED <<tables, locals, faults, history>>

\* The dashboard's seed_crawl.
SeedCrawl ==
    /\ db' = [b \in Blogs |-> IF b \in SeedBlogs /\ db[b] = None THEN NewRow ELSE db[b]]
    /\ UNCHANGED <<sfw, nsfw, queue, locals, faults, history>>

\* Mutant: a dead blog starts again from its newest post.
ResetDeadFromStart ==
    /\ db' = [b \in Blogs |-> IF b \in WithStatus({"dead"})
                              THEN [NewRow EXCEPT !.status = "active"]
                              ELSE db[b]]
    /\ UNCHANGED <<sfw, nsfw, queue, locals, faults, history>>

\* The dashboard's reset_dead.
ResetDead ==
    /\ db' = [b \in Blogs |-> IF b \in WithStatus({"dead"})
                              THEN [db[b] EXCEPT !.status = "active", !.fail = 0]
                              ELSE db[b]]
    /\ UNCHANGED <<sfw, nsfw, queue, locals, faults, history>>

\* process_post finds an NSFW image among those of a stored post.
FlagNsfw ==
    /\ \E p \in sfw \cap Explicit :
        /\ sfw' = sfw \ {p}
        /\ nsfw' = nsfw \cup {p}
    /\ UNCHANGED <<db, queue, locals, faults, history>>

-----------------------------------------------------------------------------

\* What a worker does by itself, as long as it runs.
Step(w) ==
    \/ StartTask(w) \/ CrawlGuard(w) \/ SeedLookup(w) \/ SeedInsert(w)
    \/ InsertCollides(w) \/ SelectPass(w) \/ BeginBlog(w) \/ EndCrawl(w)
    \/ PageGuard(w) \/ FetchFails(w) \/ FetchEmpty(w) \/ FetchPage(w)
    \/ ProcessPage(w) \/ CommitPage(w) \/ Recheck(w)
    \/ PauseSelect(w) \/ PauseCommit(w) \/ FinishTask(w)

Fault(w) == TaskRaises(w) \/ Crash(w) \/ Redeliver(w)

Next ==
    \/ \E w \in Workers : Step(w) \/ Fault(w)
    \/ EnqueueActive \/ SeedCrawl \/ ResetDead \/ FlagNsfw

Spec == Init /\ [][Next]_vars

\* A running worker keeps running (the API call has a timeout of 30 s), and
\* Beat fires every crawl_interval_minutes.  Nobody owes the dashboard, an
\* NSFW verdict or a fault.
Fairness ==
    /\ \A w \in Workers : WF_vars(Step(w))
    /\ WF_vars(EnqueueActive)

FairSpec == Spec /\ Fairness

-----------------------------------------------------------------------------
(* Properties.                                                              *)

\* Every variable holds what its comment says.
TypeOK ==
    /\ db \in [Blogs -> Row \cup {None}]
    /\ sfw \subseteq Posts
    /\ nsfw \subseteq Posts
    /\ queue \subseteq Message
    /\ pc \in [Workers -> Labels]
    /\ task \in [Workers -> Message \cup {None}]
    /\ pass \in [Workers -> 0..Len(Passes)]
    /\ todo \in [Workers -> SUBSET Blogs]
    /\ cur \in [Workers -> Blogs \cup {None}]
    /\ held \in [Workers -> [Blogs -> Row \cup {None}]]
    /\ page \in [Workers -> SUBSET Posts]
    /\ fresh \in [Workers -> SUBSET Blogs]
    /\ aborts \in Nat
    /\ dropped \subseteq Posts
    /\ failed \in [Blogs -> 0..3]
    /\ together \subseteq Workers

InFlight == UNION {page[w] : w \in Workers}

\* What became of a post: stored, on its way, filtered out, or rolled back.
Accounted == sfw \cup nsfw \cup InFlight \cup Video \cup dropped

\* The whole pool of workers can push the SFW count past the target, each by
\* the one page it had in flight, and no further: the guards of
\* crawler.py:260 and 330 read the count and the commit comes later.
OvershootBound ==
    Cardinality(sfw) <= Target - 1 + PageSize * Cardinality(Workers)

Admitted == {w \in Workers : pc[w] \in {"fetch", "process", "commit"}}

Budget == INSTANCE CrawlBudget WITH
            Pool <- Cardinality(Workers),
            count <- Cardinality(sfw),
            admitted <- Cardinality(Admitted)

\* The crawl implements the abstract budget: every step admits, delivers or
\* withdraws one worker, retracts one post, or leaves both counts alone.
BudgetSpec == Budget!Spec

\* A cursor never passes a post that was not accounted for, and a blog is
\* not 'done' before all its posts are: this is what moving last_timestamp
\* before the posts are stored (crawler.py:314) must not break, for a table
\* that several sessions with stale copies write.  The exception is a post
\* with the timestamp of one that was accounted for: `before' is exclusive,
\* so when a page ends between the two, the next page starts after both.  A
\* post without timestamp is before or after no cursor.
NothingSkipped ==
    \A p \in Dated :
        LET row == db[BlogOf[p]]
            Passed(c) == c # None /\ c <= Stamp[p]
        IN  row # None /\ (row.status = "done" \/ Passed(row.cursor))
                => \E q \in Accounted : BlogOf[q] = BlogOf[p] /\ Stamp[q] = Stamp[p]

Missing == {p \in Dated \ (sfw \cup nsfw \cup InFlight \cup Video) :
                db[BlogOf[p]] # None /\ db[BlogOf[p]].status = "done"}

DistinctStamps ==
    \A p, q \in Dated : BlogOf[p] = BlogOf[q] /\ Stamp[p] = Stamp[q] => p = q

\* What a crash or a rolled-back page costs: a blog that is 'done' lacks, in
\* all, at most one page of posts for each abort (crawler.py:314-326), if no
\* two of its posts have one timestamp.
LossBounded == DistinctStamps => Cardinality(Missing) <= PageSize * aborts

\* A post once found NSFW is never served as SFW again because the crawler
\* meets it a second time (the upsert of crawler.py:187-193).
NsfwIsFinal == [][nsfw \subseteq nsfw' /\ sfw' \cap nsfw = {}]_vars

\* A blog is given up only after three failed fetches of it, whichever
\* sessions made them and whatever reset_dead, a stale copy or the task's last
\* update wrote in between (crawler.py:274-277, dashboard.py:75): three since
\* the last page that came to a session running alone.  A page that came to
\* one of several overlapping sessions does not count: the others go on from
\* the fail_count they have loaded.
DeadHasFailed ==
    \A b \in Blogs : db[b] # None /\ db[b].status = "dead" => failed[b] = 3

\* A cursor moves forward again, so that pages are fetched twice, only by the
\* hand of a session that has run beside another one (crawler.py:315-318);
\* no later task, retry, redelivery after a crash or dashboard operation
\* takes back what a session has passed.
CursorGoesBack ==
    [][\A b \in Blogs : db[b] # None /\ db[b].cursor # None =>
            \/ db'[b].cursor # None /\ db'[b].cursor <= db[b].cursor
            \/ \E w \in together : pc[w] = "fetch" /\ cur[w] = b]_vars

\* The blogs a stored post was reblogged from are never forgotten, although
\* another session may insert them first (crawler.py:131-138, 321-326).
SourcesKnown ==
    \A p \in sfw \cup nsfw : \A b \in Sources[p] : db[b] # None

\* Nor does a session that found a blog missing reset the row, and so the
\* cursor, which another session has created and advanced since.
RowsKept ==
    [][\A b \in Blogs : db[b] # None =>
            /\ db'[b] # None
            /\ db[b].cursor # None => db'[b].cursor # None]_vars

\* Worker w has a page without any timestamp in hand.
OnUndated(w) == page[w] # {} /\ page[w] \cap Dated = {}

\* The loop of crawler.py:258 ends for every task, unless the API goes on for
\* ever giving it pages without a timestamp, which move no cursor.
TaskEnds ==
    \A w \in Workers :
        []<>OnUndated(w) \/ (pc[w] # "idle" ~> pc[w] = "idle")

\* So does every blog that is waiting or was interrupted: it is finished or
\* given up, or stops as 'paused' or below a target that is met.
BlogSettles ==
    \/ \E w \in Workers : []<>OnUndated(w)
    \/ \A b \in Blogs :
        b \in WithStatus({"pending", "active"})
            ~> (ThresholdReached \/ b \in WithStatus({"done", "paused", "dead"}))

\* "paused so the next run can resume them" (crawler.py:110): the next run
\* that gets to crawl() takes up every paused blog, if the target is not met
\* meanwhile and nothing fails.  That there is a next run is not said: Beat
\* enqueues pending and active blogs only (tasks.py:138).
PausedResumed ==
    \/ \E w \in Workers : []<>OnUndated(w)
    \/ \A b \in Blogs, w \in Workers, n \in 0..MaxAborts :
        (pc[w] = "seed" /\ b \in WithStatus({"paused"}) /\ aborts = n)
            ~> (ThresholdReached \/ b \notin WithStatus({"paused"}) \/ aborts > n)

-----------------------------------------------------------------------------
(* What the repository says of the crawl and the code does not do.          *)

\* crawler.py:314, "advance cursor BEFORE processing (crash-safe)": a blog
\* that is done has all its posts, or a worker is storing them.
CrashSafe == Missing = {}

=============================================================================
