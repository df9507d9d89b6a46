---------------------------- MODULE PostPipeline ----------------------------
(***************************************************************************)
(* What happens to a post after the crawler has met it: its photos are      *)
(* downloaded (mir/ingestion/images.py), and process_post, or the legacy    *)
(* process_post_images, classifies and embeds them and writes the vector to *)
(* Qdrant (mir/workers/tasks.py).                                           *)
(*                                                                          *)
(* The state lives in three stores without a common transaction: the row in *)
(* PostgreSQL, the files on disk, the point in Qdrant.  Vectors and files   *)
(* are abstracted to the set of photos they come from.  Rows of posts are   *)
(* never deleted, so the tasks' "not_found" return cannot be reached.       *)
(*                                                                          *)
(* crawl_blog builds its ImageDownloader without a session (tasks.py:108):  *)
(* in the deployed program HasSession is FALSE and every file under         *)
(* data/raw_images was put there by somebody else (Supply).                 *)
(***************************************************************************)
EXTENDS Naturals, FiniteSets

CONSTANTS
    Workers,      \* processes of the Celery worker pool
    Posts,        \* the posts the crawler meets
    Photos,       \* Photos[p]: the photos of p, by perceptual hash
    HasText,      \* the posts with a body_clean
    Explicit,     \* the photos whose score exceeds settings.nsfw_threshold
    HasSession,   \* was the ImageDownloader given an aiohttp session?
    None,         \* no task, no file, no point
    MaxRetries,   \* max_retries of both tasks
    MaxFaults     \* bound: failures that the environment may cause

Images == UNION {Photos[p] : p \in Posts}

Kinds == {"process_post", "process_post_images"}

Message == [kind : Kinds, post : Posts, retries : 0..MaxRetries]

ASSUME PipelineAssumption ==
    /\ IsFiniteSet(Workers)
    /\ DOMAIN Photos = Posts
    /\ HasText \subseteq Posts
    /\ HasSession \in BOOLEAN
    /\ None \notin Message /\ None \notin Images /\ None # {}
    /\ MaxRetries \in Nat
    /\ MaxFaults \in Nat

VARIABLES
    stored,     \* posts with a committed row
    nsfw,       \* those whose row says nsfw = true
    embedding,  \* the photos in posts.image_embedding; {} stands for NULL
    point,      \* the photos in the Qdrant vector, {} for text alone, or None
    whole,      \* files on disk that can be decoded
    partial,    \* files on disk cut short
    left,       \* photos the crawler still has to download, None outside
    writing,    \* the file the crawler is writing
    queue,      \* messages waiting at the broker
    dead,       \* messages that went to the dead-letter queue
    lost,       \* auxiliary: those whose dead letter could not be sent
    pc,         \* where each worker is
    task,       \* the message it is processing (unacknowledged)
    loaded,     \* post.nsfw as its session read it
    seen,       \* the photos it has classified and embedded
    late,       \* auxiliary: times the point was written after the verdict
    faults      \* failures so far

tables == <<stored, nsfw, embedding, point>>
disk == <<whole, partial, left, writing>>
broker == <<queue, dead, lost>>
locals == <<pc, task, loaded, seen>>
vars == <<stored, nsfw, embedding, point, whole, partial, left, writing,
          queue, dead, lost, pc, task, loaded, seen, late, faults>>

Init ==
    /\ stored = {} /\ nsfw = {}
    /\ embedding = [p \in Posts |-> {}]
    /\ point = [p \in Posts |-> None]
    /\ whole = [p \in Posts |-> {}]
    /\ partial = [p \in Posts |-> {}]
    /\ left = [p \in Posts |-> None]
    /\ writing = [p \in Posts |-> None]
    /\ queue = {} /\ dead = {} /\ lost = {}
    /\ pc = [w \in Workers |-> "idle"]
    /\ task = [w \in Workers |-> None]
    /\ loaded = [w \in Workers |-> FALSE]
    /\ seen = [w \in Workers |-> {}]
    /\ late = [p \in Posts |-> 0]
    /\ faults = 0

Fault == faults < MaxFaults /\ faults' = faults + 1

-----------------------------------------------------------------------------
(* Crawler._process_post: the row is upserted, the photos are downloaded,   *)
(* and the page commits.  The upsert locks the row until that commit, so no *)
(* two crawl runs download the photos of one post at once, and a task that  *)
(* wants to update the row waits: Locked.                                   *)

Locked(p) == left[p] # None

\* A post is met again when crawl runs on its blog overlap, or after a page
\* was rolled back.
Persist(p) ==
    /\ ~Locked(p)
    /\ left' = [left EXCEPT ![p] = Photos[p]]
    /\ UNCHANGED <<tables, whole, partial, writing, broker, locals, late, faults>>

Handled(p, i) == left' = [left EXCEPT ![p] = @ \ {i}]

\* Without a session nothing can be fetched; a file that exists is taken for
\* a duplicate, whatever is in it.
SkipPhoto(p) ==
    /\ Locked(p) /\ writing[p] = None
    /\ \E i \in left[p] :
        /\ ~HasSession \/ i \in whole[p] \cup partial[p]
        /\ Handled(p, i)
    /\ UNCHANGED <<tables, whole, partial, writing, broker, locals, late, faults>>

\* The request fails, or what it brings is not an image.
FetchFails(p) ==
    /\ Locked(p) /\ writing[p] = None
    /\ Fault
    /\ \E i \in left[p] : Handled(p, i)
    /\ UNCHANGED <<tables, whole, partial, writing, broker, locals, late>>

\* The file is created ...
OpenFile(p) ==
    /\ Locked(p) /\ writing[p] = None /\ HasSession
    /\ \E i \in left[p] \ (whole[p] \cup partial[p]) :
        /\ writing' = [writing EXCEPT ![p] = i]
        /\ partial' = [partial EXCEPT ![p] = @ \cup {i}]
    /\ UNCHANGED <<tables, whole, left, broker, locals, late, faults>>

\* ... and filled.
CloseFile(p) ==
    /\ writing[p] # None
    /\ whole' = [whole EXCEPT ![p] = @ \cup {writing[p]}]
    /\ partial' = [partial EXCEPT ![p] = @ \ {writing[p]}]
    /\ Handled(p, writing[p])
    /\ writing' = [writing EXCEPT ![p] = None]
    /\ UNCHANGED <<tables, broker, locals, late, faults>>

\* The page commits.
StorePost(p) ==
    /\ left[p] = {} /\ writing[p] = None
    /\ stored' = stored \cup {p}
    /\ left' = [left EXCEPT ![p] = None]
    /\ UNCHANGED <<nsfw, embedding, point, whole, partial, writing, broker,
                   locals, late, faults>>

\* The crawl run dies: the transaction is gone, the files are not.
CrawlerDies(p) ==
    /\ Locked(p)
    /\ Fault
    /\ left' = [left EXCEPT ![p] = None]
    /\ writing' = [writing EXCEPT ![p] = None]
    /\ UNCHANGED <<tables, whole, partial, broker, locals, late>>

\* What crawl_blog does not download, somebody copies to data/raw_images, a
\* photo in full or in part.
Supply(p) ==
    /\ ~HasSession
    /\ \E i \in Photos[p] \ (whole[p] \cup {writing[p]}) :
        \/ /\ whole' = [whole EXCEPT ![p] = @ \cup {i}]
           /\ partial' = [partial EXCEPT ![p] = @ \ {i}]
        \/ /\ partial' = [partial EXCEPT ![p] = @ \cup {i}]
           /\ UNCHANGED whole
    /\ UNCHANGED <<tables, left, writing, broker, locals, late, faults>>

\* The crawler only logs that data/raw_images exceeds its cap: whoever reads
\* that log removes files.
Prune(p) ==
    /\ ~Locked(p)
    /\ Fault
    /\ whole' = [whole EXCEPT ![p] = {}]
    /\ partial' = [partial EXCEPT ![p] = {}]
    /\ UNCHANGED <<tables, left, writing, broker, locals, late>>

-----------------------------------------------------------------------------
(* Who asks for a post to be processed.  The crawler does not.              *)

NewTask(k, p) == [kind |-> k, post |-> p, retries |-> 0]

\* reindex_all, enqueued by POST /admin/reindex.
ReindexAll ==
    /\ queue' = queue \cup {NewTask("process_post", p) : p \in stored \ nsfw}
    /\ UNCHANGED <<tables, disk, dead, lost, locals, late, faults>>

\* A legacy caller of process_post_images.
RequestImages ==
    /\ \E p \in stored : queue' = queue \cup {NewTask("process_post_images", p)}
    /\ UNCHANGED <<tables, disk, dead, lost, locals, late, faults>>

-----------------------------------------------------------------------------
(* The two tasks.                                                           *)

Goto(w, label) == pc' = [pc EXCEPT ![w] = label]

PostOf(w) == task[w].post

\* The session closes, the message is acknowledged or handed back.
Leave(w) ==
    /\ Goto(w, "idle")
    /\ task' = [task EXCEPT ![w] = None]
    /\ loaded' = [loaded EXCEPT ![w] = FALSE]
    /\ seen' = [seen EXCEPT ![w] = {}]

\* Mutant: a task that fails for good is not dead-lettered.
RetryOrForget(w) ==
    /\ queue' = IF task[w].retries < MaxRetries
                THEN queue \cup {[task[w] EXCEPT !.retries = @ + 1]}
                ELSE queue
    /\ Leave(w)
    /\ UNCHANGED <<tables, disk, dead, lost, late>>

\* Mutant: the retry limit is not looked at.
RetryTaskForever(w) ==
    /\ queue' = queue \cup {[task[w] EXCEPT !.retries = @ + 1]}
    /\ Leave(w)
    /\ UNCHANGED <<tables, disk, dead, lost, late>>

\* The task raises and has retries left.
Requeue(w) ==
    /\ task[w].retries < MaxRetries
    /\ queue' = queue \cup {[task[w] EXCEPT !.retries = @ + 1]}
    /\ UNCHANGED <<dead, lost>>

\* It has none left: the signal handler sends a dead letter, and swallows
\* whatever that send raises.
DeadLetter(w) ==
    /\ task[w].retries >= MaxRetries
    /\ \/ dead' = dead \cup {task[w]} /\ UNCHANGED lost
       \/ lost' = lost \cup {task[w]} /\ UNCHANGED dead
    /\ UNCHANGED queue

\* The task raises: Celery retries it, or it has failed for good.
RetryTask(w) ==
    /\ Requeue(w) \/ DeadLetter(w)
    /\ Leave(w)
    /\ UNCHANGED <<tables, disk, late>>

\* A worker takes message m and loads the post.
LoadPost(w, m) ==
    /\ pc[w] = "idle"
    /\ m \in queue
    /\ queue' = queue \ {m}
    /\ task' = [task EXCEPT ![w] = m]
    /\ loaded' = [loaded EXCEPT ![w] = m.post \in nsfw]
    /\ Goto(w, "images")
    /\ UNCHANGED <<tables, disk, dead, lost, seen, late, faults>>

Files(w) == whole[PostOf(w)] \cup partial[PostOf(w)]

\* Image.open on a file cut short.
Unreadable(w) ==
    /\ pc[w] = "images"
    /\ partial[PostOf(w)] # {}
    /\ RetryTask(w)
    /\ UNCHANGED faults

\* No file: process_post goes on with the text, process_post_images is over.
NoImages(w) ==
    /\ pc[w] = "images"
    /\ Files(w) = {}
    /\ IF task[w].kind = "process_post"
       THEN Goto(w, "upsert") /\ UNCHANGED <<task, loaded, seen>>
       ELSE Leave(w)
    /\ UNCHANGED <<tables, disk, broker, late, faults>>

\* Mutant: a post is NSFW when all its photos are.
AllExplicit(S) == S \subseteq Explicit

\* any(flag for flag, _ in nsfw_results)
AnyExplicit(S) == S \cap Explicit # {}

\* The files listed are classified, and embedded if all of them are safe.
Classify(w) ==
    /\ pc[w] = "images"
    /\ Files(w) # {} /\ partial[PostOf(w)] = {}
    /\ IF AnyExplicit(Files(w))
       THEN Goto(w, "verdict") /\ UNCHANGED seen
       ELSE /\ Goto(w, IF task[w].kind = "process_post" THEN "upsert" ELSE "commit")
            /\ seen' = [seen EXCEPT ![w] = Files(w)]
    /\ UNCHANGED <<tables, disk, broker, task, loaded, late, faults>>

\* The NSFW verdict is committed and the task returns: Qdrant is not told.
Verdict(w) ==
    /\ pc[w] = "verdict"
    /\ ~Locked(PostOf(w))
    /\ nsfw' = nsfw \cup {PostOf(w)}
    /\ Leave(w)
    /\ UNCHANGED <<stored, embedding, point, disk, broker, late, faults>>

\* Mutant: the vector is written whatever the row says.
AlwaysIndexable(w) == TRUE

\* if not post.nsfw: ...
Indexable(w) == ~loaded[w]

\* The fused vector goes to Qdrant, unless there is nothing to fuse.
Upsert(w) ==
    /\ pc[w] = "upsert"
    /\ IF Indexable(w) /\ (PostOf(w) \in HasText \/ seen[w] # {})
       THEN /\ point' = [point EXCEPT ![PostOf(w)] = seen[w]]
            /\ late' = [late EXCEPT ![PostOf(w)] =
                            IF PostOf(w) \in nsfw THEN @ + 1 ELSE @]
       ELSE UNCHANGED <<point, late>>
    /\ Goto(w, "commit")
    /\ UNCHANGED <<stored, nsfw, embedding, disk, broker, task, loaded, seen, faults>>

\* The row is committed after the point was written; a task that has nothing
\* to write does not wait for the row's lock.
Commit(w) ==
    /\ pc[w] = "commit"
    /\ seen[w] # {} => ~Locked(PostOf(w))
    /\ embedding' = IF seen[w] = {} THEN embedding
                    ELSE [embedding EXCEPT ![PostOf(w)] = seen[w]]
    /\ Leave(w)
    /\ UNCHANGED <<stored, nsfw, point, disk, broker, late, faults>>

-----------------------------------------------------------------------------
(* Failures.                                                                *)

\* Qdrant, PostgreSQL or the model fails.
TaskRaises(w) ==
    /\ pc[w] # "idle"
    /\ Fault
    /\ RetryTask(w)

\* Mutant: the message is acknowledged when the task starts.
CrashAcksEarly(w) ==
    /\ pc[w] # "idle"
    /\ Fault
    /\ Leave(w)
    /\ UNCHANGED <<tables, disk, broker, late>>

\* The process dies; the message was not acknowledged (acks_late).
Crash(w) ==
    /\ pc[w] # "idle"
    /\ Fault
    /\ queue' = queue \cup {task[w]}
    /\ Leave(w)
    /\ UNCHANGED <<tables, disk, dead, lost, late>>

\* The broker's visibility timeout passes while the task still runs.
Redeliver(w) ==
    /\ pc[w] # "idle"
    /\ queue' = queue \cup {task[w]}
    /\ UNCHANGED <<tables, disk, dead, lost, locals, late, faults>>

-----------------------------------------------------------------------------

Step(w) == Unreadable(w) \/ NoImages(w) \/ Classify(w) \/ Verdict(w)
           \/ Upsert(w) \/ Commit(w)

Download(p) == SkipPhoto(p) \/ OpenFile(p) \/ CloseFile(p) \/ StorePost(p)

Next ==
    \/ \E p \in Posts : Persist(p) \/ Download(p) \/ FetchFails(p) \/ CrawlerDies(p)
                        \/ Supply(p) \/ Prune(p)
    \/ ReindexAll \/ RequestImages
    \/ \E w \in Workers, m \in queue : LoadPost(w, m)
    \/ \E w \in Workers : Step(w) \/ TaskRaises(w) \/ Crash(w) \/ Redeliver(w)

Spec == Init /\ [][Next]_vars

\* A crawl run that started a page goes on with it.  Every message has its
\* turn (the broker's list is first in, first out), and PostgreSQL grants a
\* row lock in the order in which it was asked for: hence SF.
Fairness ==
    /\ \A p \in Posts : WF_vars(Download(p))
    /\ \A m \in Message : SF_vars(\E w \in Workers : LoadPost(w, m))
    /\ \A w \in Workers : SF_vars(Step(w))

FairSpec == Spec /\ Fairness

-----------------------------------------------------------------------------
(* Properties.                                                              *)

\* Every variable holds what its comment says.
TypeOK ==
    /\ stored \subseteq Posts
    /\ nsfw \subseteq stored
    /\ embedding \in [Posts -> SUBSET Images]
    /\ point \in [Posts -> {None} \cup SUBSET Images]
    /\ whole \in [Posts -> SUBSET Images]
    /\ partial \in [Posts -> SUBSET Images]
    /\ left \in [Posts -> {None} \cup SUBSET Images]
    /\ writing \in [Posts -> Images \cup {None}]
    /\ queue \subseteq [kind : Kinds, post : stored, retries : 0..MaxRetries]
    /\ dead \subseteq Message /\ lost \subseteq Message
    /\ pc \in [Workers -> {"idle", "images", "verdict", "upsert", "commit"}]
    /\ task \in [Workers -> Message \cup {None}]
    /\ loaded \in [Workers -> BOOLEAN]
    /\ seen \in [Workers -> SUBSET Images]
    /\ late \in [Posts -> Nat]
    /\ faults \in Nat

\* No photo that the classifier rejects is in a vector, neither in Qdrant nor
\* in posts.image_embedding, although the files of a post may change between
\* two tasks and tasks on one post overlap (tasks.py:184-203, 222).
ExplicitNotIndexed ==
    \A p \in Posts :
        /\ embedding[p] \cap Explicit = {}
        /\ point[p] # None => point[p] \cap Explicit = {}

\* The gate before the upsert looks at post.nsfw as the task has read it
\* (tasks.py:209), so a task may write the point of a post that another task
\* has found NSFW meanwhile.  It cannot go on: after the verdict each of the
\* other workers does so once at most, however often messages are delivered
\* again, retried or sent anew, because every delivery reads the row again.
LateWritesBounded ==
    \A p \in nsfw : late[p] < Cardinality(Workers)

\* A process_post message on p is among S.
Given(S, p) == \E m \in S : m.kind = "process_post" /\ m.post = p

\* A task that will process p is to come, or running.
Outstanding(p) ==
    \/ Given(queue, p)
    \/ \E w \in Workers : task[w] # None /\ PostOf(w) = p
                          /\ task[w].kind = "process_post"

\* The point is written before the row is committed (tasks.py:222-224).  If
\* the row lacks the photos of the point, a task that will write it is still
\* to come, or has failed for good: at-least-once delivery repairs what a
\* crash between the two writes left.  Of a task that has failed for good
\* there is a dead letter, unless sending it failed too (celery_app.py:106).
\* (A post without text whose files are removed in between is the exception:
\* nothing is left to repair it.)
HalfDoneIsRepaired ==
    \A p \in HasText \ nsfw :
        point[p] \notin {None, {}} /\ embedding[p] = {} =>
            Outstanding(p) \/ Given(dead, p) \/ Given(lost, p)

\* A post with text that someone asked to be processed ends up in Qdrant, or
\* is found NSFW, or its task fails for good, which shows in the dead-letter
\* queue unless the handler has swallowed the failure of that send.
Processed ==
    \A p \in HasText :
        Given(queue, p) ~> \/ point[p] # None
                           \/ p \in nsfw
                           \/ Given(dead, p) \/ Given(lost, p)

-----------------------------------------------------------------------------
(* What the repository says and the code does not do.                       *)

\* safety.py:169, "NSFW posts MUST be excluded from all Qdrant collections":
\* a post found NSFW has no point, once no task works on it any more.
NsfwNotInQdrant ==
    \A p \in nsfw : point[p] # None => Outstanding(p)

=============================================================================
