---------------------------- MODULE PostIndexer ----------------------------
(***************************************************************************)
(* PostIndexer of src/mir/processing/embeddings.py over the collections of  *)
(* VectorStore: a post passes the gates and goes to Qdrant, then the        *)
(* embedding of its account is computed anew from the most recent posts and *)
(* stored in Qdrant and in PostgreSQL, then its tags.  Several indexers,    *)
(* the Celery task process_post, NSFW verdicts and failures interleave.     *)
(* Posts are numbered by published_at; a vector is the set of the posts it  *)
(* is the mean of.                                                          *)
(***************************************************************************)
EXTENDS VectorStore, FiniteSetsExt

CONSTANTS
    Indexer,    \* PostIndexer objects, each with a session of its own
    Post,       \* the posts of the database, numbers in the order of published_at
    Account,    \* the accounts
    Owner,      \* Owner[p]: the account of p
    Window,     \* settings.account_embedding_window
    Target,     \* settings.target_post_count
    FirstSfw,   \* the sets of posts that may be SFW at the start
    MaxJobs     \* bound: calls of process_and_index_post; MaxUpsets also bounds
                \* verdicts, the task's upserts and failures of an indexer

ASSUME IndexerAssumption ==
    /\ Post \subseteq Nat /\ IsFiniteSet(Post) /\ Owner \in [Post -> Account]
    /\ Window \in Nat \ {0} /\ {Target, MaxJobs} \subseteq Nat
    /\ FirstSfw \subseteq SUBSET Post

VARIABLES
    sfw,        \* the posts with nsfw = false
    point,      \* point[p]: "none", "dated" with published_at a number, "iso" a string
    vector,     \* vector[a]: the point of a in "accounts", {} for none
    embedding,  \* embedding[a]: accounts.embedding in PostgreSQL
    job,        \* job[i]: [pc, post, got]
    jobs,       \* calls so far
    blurred     \* history: blurred[a], the last job of a overlapped another,
                \* failed, or a task replaced a point of a since it began

postVars == <<sfw, point, vector, embedding, job, jobs, blurred>>
vars == <<storeVars, postVars>>

Free == [pc |-> "free", post |-> 0, got |-> {}]

Init ==
    /\ StoreInit
    /\ sfw \in FirstSfw
    /\ point = [p \in Post |-> "none"]
    /\ vector = [a \in Account |-> {}]
    /\ embedding = [a \in Account |-> {}]
    /\ job = [i \in Indexer |-> Free]
    /\ jobs = 0
    /\ blurred = [a \in Account |-> FALSE]

Busy(a) == {i \in Indexer : job[i].pc # "free" /\ Owner[job[i].post] = a}
Upset == upsets < MaxUpsets /\ upsets' = upsets + 1

-----------------------------------------------------------------------------
(* process_and_index_post.                                                  *)

\* The post is read, and the gates let it pass: it is not NSFW, and the
\* database holds fewer SFW posts than the target.
Load(i, p) ==
    /\ job[i].pc = "free" /\ jobs < MaxJobs
    /\ p \in sfw
    /\ Cardinality(sfw) < Target
    /\ job' = [job EXCEPT ![i] = [Free EXCEPT !.pc = "upsert", !.post = p]]
    /\ jobs' = jobs + 1
    /\ blurred' = [blurred EXCEPT ![Owner[p]] = Busy(Owner[p]) # {}]
    /\ UNCHANGED <<storeVars, sfw, point, vector, embedding>>

\* The point of the post.
Upsert(i) ==
    /\ job[i].pc = "upsert" /\ coll["posts"] # "absent"
    /\ point' = [point EXCEPT ![job[i].post] = "dated"]
    /\ job' = [job EXCEPT ![i].pc = "scroll"]
    /\ UNCHANGED <<storeVars, sfw, vector, embedding, jobs, blurred>>

\* Points with a string for published_at are not in the order.
Dated(a) == {p \in Post : Owner[p] = a /\ point[p] = "dated"}

\* Mutant: one post too many.
MostRecentAndOne(posts) == {p \in posts : Cardinality({q \in posts : q > p}) <= Window}

MostRecent(posts) == {p \in posts : Cardinality({q \in posts : q > p}) < Window}

\* The window; with no post in it the account is left as it is.
Scroll(i) ==
    /\ job[i].pc = "scroll" /\ coll["posts"] \in {"part", "indexed"}
    /\ \E got \in {MostRecent(Dated(Owner[job[i].post]))} :
         job' = [job EXCEPT ![i].got = got, ![i].pc = IF got = {} THEN "tags" ELSE "vector"]
    /\ UNCHANGED <<storeVars, sfw, point, vector, embedding, jobs, blurred>>

UpsertAccount(i) ==
    /\ job[i].pc = "vector" /\ coll["accounts"] # "absent"
    /\ vector' = [vector EXCEPT ![Owner[job[i].post]] = job[i].got]
    /\ job' = [job EXCEPT ![i].pc = "row"]
    /\ UNCHANGED <<storeVars, sfw, point, embedding, jobs, blurred>>

\* Mutant: an account that has an embedding keeps it.
CommitAccountOnce(i) ==
    /\ job[i].pc = "row"
    /\ embedding' = [embedding EXCEPT ![Owner[job[i].post]] = IF @ = {} THEN job[i].got ELSE @]
    /\ job' = [job EXCEPT ![i].pc = "tags"]
    /\ UNCHANGED <<storeVars, sfw, point, vector, jobs, blurred>>

\* The row is there: posts refer to it and no code deletes an account, so that
\* the branch without one, which writes nothing here, is never taken.
CommitAccount(i) ==
    /\ job[i].pc = "row"
    /\ embedding' = [embedding EXCEPT ![Owner[job[i].post]] = job[i].got]
    /\ job' = [job EXCEPT ![i].pc = "tags"]
    /\ UNCHANGED <<storeVars, sfw, point, vector, jobs, blurred>>

\* _upsert_tags, or nothing for a post without tags.  The embedding of a tag
\* depends on its name alone and is not kept track of; Communities models the
\* new points.
UpsertTags(i) ==
    /\ job[i].pc = "tags"
    /\ job' = [job EXCEPT ![i] = Free]
    /\ UNCHANGED <<storeVars, sfw, point, vector, embedding, jobs, blurred>>

\* An exception leaves what was written; the caller sees it.
Abort(i) ==
    /\ job' = [job EXCEPT ![i] = Free]
    /\ blurred' = [blurred EXCEPT ![Owner[job[i].post]] = TRUE]
    /\ UNCHANGED <<coll, api, sfw, point, vector, embedding, jobs>>

\* A collection is missing, or "posts" has no index on published_at, which a
\* scroll in its order needs.
NotIndexable(i) ==
    /\ \/ job[i].pc = "upsert" /\ coll["posts"] = "absent"
       \/ job[i].pc = "scroll" /\ coll["posts"] \notin {"part", "indexed"}
       \/ job[i].pc = "vector" /\ coll["accounts"] = "absent"
       \/ job[i].pc = "tags" /\ coll["tags"] = "absent"
    /\ Abort(i)
    /\ UNCHANGED upsets

\* Qdrant, PostgreSQL or a model fails, or the process dies.
CallFails(i) ==
    /\ job[i].pc # "free"
    /\ Upset
    /\ Abort(i)

-----------------------------------------------------------------------------
\* The task process_post writes the point of the post with published_at as an
\* ISO string.
TaskUpsert(p) ==
    /\ coll["posts"] # "absent" /\ p \in sfw /\ point[p] # "iso"
    /\ Upset
    /\ point' = [point EXCEPT ![p] = "iso"]
    /\ blurred' = [blurred EXCEPT ![Owner[p]] = TRUE]
    /\ UNCHANGED <<coll, api, sfw, vector, embedding, job, jobs>>

\* A verdict changes the row; the point stays.
Verdict(p) ==
    /\ p \in sfw
    /\ Upset
    /\ sfw' = sfw \ {p}
    /\ UNCHANGED <<coll, api, point, vector, embedding, job, jobs, blurred>>

Next ==
    \/ (StoreStep \/ EnsureBare) /\ UNCHANGED postVars
    \/ \E i \in Indexer :
         \/ \E p \in Post : Load(i, p)
         \/ Upsert(i) \/ Scroll(i) \/ UpsertAccount(i) \/ CommitAccount(i) \/ UpsertTags(i)
         \/ NotIndexable(i) \/ CallFails(i)
    \/ \E p \in Post : TaskUpsert(p) \/ Verdict(p)

Spec == Init /\ [][Next]_vars

-----------------------------------------------------------------------------
TypeOK ==
    /\ StoreTypeOK
    /\ sfw \subseteq Post
    /\ point \in [Post -> {"none", "dated", "iso"}]
    \* a vector is a window, and PostgreSQL has one only after Qdrant
    /\ \A a \in Account :
         /\ {vector[a], embedding[a]} \subseteq {w \in SUBSET {p \in Post : Owner[p] = a} : Cardinality(w) <= Window}
         /\ vector[a] = {} => embedding[a] = {}
    /\ \A i \in Indexer :
         /\ job[i].pc \in {"free", "upsert", "scroll", "vector", "row", "tags"}
         /\ job[i].pc = "vector" => job[i].got # {}
    /\ jobs \in 0 .. MaxJobs

(* Of the processes that start at the same time most may end up without a   *)
(* client, for good, because another was quicker to create a collection;    *)
(* but as long as nothing fails or stops and no PostIndexer creates any,    *)
(* one of them gets through, and every collection has its indexes           *)
(* (app.py:38-44, vector_store.py:89-122).                                  *)
RaceHasWinner ==
    (/\ upsets = 0
     /\ \A a \in Api : api[a].pc \in {"down", "up", "blind"}
     /\ \E a \in Api : api[a].pc # "down")
        => /\ \A c \in DOMAIN coll : coll[c] = "indexed"
           /\ \E a \in Api : api[a].pc = "up"

(* The embedding of an account is the mean of its most recent posts, in     *)
(* Qdrant as in PostgreSQL, once its last job has ended, unless that job    *)
(* overlapped another of the account or failed; a job that ran alone mends  *)
(* what overlapping jobs before it left behind (embeddings.py:152-241).     *)
FreshAfterQuietJob ==
    \A a \in Account :
        Busy(a) = {} /\ ~blurred[a] => /\ vector[a] = MostRecent(Dated(a))
                                       /\ embedding[a] = vector[a]
=============================================================================
