---------------------------- MODULE Communities ----------------------------
(***************************************************************************)
(* The nightly rebuild of the communities table:                            *)
(* src/mir/processing/communities.py, run by the Celery task                *)
(* rebuild_communities for Beat and for the administrator.  A rebuild       *)
(* deletes the old clusters and commits, scrolls the tags in Qdrant page by *)
(* page, clusters and inserts them, then does the same with the accounts.   *)
(* Rebuilds overlap, fail, are retried, die with their worker and are       *)
(* delivered again, while posts go on being indexed.                        *)
(***************************************************************************)
EXTENDS Integers, FiniteSetsExt

CONSTANTS
    Worker,         \* slots of the gpu queue's workers
    Tag, Account,   \* ids of the points that may exist, positive numbers
    FirstTags,      \* the sets of tags that may be in Qdrant at the start
    FirstAccounts,  \* the accounts in Qdrant at the start
    BatchSize,      \* points per page of a scroll
    MinCluster,     \* _HDBSCAN_MIN_CLUSTER_SIZE
    TagLabels,      \* the labellings k-means may find, restricted to the tags it gets
    AccountLabels,  \* those HDBSCAN may find; label 0 is its noise
    Hdbscan,        \* whether the package is installed
    MaxRetries,     \* max_retries of the task
    MaxRequests,    \* bound: rebuilds asked for by Beat and the administrator
    MaxFaults       \* bound: failed calls and lost workers together

ASSUME CommunitiesAssumption ==
    /\ Tag \cup Account \subseteq Nat \ {0}
    /\ FirstTags \subseteq SUBSET Tag /\ FirstAccounts \subseteq Account
    /\ TagLabels \subseteq [Tag -> Nat \ {0}] /\ AccountLabels \subseteq [Account -> Nat]
    /\ {BatchSize, MinCluster} \subseteq Nat \ {0}
    /\ {MaxRetries, MaxRequests, MaxFaults} \subseteq Nat
    /\ Hdbscan \in BOOLEAN

VARIABLES
    points,     \* the collections "tags" and "accounts" of Qdrant
    table,      \* rows of the table: kind, members; history: the run that
                \* inserted it and the points there were when its scroll began
    queue,      \* messages of the task: [id, retries]
    work,       \* work[w]: what the worker is doing
    requests,   \* rebuilds asked for so far
    runs,       \* history: attempts started so far
    overlaps,   \* history: the pairs of attempts that were under way together
    faults      \* failed calls and lost workers so far

vars == <<points, table, queue, work, requests, runs, overlaps, faults>>

Kinds == {"tags", "accounts"}
Idle == [pc |-> "idle", msg |-> [id |-> 0, retries |-> 0], run |-> 0, kind |-> "tags",
         got |-> {}, next |-> 1, owed |-> {}]

Init ==
    /\ \E tags \in FirstTags : points = [k \in Kinds |-> IF k = "tags" THEN tags ELSE FirstAccounts]
    /\ table = {}
    /\ queue = {}
    /\ work = [w \in Worker |-> Idle]
    /\ requests = 0
    /\ runs = 0
    /\ overlaps = {}
    /\ faults = 0

Busy(w) == work[w].pc # "idle"

-----------------------------------------------------------------------------
(* Messages.                                                                *)

\* Beat at 03:00, or POST /api/v1/admin/rebuild_communities at any time.
Request ==
    /\ requests < MaxRequests
    /\ requests' = requests + 1
    /\ queue' = queue \cup {[id |-> requests + 1, retries |-> 0]}
    /\ UNCHANGED <<points, table, work, runs, overlaps, faults>>

Begin(w) ==
    /\ ~Busy(w)
    /\ \E m \in queue :
         /\ queue' = queue \ {m}
         /\ runs' = runs + 1
         /\ work' = [work EXCEPT ![w] = [Idle EXCEPT !.pc = "clear", !.msg = m, !.run = runs + 1]]
         /\ overlaps' = overlaps \cup {{runs + 1, work[v].run} : v \in {u \in Worker : Busy(u)}}
    /\ UNCHANGED <<points, table, requests, faults>>

\* Mutant: the retry counter is not carried over.
RaisesAfresh(w) ==
    /\ queue' = queue \cup {[work[w].msg EXCEPT !.retries = 0]}
    /\ work' = [work EXCEPT ![w] = Idle]

\* Mutant: no retry.
RaisesForGood(w) ==
    /\ queue' = queue
    /\ work' = [work EXCEPT ![w] = Idle]

\* An exception: the open transaction is rolled back; self.retry, or the task
\* has failed for good.
Raises(w) ==
    /\ queue' = IF work[w].msg.retries < MaxRetries
                  THEN queue \cup {[work[w].msg EXCEPT !.retries = @ + 1]} ELSE queue
    /\ work' = [work EXCEPT ![w] = Idle]

\* Qdrant or PostgreSQL fails under the attempt.
CallFails(w) ==
    /\ Busy(w)
    /\ faults < MaxFaults /\ faults' = faults + 1
    /\ Raises(w)
    /\ UNCHANGED <<points, table, requests, runs, overlaps>>

\* The worker is lost; the message was not acknowledged and comes back.
WorkerLost(w) ==
    /\ Busy(w)
    /\ faults < MaxFaults /\ faults' = faults + 1
    /\ queue' = queue \cup {work[w].msg}
    /\ work' = [work EXCEPT ![w] = Idle]
    /\ UNCHANGED <<points, table, requests, runs, overlaps>>

-----------------------------------------------------------------------------
(* An attempt.                                                              *)

\* Mutant: only the clusters of tags are deleted.
ClearTags(w) ==
    /\ work[w].pc = "clear"
    /\ table' = {row \in table : row.kind # "tags"}
    /\ work' = [work EXCEPT ![w].pc = "scroll", ![w].owed = points["tags"]]
    /\ UNCHANGED <<points, queue, requests, runs, overlaps, faults>>

\* DELETE and COMMIT: every cluster that another attempt has committed by now.
Clear(w) ==
    /\ work[w].pc = "clear"
    /\ table' = {}
    /\ work' = [work EXCEPT ![w].pc = "scroll", ![w].owed = points["tags"]]
    /\ UNCHANGED <<points, queue, requests, runs, overlaps, faults>>

\* The ids from the offset on, and the first page of them.
Rest(w) == {i \in points[work[w].kind] : i >= work[w].next}
FirstPage(ids) == {i \in ids : Cardinality({j \in ids : j < i}) < BatchSize}

\* Mutant: the next page begins after its offset.
OffsetExcluded(ids) == Min(ids) + 1

\* next_page_offset: the first id that was not returned.
Offset(ids) == Min(ids)

\* One page; Qdrant scrolls in the order of the ids.
Scroll(w) ==
    /\ work[w].pc = "scroll"
    /\ LET page == FirstPage(Rest(w))
           left == Rest(w) \ page
       IN  work' = [work EXCEPT ![w].got = @ \cup page,
                                ![w].next = IF left = {} THEN @ ELSE Offset(left),
                                ![w].pc = IF left = {} THEN "cluster" ELSE "scroll"]
    /\ UNCHANGED <<points, table, queue, requests, runs, overlaps, faults>>

\* The clusters of a labelling of what was scrolled.
Clusters(ids, label) == {{i \in ids : label[i] = c} : c \in {label[i] : i \in ids} \ {0}}

\* The rows of an attempt, inserted and committed together.
Rows(w, clusters) ==
    {[kind |-> work[w].kind, members |-> c, run |-> work[w].run, owed |-> work[w].owed] : c \in clusters}

\* Phase 1 ends, Phase 2 begins, unless hdbscan is missing.
Proceed(w) ==
    work' = [work EXCEPT ![w] = IF Hdbscan THEN [@ EXCEPT !.pc = "scroll", !.kind = "accounts", !.got = {},
                                                          !.next = 1, !.owed = points["accounts"]]
                                           ELSE Idle]

\* Fewer than two tags are skipped.  Else k-means with the k of the best
\* silhouette, or one cluster of all when the vectors coincide.
ClusterTags(w) ==
    /\ work[w].pc = "cluster" /\ work[w].kind = "tags"
    /\ \/ Cardinality(work[w].got) < 2 /\ UNCHANGED table
       \/ /\ Cardinality(work[w].got) >= 2
          /\ \E label \in TagLabels :
               /\ Cardinality(Clusters(work[w].got, label)) < Cardinality(work[w].got)
               /\ table' = table \cup Rows(w, Clusters(work[w].got, label))
    /\ Proceed(w)
    /\ UNCHANGED <<points, queue, requests, runs, overlaps, faults>>

\* silhouette_score raises ValueError when every tag is a cluster of its own,
\* which k = 2 means for two tags.
SilhouetteRaises(w) ==
    /\ work[w].pc = "cluster" /\ work[w].kind = "tags"
    /\ Cardinality(work[w].got) >= 2
    /\ \E label \in TagLabels : Cardinality(Clusters(work[w].got, label)) = Cardinality(work[w].got)
    /\ Raises(w)
    /\ UNCHANGED <<points, table, requests, runs, overlaps, faults>>

\* HDBSCAN: clusters of MinCluster and more, the rest is noise.  The attempt
\* ends and its message is acknowledged.
ClusterAccounts(w) ==
    /\ work[w].pc = "cluster" /\ work[w].kind = "accounts"
    /\ \/ Cardinality(work[w].got) < 2 * MinCluster /\ UNCHANGED table
       \/ /\ Cardinality(work[w].got) >= 2 * MinCluster
          /\ \E label \in AccountLabels :
               table' = table \cup Rows(w, {c \in Clusters(work[w].got, label) : Cardinality(c) >= MinCluster})
    /\ work' = [work EXCEPT ![w] = Idle]
    /\ UNCHANGED <<points, queue, requests, runs, overlaps, faults>>

-----------------------------------------------------------------------------
\* PostIndexer stores the vector of a tag or of an account.
Index(kind, i) ==
    /\ i \notin points[kind]
    /\ points' = [points EXCEPT ![kind] = @ \cup {i}]
    /\ UNCHANGED <<table, queue, work, requests, runs, overlaps, faults>>

Next ==
    \/ Request
    \/ \E w \in Worker :
         \/ Begin(w) \/ CallFails(w) \/ WorkerLost(w) \/ Clear(w) \/ Scroll(w)
         \/ ClusterTags(w) \/ SilhouetteRaises(w) \/ ClusterAccounts(w)
    \/ \E i \in Tag : Index("tags", i)
    \/ \E i \in Account : Index("accounts", i)

\* Workers take messages and go on with what they do.  Neither requests nor
\* new points have to come.
Fairness ==
    \A w \in Worker : WF_vars(\/ Begin(w) \/ Clear(w) \/ Scroll(w) \/ ClusterTags(w)
                              \/ SilhouetteRaises(w) \/ ClusterAccounts(w))

Spec == Init /\ [][Next]_vars
FairSpec == Spec /\ Fairness

-----------------------------------------------------------------------------
Messages == [id : 1 .. requests, retries : 0 .. MaxRetries]
TagRows(run) == {row \in table : row.kind = "tags" /\ row.run = run}

TypeOK ==
    /\ points \in [Kinds -> SUBSET (Tag \cup Account)]
    /\ \A row \in table : row.kind \in Kinds /\ row.members # {} /\ row.run \in 1 .. runs
    /\ queue \subseteq Messages
    /\ \A w \in Worker : Busy(w) => /\ work[w].msg \in Messages
                                    /\ work[w].got \subseteq points[work[w].kind]
    \* every message has one carrier
    /\ \A v, w \in Worker : Busy(v) /\ v # w => work[v].msg.id # work[w].msg.id
    /\ \A m \in queue : /\ \A n \in queue : m.id = n.id => m = n
                        /\ \A w \in Worker : Busy(w) => work[w].msg.id # m.id
    /\ runs <= requests * (MaxRetries + 1) + faults
    /\ requests \in 0 .. MaxRequests /\ faults \in 0 .. MaxFaults

(* Clusters of two attempts stand side by side only if the attempts were    *)
(* under way together: an attempt that failed between its two commits, or   *)
(* died and was delivered again, leaves nothing behind for the next         *)
(* (communities.py:43, 47-50).                                              *)
DuplicatesOverlap ==
    \A r, s \in table : r.run # s.run => {r.run, s.run} \in overlaps

(* The clusters of an attempt hold every tag that was in Qdrant when its    *)
(* scroll began in exactly one cluster, and every account in at most one,   *)
(* whatever is indexed between two pages (communities.py:206-230).          *)
ScrollComplete ==
    \A r \in table :
        /\ r.kind = "tags" => \A t \in r.owed : Quantify(TagRows(r.run), LAMBDA row : t \in row.members) = 1
        /\ \A s \in table : r # s /\ r.run = s.run /\ r.kind = s.kind => r.members \cap s.members = {}

(* With three tags or more, the table that a rebuild has emptied is filled  *)
(* again and stays so, although attempts that overlap delete each other's   *)
(* rows, fail and die, as long as the retries last (tasks.py:284-291,       *)
(* communities.py:47-53).                                                   *)
Refilled ==
    Cardinality(points["tags"]) > 2
        => <>[](runs > 0 => \E row \in table : row.kind = "tags")
=============================================================================
