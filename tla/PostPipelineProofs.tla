------------------------- MODULE PostPipelineProofs -------------------------
(***************************************************************************)
(* Theorems about PostPipeline for every number of workers, posts and       *)
(* photos, every retry limit and any number of failures.                    *)
(***************************************************************************)
EXTENDS PostPipeline, FiniteSetTheorems, TLAPS

Delivered == [kind : Kinds, post : stored, retries : 0..MaxRetries]

\* What a worker holds: a task on a stored post, and photos found safe; only
\* process_post comes to the upsert.
WorkerInv ==
    /\ \A w \in Workers : pc[w] # "idle" => task[w] \in Delivered
    /\ \A w \in Workers : seen[w] \cap Explicit = {}
    /\ \A w \in Workers : pc[w] = "upsert" => task[w].kind = "process_post"

\* A file is written by the crawl run that holds the row.
WritingInv == \A p \in Posts : writing[p] # None => left[p] # None

IInv == TypeOK /\ WorkerInv /\ WritingInv /\ ExplicitNotIndexed

USE DEF Message, Kinds, Delivered, tables, disk, broker, locals, vars

\* What the two ways to end a task leave behind.
LEMMA LeaveFacts ==
    ASSUME TypeOK, WorkerInv, NEW w \in Workers, Leave(w)
    PROVE  /\ pc' \in [Workers -> {"idle", "images", "verdict", "upsert", "commit"}]
           /\ task' \in [Workers -> Message \cup {None}]
           /\ loaded' \in [Workers -> BOOLEAN]
           /\ seen' \in [Workers -> SUBSET Images]
           /\ pc'[w] = "idle"
           /\ \A v \in Workers \ {w} : pc'[v] = pc[v] /\ task'[v] = task[v]
           /\ \A v \in Workers : seen'[v] \in {seen[v], {}}
  BY DEF Leave, Goto, TypeOK

\* A retry or a dead letter keeps the message well-formed, and ends the task.
LEMMA RetryFacts ==
    ASSUME PipelineAssumption, TypeOK, WorkerInv,
           NEW w \in Workers, pc[w] # "idle", RetryTask(w)
    PROVE  /\ queue' \subseteq Delivered
           /\ dead' \subseteq Message /\ lost' \subseteq Message
           /\ Leave(w)
           /\ UNCHANGED <<tables, disk, late>>
  <1>1. Leave(w) /\ UNCHANGED <<tables, disk, late>> /\ (Requeue(w) \/ DeadLetter(w))
    BY Zenon DEF RetryTask
  <1>2. task[w] \in Delivered /\ stored \subseteq Posts
        /\ queue \subseteq Delivered /\ dead \subseteq Message /\ lost \subseteq Message
    BY DEF WorkerInv, TypeOK
  <1>3. task[w] \in Message
    BY <1>2
  <1>4. CASE Requeue(w)
    <2>1. [task[w] EXCEPT !.retries = @ + 1] \in Delivered
      BY <1>2, <1>4 DEF Requeue, PipelineAssumption
    <2>2. /\ queue' = queue \cup {[task[w] EXCEPT !.retries = @ + 1]}
          /\ dead' = dead /\ lost' = lost
      BY <1>4, Zenon DEF Requeue
    <2> QED BY <1>1, <1>2, <2>1, <2>2, Zenon
  <1>5. CASE DeadLetter(w)
    <2>1. /\ queue' = queue
          /\ dead' \in {dead, dead \cup {task[w]}}
          /\ lost' \in {lost, lost \cup {task[w]}}
      BY <1>5 DEF DeadLetter
    <2> QED BY <1>1, <1>2, <1>3, <2>1
  <1> QED BY <1>1, <1>4, <1>5

\* The initial states satisfy the invariant.
LEMMA InitEstablishes ==
    ASSUME PipelineAssumption, Init
    PROVE  IInv
  <1>1. TypeOK
    BY DEF PipelineAssumption, Init, TypeOK
  <1>2. WorkerInv /\ WritingInv
    BY DEF Init, WorkerInv, WritingInv
  <1>3. ExplicitNotIndexed
    BY DEF Init, ExplicitNotIndexed
  <1> QED BY <1>1, <1>2, <1>3 DEF IInv

\* The crawler's steps touch the disk and the set of stored posts only.
LEMMA CrawlerPreserves ==
    ASSUME PipelineAssumption, IInv, NEW p \in Posts,
           Persist(p) \/ Download(p) \/ FetchFails(p) \/ CrawlerDies(p)
           \/ Supply(p) \/ Prune(p)
    PROVE  IInv'
  <1> USE DEF IInv
  <1>0. Photos[p] \subseteq Images
    BY DEF Images
  <1>1. CASE Persist(p)
    BY <1>0, <1>1 DEF Persist, Locked, TypeOK, WorkerInv, WritingInv, ExplicitNotIndexed
  <1>2. CASE SkipPhoto(p)
    <2>1. /\ left[p] # None /\ writing[p] = None
          /\ \E i \in left[p] : left' = [left EXCEPT ![p] = @ \ {i}]
          /\ UNCHANGED <<tables, whole, partial, writing, broker, locals, late, faults>>
      BY <1>2, Zenon DEF SkipPhoto, Handled, Locked
    <2> QED BY <2>1 DEF TypeOK, WorkerInv, WritingInv, ExplicitNotIndexed
  <1>3. CASE FetchFails(p)
    BY <1>3 DEF FetchFails, Handled, Locked, Fault, TypeOK, WorkerInv, WritingInv, ExplicitNotIndexed
  <1>4. CASE OpenFile(p)
    BY <1>4 DEF OpenFile, Locked, TypeOK, WorkerInv, WritingInv, ExplicitNotIndexed
  <1>5. CASE CloseFile(p)
    BY <1>5 DEF CloseFile, Handled, TypeOK, WorkerInv, WritingInv, ExplicitNotIndexed
  <1>6. CASE StorePost(p)
    BY <1>6 DEF StorePost, TypeOK, WorkerInv, WritingInv, ExplicitNotIndexed
  <1>7. CASE CrawlerDies(p)
    BY <1>7 DEF CrawlerDies, Fault, TypeOK, WorkerInv, WritingInv, ExplicitNotIndexed
  <1>8. CASE Prune(p)
    BY <1>8 DEF Prune, Fault, TypeOK, WorkerInv, WritingInv, ExplicitNotIndexed
  <1>9. CASE Supply(p)
    BY <1>0, <1>9 DEF Supply, TypeOK, WorkerInv, WritingInv, ExplicitNotIndexed
  <1> QED BY <1>1, <1>2, <1>3, <1>4, <1>5, <1>6, <1>7, <1>8, <1>9 DEF Download

\* A task's step that ends it keeps the invariant, whatever else it writes.
LEMMA LeavePreserves ==
    ASSUME PipelineAssumption, IInv, NEW w \in Workers, Leave(w), UNCHANGED disk,
           stored' = stored, nsfw' \subseteq stored,
           embedding' \in [Posts -> SUBSET Images], point' = point,
           late' = late, queue' \subseteq Delivered, dead' \subseteq Message,
           lost' \subseteq Message, faults' \in Nat,
           \A p \in Posts : embedding'[p] \cap Explicit = {}
    PROVE  IInv'
  <1>0. TypeOK /\ WorkerInv /\ WritingInv /\ ExplicitNotIndexed
    BY DEF IInv
  <1>1. TypeOK'
    BY <1>0, LeaveFacts DEF TypeOK
  <1>2. WorkerInv'
    BY <1>0, LeaveFacts DEF WorkerInv
  <1>3. WritingInv' /\ ExplicitNotIndexed'
    BY <1>0 DEF WritingInv, ExplicitNotIndexed
  <1> QED BY <1>1, <1>2, <1>3 DEF IInv

\* A step that only adds messages keeps the invariant.
LEMMA QueuePreserves ==
    ASSUME PipelineAssumption, IInv, queue' \subseteq Delivered,
           UNCHANGED <<tables, disk, dead, lost, locals, late, faults>>
    PROVE  IInv'
  BY DEF IInv, TypeOK, WorkerInv, WritingInv, ExplicitNotIndexed

\* The steps of a worker that has a task keep the invariant.
LEMMA TaskPreserves ==
    ASSUME PipelineAssumption, IInv, NEW w \in Workers,
           Step(w) \/ TaskRaises(w) \/ Crash(w) \/ Redeliver(w)
    PROVE  IInv'
  <1>0. TypeOK /\ WorkerInv /\ WritingInv /\ ExplicitNotIndexed
    BY DEF IInv
  <1>a. /\ stored \subseteq Posts /\ nsfw \subseteq stored
        /\ embedding \in [Posts -> SUBSET Images] /\ faults \in Nat
        /\ queue \subseteq Delivered
        /\ dead \subseteq Message /\ lost \subseteq Message
        /\ \A p \in Posts : embedding[p] \cap Explicit = {}
    BY <1>0 DEF TypeOK, ExplicitNotIndexed
  <1>b. pc[w] # "idle" => task[w] \in Delivered /\ PostOf(w) \in stored
    BY <1>0 DEF WorkerInv, PostOf
  <1>c. seen[w] \in SUBSET Images /\ seen[w] \cap Explicit = {}
    BY <1>0 DEF TypeOK, WorkerInv
  <1>1. CASE Unreadable(w)
    <2>1. pc[w] # "idle" /\ RetryTask(w) /\ faults' = faults
      BY <1>1 DEF Unreadable
    <2> QED BY <1>0, <1>a, <2>1, RetryFacts, LeavePreserves
  <1>2. CASE NoImages(w)
    <2>1. CASE task[w].kind = "process_post"
      BY <1>0, <1>2, <2>1 DEF NoImages, Goto, IInv, TypeOK, WorkerInv, WritingInv,
                              ExplicitNotIndexed
    <2>2. CASE task[w].kind # "process_post"
      BY <1>a, <1>2, <2>2, LeavePreserves DEF NoImages
    <2> QED BY <2>1, <2>2
  <1>3. CASE Classify(w)
    <2>1. Files(w) \subseteq Images
      BY <1>0, <1>b, <1>3 DEF Classify, Files, TypeOK
    <2>2. CASE AnyExplicit(Files(w))
      BY <1>0, <1>3, <2>2 DEF Classify, Goto, IInv, TypeOK, WorkerInv, WritingInv,
                              ExplicitNotIndexed
    <2>3. CASE ~AnyExplicit(Files(w))
      BY <1>0, <1>b, <1>3, <2>1, <2>3
      DEF Classify, AnyExplicit, Goto, IInv, TypeOK, WorkerInv, WritingInv,
          ExplicitNotIndexed
    <2> QED BY <2>2, <2>3
  <1>4. CASE Verdict(w)
    <2>1. nsfw' \subseteq stored
      BY <1>a, <1>b, <1>4 DEF Verdict
    <2> QED BY <1>a, <1>4, <2>1, LeavePreserves DEF Verdict
  <1>5. CASE Upsert(w)
    <2>1. PostOf(w) \in Posts
      BY <1>a, <1>b, <1>5 DEF Upsert
    <2>2. /\ point' \in [Posts -> {None} \cup SUBSET Images]
          /\ \A p \in Posts : point'[p] # None => point'[p] \cap Explicit = {}
          /\ late' \in [Posts -> Nat]
      BY <1>0, <1>c, <1>5, <2>1 DEF Upsert, TypeOK, ExplicitNotIndexed
    <2> QED BY <1>0, <1>5, <2>2 DEF Upsert, Goto, IInv, TypeOK, WorkerInv, WritingInv,
                                    ExplicitNotIndexed
  <1>6. CASE Commit(w)
    <2>1. /\ embedding' \in [Posts -> SUBSET Images]
          /\ \A p \in Posts : embedding'[p] \cap Explicit = {}
      BY <1>a, <1>c, <1>6 DEF Commit
    <2> QED BY <1>a, <1>6, <2>1, LeavePreserves DEF Commit
  <1>7. CASE TaskRaises(w)
    <2>1. pc[w] # "idle" /\ RetryTask(w) /\ faults' \in Nat
      BY <1>a, <1>7 DEF TaskRaises, Fault
    <2> QED BY <1>0, <1>a, <2>1, RetryFacts, LeavePreserves
  <1>8. CASE Crash(w)
    <2>1. faults' \in Nat /\ queue' \subseteq Delivered
      BY <1>a, <1>b, <1>8 DEF Crash, Fault
    <2> QED BY <1>a, <1>8, <2>1, LeavePreserves DEF Crash
  <1>9. CASE Redeliver(w)
    <2>1. queue' \subseteq Delivered
      BY <1>a, <1>b, <1>9 DEF Redeliver
    <2> QED BY <1>9, <2>1, QueuePreserves DEF Redeliver
  <1> QED BY <1>1, <1>2, <1>3, <1>4, <1>5, <1>6, <1>7, <1>8, <1>9 DEF Step

\* Every step keeps the invariant.
LEMMA NextPreserves ==
    ASSUME PipelineAssumption, IInv, [Next]_vars
    PROVE  IInv'
  <1>1. CASE \E p \in Posts : Persist(p) \/ Download(p) \/ FetchFails(p)
                              \/ CrawlerDies(p) \/ Supply(p) \/ Prune(p)
    BY <1>1, CrawlerPreserves
  <1>2. CASE ReindexAll
    <2>1. queue' \subseteq Delivered
      BY <1>2 DEF ReindexAll, NewTask, IInv, TypeOK, PipelineAssumption
    <2> QED BY <1>2, <2>1, QueuePreserves DEF ReindexAll
  <1>3. CASE RequestImages
    <2>1. queue' \subseteq Delivered
      BY <1>3 DEF RequestImages, NewTask, IInv, TypeOK, PipelineAssumption
    <2> QED BY <1>3, <2>1, QueuePreserves DEF RequestImages
  <1>4. ASSUME NEW w \in Workers, NEW m \in queue, LoadPost(w, m)
        PROVE  IInv'
    BY <1>4 DEF LoadPost, Goto, IInv, TypeOK, WorkerInv, WritingInv, ExplicitNotIndexed
  <1>5. CASE \E w \in Workers : Step(w) \/ TaskRaises(w) \/ Crash(w) \/ Redeliver(w)
    BY <1>5, TaskPreserves
  <1>6. CASE UNCHANGED vars
    BY <1>6 DEF IInv, TypeOK, WorkerInv, WritingInv, ExplicitNotIndexed
  <1> QED BY <1>1, <1>2, <1>3, <1>4, <1>5, <1>6 DEF Next

\* The strengthening: types, what a worker holds, who writes a file, and the
\* property itself.
THEOREM Invariance == Spec => []IInv
  <1>1. Init => IInv
    BY PipelineAssumption, InitEstablishes
  <1>2. IInv /\ [Next]_vars => IInv'
    BY PipelineAssumption, NextPreserves
  <1> QED BY <1>1, <1>2, PTL DEF Spec

\* Rows, files, vectors and messages are what they are said to be: a flagged
\* post has a row, a message is about a stored post, and no message was
\* retried more often than max_retries.
THEOREM TypeCorrect == Spec => []TypeOK
  <1>1. IInv => TypeOK
    BY DEF IInv
  <1> QED BY <1>1, Invariance, PTL

\* No photo that the classifier rejects is ever in a vector, however the
\* tasks on a post, the downloads and the failures interleave.
THEOREM ExplicitStaysOut == Spec => []ExplicitNotIndexed
  <1>1. IInv => ExplicitNotIndexed
    BY DEF IInv
  <1> QED BY <1>1, Invariance, PTL

-----------------------------------------------------------------------------
(* How often the point is written after the verdict.                        *)

\* The tasks that have read post.nsfw = false of p and may still write its
\* point.
Unaware(p) == {w \in Workers : /\ pc[w] \in {"images", "upsert"}
                               /\ PostOf(w) = p
                               /\ ~loaded[w]}

\* Each of them can write it once; the worker that found p NSFW is not among
\* them, and none is added, because nsfw is never taken back.
LateInv ==
    \A p \in Posts :
        /\ p \notin nsfw => late[p] = 0
        /\ p \in nsfw => late[p] + Cardinality(Unaware(p)) < Cardinality(Workers)

\* A worker's step leaves what the others hold.
LEMMA OthersKeep ==
    ASSUME IInv, NEW w \in Workers,
           Step(w) \/ TaskRaises(w) \/ Crash(w) \/ Redeliver(w)
    PROVE  /\ pc[w] # "idle"
           /\ Leave(w) \/ UNCHANGED <<task, loaded>>
           /\ pc' = [pc EXCEPT ![w] = pc'[w]]
           /\ \A v \in Workers \ {w} : PostOf(v)' = PostOf(v) /\ loaded'[v] = loaded[v]
  <1>0. TypeOK
    BY DEF IInv
  <1>1. /\ pc[w] # "idle"
        /\ \/ Leave(w)
           \/ UNCHANGED <<task, loaded, pc>>
           \/ UNCHANGED <<task, loaded>> /\ \E l : Goto(w, l)
    BY DEF Step, Unreadable, NoImages, Classify, Verdict, Upsert, Commit,
       TaskRaises, RetryTask, Crash, Redeliver
  <1> QED BY <1>0, <1>1 DEF Leave, Goto, TypeOK, PostOf

\* While p is flagged no task comes to be unaware of it.
LEMMA UnawareShrinks ==
    ASSUME IInv, [Next]_vars, NEW p \in nsfw
    PROVE  Unaware(p)' \subseteq Unaware(p)
  <1>0. TypeOK
    BY DEF IInv
  <1>1. CASE UNCHANGED locals
    BY <1>1 DEF Unaware, PostOf
  <1>2. ASSUME NEW w \in Workers, NEW m \in queue, LoadPost(w, m)
        PROVE  Unaware(p)' \subseteq Unaware(p)
    <2>1. /\ pc' = [pc EXCEPT ![w] = "images"] /\ task' = [task EXCEPT ![w] = m]
          /\ loaded' = [loaded EXCEPT ![w] = m.post \in nsfw]
      BY <1>2 DEF LoadPost, Goto
    <2>2. \A v \in Workers \ {w} :
            pc'[v] = pc[v] /\ task'[v] = task[v] /\ loaded'[v] = loaded[v]
      BY <2>1
    <2>3. task'[w] = m /\ loaded'[w] = (m.post \in nsfw)
      BY <1>0, <2>1 DEF TypeOK
    <2>4. w \notin Unaware(p)'
      BY <2>3 DEF Unaware, PostOf
    <2>5. \A v \in Workers \ {w} : v \in Unaware(p)' => v \in Unaware(p)
      BY <2>2 DEF Unaware, PostOf
    <2>6. Unaware(p)' \subseteq Workers
      BY DEF Unaware
    <2> QED BY <2>4, <2>5, <2>6
  <1>3. ASSUME NEW w \in Workers, Step(w) \/ TaskRaises(w) \/ Crash(w) \/ Redeliver(w)
        PROVE  Unaware(p)' \subseteq Unaware(p)
    <2>1. \A v \in Workers \ {w} : v \in Unaware(p)' => v \in Unaware(p)
      BY <1>0, <1>3, OthersKeep DEF Unaware, TypeOK
    <2>2. w \in Unaware(p)' => w \in Unaware(p)
      <3>1. CASE Leave(w)
        BY <1>0, <3>1 DEF Leave, Goto, Unaware, TypeOK
      <3>2. CASE NoImages(w) \/ Classify(w) \/ Upsert(w) \/ Redeliver(w)
        BY <1>0, <3>1, <3>2 DEF NoImages, Classify, Upsert, Redeliver, Goto, Unaware,
           PostOf, TypeOK
      <3> QED
        BY <1>3, <3>1, <3>2 DEF Step, Unreadable, Verdict, Commit, TaskRaises,
           RetryTask, Crash
    <2>3. Unaware(p)' \subseteq Workers
      BY DEF Unaware
    <2> QED BY <2>1, <2>2, <2>3
  <1>4. \/ UNCHANGED locals
        \/ \E w \in Workers, m \in queue : LoadPost(w, m)
        \/ \E w \in Workers : Step(w) \/ TaskRaises(w) \/ Crash(w) \/ Redeliver(w)
    BY DEF Next, Persist, Download, SkipPhoto, OpenFile, CloseFile, StorePost,
       FetchFails, CrawlerDies, Supply, Prune, ReindexAll, RequestImages
  <1> QED BY <1>1, <1>2, <1>3, <1>4

\* A write that counts is made by an unaware task, which commits next.
LEMMA LateWrite ==
    ASSUME IInv, [Next]_vars, NEW p \in Posts
    PROVE  \/ late'[p] = late[p]
           \/ /\ late'[p] = late[p] + 1 /\ p \in nsfw
              /\ \E w \in Unaware(p) : w \notin Unaware(p)'
  <1>0. TypeOK
    BY DEF IInv
  <1>1. CASE late' = late
    BY <1>1
  <1>2. ASSUME NEW w \in Workers, Upsert(w), late' # late
        PROVE  \/ late'[p] = late[p]
               \/ /\ late'[p] = late[p] + 1 /\ p \in nsfw
                  /\ \E v \in Unaware(p) : v \notin Unaware(p)'
    <2>1. /\ ~loaded[w] /\ pc[w] = "upsert" /\ pc' = [pc EXCEPT ![w] = "commit"]
          /\ late' = [late EXCEPT ![PostOf(w)] = IF PostOf(w) \in nsfw THEN @ + 1 ELSE @]
      BY <1>2 DEF Upsert, Indexable, Goto
    <2>2. CASE p = PostOf(w) /\ p \in nsfw
      <3>1. late'[p] = late[p] + 1
        BY <1>0, <2>1, <2>2 DEF TypeOK
      <3>2. w \in Unaware(p) /\ w \notin Unaware(p)'
        BY <1>0, <2>1, <2>2 DEF TypeOK, Unaware
      <3> QED BY <2>2, <3>1, <3>2
    <2>3. CASE ~(p = PostOf(w) /\ p \in nsfw)
      BY <1>0, <2>1, <2>3 DEF TypeOK
    <2> QED BY <2>2, <2>3
  <1>3. late' = late \/ \E w \in Workers : Upsert(w)
    BY DEF Next, Persist, Download, SkipPhoto, OpenFile, CloseFile, StorePost,
       FetchFails, CrawlerDies, Supply, Prune, ReindexAll, RequestImages, LoadPost, Step,
       Unreadable, NoImages, Classify, Verdict, Commit, TaskRaises, RetryTask,
       Crash, Redeliver
  <1> QED BY <1>1, <1>2, <1>3

\* A post is flagged by a worker that is not unaware any more.
LEMMA FirstVerdict ==
    ASSUME IInv, [Next]_vars, NEW p \in nsfw', p \notin nsfw
    PROVE  late' = late /\ \E w \in Workers : w \notin Unaware(p)'
  <1>0. TypeOK
    BY DEF IInv
  <1>1. PICK w \in Workers : Verdict(w)
    BY DEF Next, Persist, Download, SkipPhoto, OpenFile, CloseFile, StorePost,
       FetchFails, CrawlerDies, Supply, Prune, ReindexAll, RequestImages, LoadPost, Step,
       Unreadable, NoImages, Classify, Upsert, Commit, TaskRaises, RetryTask,
       Crash, Redeliver
  <1>2. pc' = [pc EXCEPT ![w] = "idle"] /\ late' = late
    BY <1>1 DEF Verdict, Leave, Goto
  <1> QED BY <1>0, <1>2 DEF TypeOK, Unaware

LEMMA LateKept ==
    ASSUME PipelineAssumption, IInv, LateInv, [Next]_vars
    PROVE  LateInv'
  <1>0. TypeOK /\ TypeOK'
    BY NextPreserves DEF IInv
  <1>f. IsFiniteSet(Workers) /\ Cardinality(Workers) \in Nat
    BY FS_CardinalityType DEF PipelineAssumption
  <1>n. nsfw \subseteq nsfw'
    BY DEF Next, Persist, Download, SkipPhoto, OpenFile, CloseFile, StorePost,
       FetchFails, CrawlerDies, Supply, Prune, ReindexAll, RequestImages, LoadPost, Step,
       Unreadable, NoImages, Classify, Verdict, Upsert, Commit, TaskRaises,
       RetryTask, Crash, Redeliver
  <1> SUFFICES ASSUME NEW p \in Posts
               PROVE  /\ p \notin nsfw' => late'[p] = 0
                      /\ p \in nsfw' =>
                            late'[p] + Cardinality(Unaware(p)') < Cardinality(Workers)
    BY DEF LateInv
  <1>t. late[p] \in Nat
    BY <1>0 DEF TypeOK
  <1>u. \A w : w \notin Unaware(p)' /\ w \in Workers =>
            Cardinality(Unaware(p)') < Cardinality(Workers)
    <2> SUFFICES ASSUME NEW w \in Workers, w \notin Unaware(p)'
                 PROVE  Cardinality(Unaware(p)') < Cardinality(Workers)
      OBVIOUS
    <2>1. Unaware(p)' \subseteq Workers
      BY DEF Unaware
    <2>2. Unaware(p)' # Workers
      OBVIOUS
    <2>3. /\ IsFiniteSet(Unaware(p)')
          /\ Cardinality(Unaware(p)') <= Cardinality(Workers)
          /\ Cardinality(Unaware(p)') # Cardinality(Workers)
      BY <1>f, <2>1, <2>2, FS_Subset, Zenon
    <2>4. Cardinality(Unaware(p)') \in Nat
      BY <2>3, FS_CardinalityType
    <2> QED BY <1>f, <2>3, <2>4
  <1>1. CASE p \notin nsfw'
    BY <1>1, <1>n, LateWrite DEF LateInv
  <1>2. CASE p \in nsfw' /\ p \notin nsfw
    <2>1. late'[p] = 0
      BY <1>2, FirstVerdict DEF LateInv
    <2>2. Cardinality(Unaware(p)') < Cardinality(Workers)
      BY <1>2, <1>u, FirstVerdict
    <2>3. Cardinality(Unaware(p)') \in Nat
      <3>1. Unaware(p)' \subseteq Workers
        BY DEF Unaware
      <3> QED BY <1>f, <3>1, FS_Subset, FS_CardinalityType
    <2> QED BY <1>1, <1>2, <1>f, <2>1, <2>2, <2>3
  <1>3. CASE p \in nsfw' /\ p \in nsfw
    <2>1. late[p] + Cardinality(Unaware(p)) < Cardinality(Workers)
      BY <1>3 DEF LateInv
    <2>2. Unaware(p)' \subseteq Unaware(p) /\ Unaware(p) \subseteq Workers
      BY <1>3, UnawareShrinks DEF Unaware
    <2>3. IsFiniteSet(Unaware(p)) /\ Cardinality(Unaware(p)) \in Nat
      BY <1>f, <2>2, FS_Subset, FS_CardinalityType
    <2>4. IsFiniteSet(Unaware(p)') /\ Cardinality(Unaware(p)') \in Nat
      BY <2>2, <2>3, FS_Subset, FS_CardinalityType
    <2>5. Cardinality(Unaware(p)') <= Cardinality(Unaware(p))
      BY <2>2, <2>3, FS_Subset
    <2>6. CASE late'[p] = late[p]
      BY <1>3, <1>t, <1>f, <2>1, <2>3, <2>4, <2>5, <2>6
    <2>7. CASE late'[p] = late[p] + 1 /\ \E w \in Unaware(p) : w \notin Unaware(p)'
      <3>1. Unaware(p)' # Unaware(p)
        BY <2>7
      <3>2. Cardinality(Unaware(p)') < Cardinality(Unaware(p))
        <4>1. Cardinality(Unaware(p)') # Cardinality(Unaware(p))
          BY <2>2, <2>3, <3>1, FS_Subset, Zenon
        <4> QED BY <2>3, <2>4, <2>5, <4>1
      <3> QED BY <1>3, <1>t, <1>f, <2>1, <2>3, <2>4, <2>7, <3>2
    <2> QED BY <2>6, <2>7, LateWrite
  <1> QED BY <1>1, <1>2, <1>3

\* After the verdict on a post, the other workers write its point once each at
\* most, for any number of workers and however the deliveries, retries and
\* requests interleave.
THEOREM LateWritesAreBounded == Spec => []LateWritesBounded
  <1>1. Init => LateInv
    BY DEF Init, LateInv
  <1>2. IInv /\ LateInv /\ [Next]_vars => LateInv'
    BY PipelineAssumption, LateKept
  <1>3. IInv /\ LateInv => LateWritesBounded
    <2> SUFFICES ASSUME IInv, LateInv, NEW p \in nsfw
                 PROVE  late[p] < Cardinality(Workers)
      BY DEF LateWritesBounded
    <2>1. /\ p \in Posts /\ late[p] \in Nat
          /\ late[p] + Cardinality(Unaware(p)) < Cardinality(Workers)
      BY DEF LateInv, IInv, TypeOK
    <2>2. /\ Cardinality(Unaware(p)) \in Nat /\ Cardinality(Workers) \in Nat
      <3>1. Unaware(p) \subseteq Workers
        BY DEF Unaware
      <3> QED BY <3>1, PipelineAssumption, FS_Subset, FS_CardinalityType DEF PipelineAssumption
    <2> QED BY <2>1, <2>2
  <1> QED BY <1>1, <1>2, <1>3, Invariance, PTL DEF Spec

-----------------------------------------------------------------------------
(* What repairs a point without its row.                                    *)

Waiting(p) == Given(queue \cup dead \cup lost, p)

\* w will still write the row of p; it does not if it came to the commit
\* without photos, but then it has emptied the point.
Repairing(w, p) ==
    /\ pc[w] # "idle"
    /\ task[w].kind = "process_post" /\ PostOf(w) = p
    /\ pc[w] = "commit" => seen[w] # {}

Repairs(p) == Waiting(p) \/ \E w \in Workers : Repairing(w, p)

RepairInv ==
    /\ \A w \in Workers : pc[w] # "idle" /\ loaded[w] => PostOf(w) \in nsfw
    /\ \A p \in HasText \ nsfw :
        point[p] \notin {None, {}} /\ embedding[p] = {} => Repairs(p)

\* A step of w alone can only take away the repair that w itself promises.
LEMMA OthersRepair ==
    ASSUME NEW w \in Workers, NEW p, Repairs(p), Repairing(w, p) => Repairs(p)',
           queue \cup dead \cup lost \subseteq queue' \cup dead' \cup lost',
           \A v \in Workers \ {w} :
                pc'[v] = pc[v] /\ task'[v] = task[v] /\ seen'[v] = seen[v]
    PROVE  Repairs(p)'
  <1>1. CASE Waiting(p)
    BY <1>1 DEF Waiting, Given, Repairs
  <1>2. CASE \E v \in Workers \ {w} : Repairing(v, p)
    BY <1>2 DEF Repairing, Repairs, PostOf
  <1>3. CASE Repairing(w, p)
    BY <1>3
  <1> QED BY <1>1, <1>2, <1>3 DEF Repairs

\* A session that has read nsfw = true holds a post that is still flagged.
LEMMA LoadedIsFlagged ==
    ASSUME PipelineAssumption, IInv, RepairInv, [Next]_vars
    PROVE  \A w \in Workers : pc'[w] # "idle" /\ loaded'[w] => PostOf(w)' \in nsfw'
  <1>1. nsfw \subseteq nsfw'
    BY DEF Next, Persist, Download, SkipPhoto, OpenFile, CloseFile, StorePost,
       FetchFails, CrawlerDies, Supply, Prune, ReindexAll, RequestImages, LoadPost, Step,
       Unreadable, NoImages, Classify, Verdict, Upsert, Commit, TaskRaises,
       RetryTask, Crash, Redeliver
  <1>2. SUFFICES ASSUME NEW w \in Workers, pc'[w] # "idle", loaded'[w]
                 PROVE  PostOf(w)' \in nsfw'
    OBVIOUS
  <1>3. \/ pc[w] # "idle" /\ loaded'[w] = loaded[w] /\ task'[w] = task[w]
        \/ \E m \in queue : LoadPost(w, m)
    <2> USE DEF Goto
    <2>t. /\ DOMAIN pc = Workers /\ DOMAIN task = Workers /\ DOMAIN loaded = Workers
      BY DEF IInv, TypeOK
    <2>1. CASE \E v \in Workers, m \in queue : LoadPost(v, m)
      <3>1. PICK v \in Workers, m \in queue : LoadPost(v, m)
        BY <2>1
      <3>2. CASE v = w
        BY <3>1, <3>2
      <3>3. CASE v # w
        <4>1. pc'[w] = pc[w] /\ loaded'[w] = loaded[w] /\ task'[w] = task[w]
          BY <2>t, <3>1, <3>3 DEF LoadPost
        <4> QED BY <1>2, <4>1
      <3> QED BY <3>2, <3>3
    <2>2. CASE \E v \in Workers : Leave(v)
      BY <1>2, <2>2, <2>t DEF Leave
    <2>3. CASE \E v \in Workers : pc[v] # "idle" /\ UNCHANGED <<task, loaded>>
                    /\ \A u \in Workers \ {v} : pc'[u] = pc[u]
      BY <1>2, <2>3
    <2>4. CASE UNCHANGED locals
      BY <1>2, <2>4
    <2>5. \A v \in Workers : Step(v) \/ TaskRaises(v) \/ Crash(v) \/ Redeliver(v) =>
            \/ Leave(v)
            \/ /\ pc[v] # "idle" /\ UNCHANGED <<task, loaded>>
               /\ \A u \in Workers \ {v} : pc'[u] = pc[u]
      BY DEF Step, Unreadable, NoImages, Classify, Verdict, Upsert, Commit,
         TaskRaises, RetryTask, Crash, Redeliver, Goto, IInv, TypeOK
    <2>6. \/ UNCHANGED locals
          \/ \E v \in Workers, m \in queue : LoadPost(v, m)
          \/ \E v \in Workers : Step(v) \/ TaskRaises(v) \/ Crash(v) \/ Redeliver(v)
      BY DEF Next, Persist, Download, SkipPhoto, OpenFile, CloseFile, StorePost,
         FetchFails, CrawlerDies, Supply, Prune, ReindexAll, RequestImages
    <2> QED BY <2>1, <2>2, <2>3, <2>4, <2>5, <2>6
  <1>4. CASE pc[w] # "idle" /\ loaded'[w] = loaded[w] /\ task'[w] = task[w]
    BY <1>1, <1>2, <1>4 DEF RepairInv, PostOf
  <1>5. CASE \E m \in queue : LoadPost(w, m)
    BY <1>2, <1>5 DEF LoadPost, PostOf, IInv, TypeOK
  <1> QED BY <1>3, <1>4, <1>5

\* Steps of the crawler and of an administrator, and stuttering, do so.
LEMMA RepairKeptByOthers ==
    ASSUME IInv, RepairInv, UNCHANGED <<locals, dead, lost, nsfw, embedding, point>>,
           queue \subseteq queue', NEW p \in HasText \ nsfw,
           point[p] \notin {None, {}}, embedding[p] = {}
    PROVE  Repairs(p)'
  <1>1. Repairs(p)
    BY DEF RepairInv
  <1> QED BY <1>1 DEF Repairs, Waiting, Given, Repairing, PostOf

\* Every step keeps the repair of a point without its row in sight.
LEMMA RepairKept ==
    ASSUME PipelineAssumption, IInv, RepairInv, [Next]_vars,
           NEW p \in HasText \ nsfw',
           point'[p] \notin {None, {}}, embedding'[p] = {}
    PROVE  Repairs(p)'
  <1>0. TypeOK /\ WorkerInv
    BY DEF IInv
  <1>1. CASE /\ UNCHANGED <<locals, dead, lost, nsfw, embedding, point>>
             /\ queue \subseteq queue'
    BY <1>1, RepairKeptByOthers
  <1>2. ASSUME NEW w \in Workers, NEW m \in queue, LoadPost(w, m)
        PROVE  Repairs(p)'
    <2>1. Repairs(p) /\ ~Repairing(w, p)
      BY <1>2 DEF LoadPost, RepairInv, Repairing
    <2>2. \A v \in Workers \ {w} :
            pc'[v] = pc[v] /\ task'[v] = task[v] /\ seen'[v] = seen[v]
      BY <1>2 DEF LoadPost, Goto
    <2>3. CASE m.kind = "process_post" /\ m.post = p
      BY <1>0, <1>2, <2>3 DEF LoadPost, Goto, Repairs, Repairing, PostOf, TypeOK
    <2>4. CASE ~(m.kind = "process_post" /\ m.post = p)
      <3>1. CASE Waiting(p)
        BY <1>2, <2>4, <3>1 DEF LoadPost, Waiting, Given, Repairs
      <3>2. CASE \E v \in Workers \ {w} : Repairing(v, p)
        BY <2>2, <3>2 DEF Repairing, Repairs, PostOf
      <3> QED BY <2>1, <3>1, <3>2 DEF Repairs
    <2> QED BY <2>3, <2>4
  <1>3. ASSUME NEW w \in Workers,
               Step(w) \/ TaskRaises(w) \/ Crash(w) \/ Redeliver(w)
        PROVE  Repairs(p)'
    <2>1. pc[w] # "idle" /\ task[w] \in Delivered
      BY <1>0, <1>3 DEF Step, Unreadable, NoImages, Classify, Verdict, Upsert, Commit,
         TaskRaises, Crash, Redeliver, WorkerInv
    <2>2. \A v \in Workers \ {w} :
            pc'[v] = pc[v] /\ task'[v] = task[v] /\ seen'[v] = seen[v]
      <3>1. CASE Leave(w)
        BY <1>0, <3>1 DEF Leave, Goto, TypeOK
      <3>2. CASE NoImages(w) \/ Classify(w) \/ Upsert(w) \/ Redeliver(w)
        BY <1>0, <3>1, <3>2 DEF NoImages, Classify, Upsert, Redeliver, Goto, TypeOK
      <3> QED
        BY <1>3, <3>1, <3>2 DEF Step, Unreadable, Verdict, Commit, TaskRaises,
           RetryTask, Crash
    <2>3. p \notin nsfw
      BY <1>3 DEF Step, Unreadable, NoImages, Classify, Verdict, Upsert, Commit,
         TaskRaises, RetryTask, Crash, Redeliver
    <2>4. CASE RetryTask(w)
      <3>1. Repairs(p)
        BY <2>3, <2>4 DEF RetryTask, RepairInv
      <3>2. queue \cup dead \cup lost \subseteq queue' \cup dead' \cup lost'
        BY <2>4 DEF RetryTask, Requeue, DeadLetter
      <3>3. ASSUME Repairing(w, p) PROVE Waiting(p)'
        <4>1. CASE Requeue(w)
          <5>1. [task[w] EXCEPT !.retries = @ + 1] \in queue'
            BY <4>1, Zenon DEF Requeue
          <5>2. /\ [task[w] EXCEPT !.retries = @ + 1].kind = task[w].kind
                /\ [task[w] EXCEPT !.retries = @ + 1].post = task[w].post
            BY <2>1
          <5> QED BY <3>3, <5>1, <5>2 DEF Repairing, Waiting, Given, PostOf
        <4>2. CASE DeadLetter(w)
          BY <3>3, <4>2 DEF DeadLetter, Repairing, Waiting, Given, PostOf
        <4> QED BY <2>4, <4>1, <4>2 DEF RetryTask
      <3> QED BY <2>2, <3>1, <3>2, <3>3, OthersRepair DEF Repairs
    <2>5. CASE NoImages(w) \/ Classify(w) \/ Redeliver(w)
      <3>1. Repairs(p) /\ queue \cup dead \cup lost \subseteq queue' \cup dead' \cup lost'
        BY <2>3, <2>5 DEF NoImages, Classify, Redeliver, RepairInv
      <3>2. Repairing(w, p) => Repairing(w, p)'
        BY <1>0, <2>5 DEF NoImages, Classify, Redeliver, Goto, Repairing, PostOf, TypeOK
      <3> QED BY <2>2, <3>1, <3>2, OthersRepair DEF Repairs
    <2>6. CASE Verdict(w)
      <3>1. Repairs(p) /\ queue \cup dead \cup lost \subseteq queue' \cup dead' \cup lost'
        BY <2>3, <2>6 DEF Verdict, RepairInv
      <3>2. ~Repairing(w, p)
        BY <2>6 DEF Verdict, Repairing
      <3> QED BY <2>2, <3>1, <3>2, OthersRepair
    <2>7. CASE Upsert(w)
      <3>1. CASE PostOf(w) = p /\ Indexable(w)
        <4>1. seen[w] # {}
          BY <1>0, <2>7, <3>1 DEF Upsert, TypeOK
        <4> QED BY <1>0, <2>1, <2>7, <3>1, <4>1
                DEF Upsert, Goto, WorkerInv, Repairs, Repairing, PostOf, TypeOK
      <3>2. CASE ~(PostOf(w) = p /\ Indexable(w))
        <4>1. PostOf(w) # p
          BY <2>1, <2>3, <3>2 DEF Indexable, RepairInv
        <4>2. Repairs(p) /\ queue \cup dead \cup lost \subseteq queue' \cup dead' \cup lost'
          <5>1. /\ point'[p] = point[p] /\ embedding' = embedding
                /\ queue' = queue /\ dead' = dead /\ lost' = lost
            BY <1>0, <2>3, <2>7, <4>1 DEF Upsert, TypeOK
          <5> QED BY <2>3, <5>1 DEF RepairInv
        <4> QED BY <2>2, <4>1, <4>2, OthersRepair DEF Repairing
      <3> QED BY <3>1, <3>2
    <2>8. CASE Commit(w)
      <3>1. Repairs(p) /\ queue \cup dead \cup lost \subseteq queue' \cup dead' \cup lost'
        BY <1>0, <2>3, <2>8 DEF Commit, RepairInv, TypeOK
      <3>2. ~Repairing(w, p)
        BY <1>0, <2>8 DEF Commit, Repairing, TypeOK
      <3> QED BY <2>2, <3>1, <3>2, OthersRepair
    <2>9. CASE Crash(w)
      <3>1. Repairs(p) /\ queue \cup dead \cup lost \subseteq queue' \cup dead' \cup lost'
        BY <2>3, <2>9 DEF Crash, RepairInv
      <3>2. Repairing(w, p) => Waiting(p)'
        BY <2>9 DEF Crash, Repairing, Waiting, Given, PostOf
      <3> QED BY <2>2, <3>1, <3>2, OthersRepair DEF Repairs
    <2> QED BY <1>3, <2>4, <2>5, <2>6, <2>7, <2>8, <2>9 DEF Step, Unreadable, TaskRaises
  <1>4. \/ /\ UNCHANGED <<locals, dead, lost, nsfw, embedding, point>>
           /\ queue \subseteq queue'
        \/ \E w \in Workers, m \in queue : LoadPost(w, m)
        \/ \E w \in Workers : Step(w) \/ TaskRaises(w) \/ Crash(w) \/ Redeliver(w)
    BY DEF Next, Persist, Download, SkipPhoto, OpenFile, CloseFile, StorePost,
       FetchFails, CrawlerDies, Supply, Prune, ReindexAll, RequestImages
  <1> QED BY <1>1, <1>2, <1>3, <1>4

\* At-least-once delivery repairs a point whose row was not committed, up to
\* the task's failure for good, whose dead letter may be lost.
THEOREM HalfDoneRepaired == Spec => []HalfDoneIsRepaired
  <1>1. Init => RepairInv
    BY PipelineAssumption DEF PipelineAssumption, Init, RepairInv
  <1>2. IInv /\ RepairInv /\ [Next]_vars => RepairInv'
    BY PipelineAssumption, LoadedIsFlagged, RepairKept DEF RepairInv
  <1>3. IInv /\ RepairInv => HalfDoneIsRepaired
    <2> SUFFICES ASSUME IInv, RepairInv, NEW p \in HasText \ nsfw, Repairs(p)
                 PROVE  Outstanding(p) \/ Given(dead, p) \/ Given(lost, p)
      BY DEF RepairInv, HalfDoneIsRepaired
    <2>1. \A w \in Workers : Repairing(w, p) => task[w] # None
      BY PipelineAssumption DEF PipelineAssumption, Repairing, IInv, WorkerInv, TypeOK
    <2> QED BY <2>1 DEF Repairs, Waiting, Given, Repairing, Outstanding
  <1> QED BY <1>1, <1>2, <1>3, Invariance, PTL DEF Spec

=============================================================================
