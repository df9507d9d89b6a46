---------------------------- MODULE CrawlProofs ----------------------------
(***************************************************************************)
(* Theorems about Crawl for every set of workers, blogs and posts, every    *)
(* target, page size and bound.  SessionInv is what makes the type          *)
(* invariant inductive: a worker only writes rows it holds a copy of, and   *)
(* rows are never deleted.  With it, every step of Crawl is a step of       *)
(* CrawlBudget or leaves the budget alone.                                  *)
(***************************************************************************)
EXTENDS Crawl, FiniteSetTheorems, TLAPS

InCrawl == {"next", "pageGuard", "fetch", "process", "commit", "recheck"}
InBlog == {"pageGuard", "fetch", "process", "commit", "recheck"}

\* A session's copies are copies of rows that exist; the rows still to be
\* crawled and the row in hand are among them; pages are in flight only
\* between the fetch and the commit.
SessionOK(w) ==
    /\ \A b \in Blogs : held[w][b] # None => db[b] # None
    /\ pc[w] \in InCrawl => \A b \in todo[w] : held[w][b] # None
    /\ pc[w] \in InBlog => cur[w] \in Blogs /\ held[w][cur[w]] # None
    /\ pc[w] = "pausing" => \A b \in todo[w] : db[b] # None
    /\ pc[w] # "idle" => task[w] # None
    /\ pc[w] \notin {"process", "commit"} => page[w] = {}
    /\ pc[w] \in {"idle", "guard", "seed", "insert"} => todo[w] = {}

SessionInv == \A w \in Workers : SessionOK(w)

IInv == TypeOK /\ SessionInv

-----------------------------------------------------------------------------

\* A commit writes a row of the right type whatever the table held.
LEMMA SavedType ==
    ASSUME NEW old \in Row, NEW new \in Row, NEW row \in Row
    PROVE  Saved(old, new, row) \in Row
BY DEF Saved, Row

\* The updates of a row that the code makes.
LEMMA RowUpdate ==
    ASSUME NEW r \in Row, NEW s \in Statuses, NEW n \in Nat
    PROVE  /\ [r EXCEPT !.status = s] \in Row
           /\ [r EXCEPT !.fail = n, !.status = s] \in Row
           /\ [r EXCEPT !.status = s, !.fail = n] \in Row
BY DEF Row

\* Save changes one row and one copy, and deletes neither.
LEMMA SaveEffect ==
    ASSUME NEW w \in Workers, NEW b \in Blogs, NEW new \in Row,
           TypeOK, SessionInv, held[w][b] # None, Save(w, b, new)
    PROVE  /\ db' \in [Blogs -> Row \cup {None}]
           /\ held' \in [Workers -> [Blogs -> Row \cup {None}]]
           /\ db'[b] = Saved(held[w][b], new, db[b]) /\ db'[b] \in Row
           /\ held'[w][b] = new
           /\ \A c \in Blogs \ {b} : db'[c] = db[c] /\ held'[w][c] = held[w][c]
           /\ \A u \in Workers \ {w} : held'[u] = held[u]
<1>1. held[w][b] \in Row /\ db[b] \in Row
  BY DEF TypeOK, SessionInv, SessionOK
<1>2. Saved(held[w][b], new, db[b]) \in Row
  BY <1>1, SavedType
<1>3. QED
  BY <1>1, <1>2 DEF TypeOK, Save

\* A step of one worker that deletes no row leaves the others' sessions sound.
OthersKept(w) ==
    \A u \in Workers \ {w} :
        /\ pc'[u] = pc[u] /\ task'[u] = task[u] /\ todo'[u] = todo[u]
        /\ cur'[u] = cur[u] /\ held'[u] = held[u] /\ page'[u] = page[u]

NoRowDeleted == \A b \in Blogs : db[b] # None => db'[b] # None

LEMMA OthersSound ==
    ASSUME NEW w \in Workers, TypeOK, SessionInv, OthersKept(w), NoRowDeleted,
           SessionOK(w)'
    PROVE  SessionInv'
<1> SUFFICES ASSUME NEW u \in Workers, u # w
             PROVE  SessionOK(u)'
  BY DEF SessionInv
<1>1. SessionOK(u)
  BY DEF SessionInv
<1>2. todo[u] \subseteq Blogs
  BY DEF TypeOK
<1>3. QED
  BY <1>1, <1>2 DEF SessionOK, OthersKept, NoRowDeleted

LEMMA InitIInv == Init => IInv
BY CrawlAssumption DEF Init, Bootstrap, IInv, TypeOK, SessionInv, SessionOK, Labels, InCrawl,
                       InBlog, Message, Passes

-----------------------------------------------------------------------------
(* IInv is inductive: one lemma per action.                                 *)

LEMMA StartTaskIInv ==
    ASSUME NEW w \in Workers, IInv, StartTask(w)
    PROVE  IInv'
<1> PICK m \in queue :
        /\ queue' = queue \ {m}
        /\ \/ UNCHANGED <<pc, task>>
           \/ pc' = [pc EXCEPT ![w] = "guard"] /\ task' = [task EXCEPT ![w] = m]
  BY DEF StartTask, Goto
<1>0. together' \subseteq Workers
  BY DEF IInv, TypeOK, StartTask, Busy
<1>1. m \in Message /\ m # None
  BY CrawlAssumption DEF IInv, TypeOK
<1>2. UNCHANGED <<db, sfw, nsfw, pass, todo, cur, held, page, fresh, aborts, dropped,
                  failed>>
  BY DEF StartTask, tables, faults
<1>3. TypeOK'
  BY <1>0, <1>1, <1>2 DEF IInv, TypeOK, Labels
<1>4. OthersKept(w) /\ NoRowDeleted /\ SessionOK(w)'
  BY <1>1, <1>2 DEF IInv, TypeOK, StartTask, OthersKept, NoRowDeleted,
         SessionInv, SessionOK, InCrawl, InBlog
<1>5. QED
  BY <1>3, <1>4, OthersSound DEF IInv

LEMMA SelectPassIInv ==
    ASSUME NEW w \in Workers, IInv, SelectPass(w)
    PROVE  IInv'
<1>1. TypeOK'
  BY DEF IInv, TypeOK, SelectPass, WithStatus, tables, faults, history
<1>2. OthersKept(w) /\ NoRowDeleted /\ SessionOK(w)'
  BY DEF IInv, TypeOK, SelectPass, WithStatus, tables, faults, history, OthersKept, NoRowDeleted,
         SessionInv, SessionOK, InCrawl, InBlog
<1>3. QED
  BY <1>1, <1>2, OthersSound DEF IInv

\* What the actions of the page loop have in common: they save the row in
\* hand and move on.
LEMMA SaveStep ==
    ASSUME IInv, NEW w \in Workers, task[w] # None,
           NEW b \in Blogs, held[w][b] # None, NEW new \in Row, Save(w, b, new),
           NEW label \in {"next", "pageGuard", "process", "pause"},
           pc' = [pc EXCEPT ![w] = label],
           NEW T \in SUBSET Blogs, todo' = [todo EXCEPT ![w] = T],
           \A c \in T : held[w][c] # None,
           cur' = [cur EXCEPT ![w] = b],
           NEW S \in SUBSET Posts, page' = [page EXCEPT ![w] = S],
           label # "process" => S = {},
           UNCHANGED <<sfw, nsfw, queue, task, pass, fresh, aborts, dropped>>,
           failed' \in [Blogs -> 0..3], UNCHANGED together
    PROVE  IInv'
<1>1. /\ db' \in [Blogs -> Row \cup {None}]
      /\ held' \in [Workers -> [Blogs -> Row \cup {None}]]
      /\ db'[b] \in Row
      /\ held'[w][b] = new
      /\ \A c \in Blogs \ {b} : db'[c] = db[c] /\ held'[w][c] = held[w][c]
      /\ \A u \in Workers \ {w} : held'[u] = held[u]
  BY SaveEffect DEF IInv
<1>2. TypeOK'
  BY <1>1 DEF IInv, TypeOK, Labels
<1>3. OthersKept(w)
  BY <1>1 DEF IInv, TypeOK, OthersKept
<1>4. NoRowDeleted
  BY <1>1, CrawlAssumption DEF NoRowDeleted
<1>5. SessionOK(w)
  BY DEF IInv, SessionInv
<1>6. \A c \in Blogs : held'[w][c] # None => held[w][c] # None /\ db'[c] # None
  BY <1>1, <1>4, <1>5 DEF NoRowDeleted, SessionOK
<1>7. \A c \in T : held'[w][c] # None
  BY <1>1, CrawlAssumption
<1>8. pc'[w] = label /\ todo'[w] = T /\ cur'[w] = b /\ page'[w] = S /\ task'[w] # None
  BY DEF IInv, TypeOK
<1>9. held'[w][b] # None
  BY <1>1, CrawlAssumption
<1>10. SessionOK(w)'
  BY <1>6, <1>7, <1>8, <1>9 DEF SessionOK, InCrawl, InBlog
<1>11. QED
  BY <1>2, <1>3, <1>4, <1>10, OthersSound DEF IInv

LEMMA BeginBlogIInv ==
    ASSUME NEW w \in Workers, IInv, BeginBlog(w)
    PROVE  IInv'
<1> PICK b \in todo[w] :
        /\ Save(w, b, [held[w][b] EXCEPT !.status = "active"])
        /\ todo' = [todo EXCEPT ![w] = @ \ {b}]
        /\ cur' = [cur EXCEPT ![w] = b]
  BY DEF BeginBlog
<1> DEFINE new == [held[w][b] EXCEPT !.status = "active"]
<1>1. SessionOK(w) /\ pc[w] = "next"
  BY DEF IInv, SessionInv, BeginBlog
<1>2. b \in Blogs /\ held[w][b] # None /\ held[w][b] \in Row /\ task[w] # None /\ page[w] = {}
  BY <1>1 DEF IInv, TypeOK, SessionOK, InCrawl
<1>3. new \in Row
  BY <1>2 DEF Row, Statuses
<1>4. todo[w] \ {b} \in SUBSET Blogs /\ \A c \in todo[w] \ {b} : held[w][c] # None
  BY <1>1 DEF IInv, TypeOK, SessionOK, InCrawl
<1>5. /\ pc' = [pc EXCEPT ![w] = "pageGuard"]
      /\ UNCHANGED <<sfw, nsfw, queue, task, pass, fresh, aborts, dropped, together>>
      /\ page' = [page EXCEPT ![w] = {}]
      /\ failed' \in [Blogs -> 0..3]
  BY <1>2 DEF IInv, TypeOK, BeginBlog, Goto, faults, history
<1> HIDE DEF new
<1>6. QED
  BY <1>2, <1>3, <1>4, <1>5, SaveStep DEF new

\* Inside the page loop the row in hand is a row, and nothing else is needed
\* for SaveStep but what the action does to the page.
LEMMA InHand ==
    ASSUME IInv, NEW w \in Workers, pc[w] \in InBlog
    PROVE  /\ cur[w] \in Blogs /\ task[w] # None
           /\ State(w) \in Row /\ State(w) # None /\ State(w) = held[w][cur[w]]
           /\ todo[w] \in SUBSET Blogs /\ \A c \in todo[w] : held[w][c] # None
           /\ todo = [todo EXCEPT ![w] = todo[w]]
           /\ cur = [cur EXCEPT ![w] = cur[w]]
           /\ page = [page EXCEPT ![w] = page[w]]
           /\ pc[w] \notin {"process", "commit"} => page[w] = {}
<1>1. SessionOK(w)
  BY DEF IInv, SessionInv
<1>2. QED
  BY <1>1, CrawlAssumption DEF IInv, TypeOK, SessionOK, State, InCrawl, InBlog

\* Steps of a worker that write no row, or only new ones.
LEMMA CrawlGuardIInv ==
    ASSUME NEW w \in Workers, IInv, CrawlGuard(w)
    PROVE  IInv'
<1>1. TypeOK'
  BY DEF IInv, TypeOK, Labels, CrawlGuard, Goto, tables, faults, history
<1>2. OthersKept(w) /\ NoRowDeleted /\ SessionOK(w)'
  BY DEF IInv, TypeOK, CrawlGuard, Goto, tables, faults, history,
         OthersKept, NoRowDeleted, SessionInv, SessionOK, InCrawl, InBlog
<1>3. QED
  BY <1>1, <1>2, OthersSound DEF IInv

LEMMA SeedLookupIInv ==
    ASSUME NEW w \in Workers, IInv, SeedLookup(w)
    PROVE  IInv'
<1>0. task[w].blog \in Blogs
  BY CrawlAssumption DEF IInv, TypeOK, SessionInv, SessionOK, SeedLookup, Message
<1>1. TypeOK'
  <2>1. UNCHANGED <<tables, queue, task, pass, todo, cur, held, page, faults, history>>
    BY DEF SeedLookup
  <2>2. CASE db[task[w].blog] = None
    <3>1. /\ pc' = [pc EXCEPT ![w] = "insert"]
          /\ fresh' = [fresh EXCEPT ![w] = {task[w].blog}]
      BY <2>2 DEF SeedLookup, Goto
    <3>2. QED
      BY <1>0, <2>1, <3>1 DEF IInv, TypeOK, Labels, tables, faults, history
  <2>3. CASE db[task[w].blog] # None
    <3>1. pc' = [pc EXCEPT ![w] = "next"] /\ fresh' = fresh
      BY <2>3 DEF SeedLookup, Goto
    <3>2. QED
      BY <2>1, <3>1 DEF IInv, TypeOK, Labels, tables, faults, history
  <2>4. QED
    BY <2>2, <2>3
<1>2. OthersKept(w) /\ NoRowDeleted /\ SessionOK(w)'
  BY <1>0 DEF IInv, TypeOK, SeedLookup, Goto, tables, faults, history,
         OthersKept, NoRowDeleted, SessionInv, SessionOK, InCrawl, InBlog
<1>3. QED
  BY <1>1, <1>2, OthersSound DEF IInv

\* The insert that found no collision creates rows and deletes none.
LEMMA InsertFreshEffect ==
    ASSUME IInv, NEW w \in Workers, ~Collides(w), db' = InsertFresh(w)
    PROVE  /\ NoRowDeleted
           /\ db' \in [Blogs -> Row \cup {None}]
           /\ \A b \in Blogs : db[b] # None => db'[b] = db[b]
           /\ \A b \in fresh[w] : db'[b] = NewRow
           /\ NewRow \in Row
<1>1. NewRow \in Row
  BY DEF NewRow, Row, Statuses
<1>2. fresh[w] \subseteq Blogs
  BY DEF IInv, TypeOK
<1>3. QED
  BY <1>1, <1>2, CrawlAssumption DEF IInv, TypeOK, InsertFresh, Collides, NoRowDeleted

LEMMA SeedInsertIInv ==
    ASSUME NEW w \in Workers, IInv, SeedInsert(w)
    PROVE  IInv'
<1>0. NoRowDeleted /\ db' \in [Blogs -> Row \cup {None}]
  BY InsertFreshEffect DEF SeedInsert
<1>1. TypeOK'
  BY <1>0 DEF IInv, TypeOK, Labels, SeedInsert, Goto, faults, history
<1>2. OthersKept(w) /\ NoRowDeleted /\ SessionOK(w)'
  BY <1>0 DEF IInv, TypeOK, SeedInsert, Goto, faults, history,
         OthersKept, NoRowDeleted, SessionInv, SessionOK, InCrawl, InBlog
<1>3. QED
  BY <1>1, <1>2, OthersSound DEF IInv

LEMMA EndCrawlIInv ==
    ASSUME NEW w \in Workers, IInv, EndCrawl(w)
    PROVE  IInv'
<1>1. TypeOK'
  BY DEF IInv, TypeOK, Labels, EndCrawl, Goto, tables, faults, history
<1>2. OthersKept(w) /\ NoRowDeleted /\ SessionOK(w)'
  BY DEF IInv, TypeOK, EndCrawl, Goto, tables, faults, history,
         OthersKept, NoRowDeleted, SessionInv, SessionOK, InCrawl, InBlog
<1>3. QED
  BY <1>1, <1>2, OthersSound DEF IInv

LEMMA ProcessPageIInv ==
    ASSUME NEW w \in Workers, IInv, ProcessPage(w)
    PROVE  IInv'
<1>0. Discovered(page[w]) \subseteq Blogs
  BY CrawlAssumption DEF IInv, TypeOK, Discovered
<1>1. TypeOK'
  BY <1>0 DEF IInv, TypeOK, Labels, ProcessPage, Goto, tables, faults, history
<1>2. OthersKept(w) /\ NoRowDeleted /\ SessionOK(w)'
  BY <1>0 DEF IInv, TypeOK, ProcessPage, Goto, tables, faults, history,
         OthersKept, NoRowDeleted, SessionInv, SessionOK, InCrawl, InBlog
<1>3. QED
  BY <1>1, <1>2, OthersSound DEF IInv

LEMMA PauseSelectIInv ==
    ASSUME NEW w \in Workers, IInv, PauseSelect(w)
    PROVE  IInv'
<1>1. TypeOK'
  BY DEF IInv, TypeOK, Labels, PauseSelect, WithStatus, Goto, tables, faults, history
<1>2. OthersKept(w) /\ NoRowDeleted /\ SessionOK(w)'
  BY DEF IInv, TypeOK, PauseSelect, WithStatus, Goto, tables, faults, history,
         OthersKept, NoRowDeleted, SessionInv, SessionOK, InCrawl, InBlog
<1>3. QED
  BY <1>1, <1>2, OthersSound DEF IInv

\* The end of a transaction that rolls back, and of the session.
LEMMA AbortIInv ==
    ASSUME IInv, NEW w \in Workers, queue' \subseteq Message, aborts' = aborts + 1,
           dropped' = dropped \cup page[w], Goto(w, "idle"), Close(w),
           UNCHANGED <<tables, failed>>
    PROVE  IInv'
<1>1. TypeOK'
  BY DEF IInv, TypeOK, Labels, Goto, Close, tables
<1>2. OthersKept(w) /\ NoRowDeleted /\ SessionOK(w)'
  BY DEF IInv, TypeOK, Goto, Close, tables,
         OthersKept, NoRowDeleted, SessionInv, SessionOK, InCrawl, InBlog
<1>3. QED
  BY <1>1, <1>2, OthersSound DEF IInv

LEMMA RetryTaskIInv ==
    ASSUME IInv, NEW w \in Workers, pc[w] # "idle", RetryTask(w)
    PROVE  IInv'
<1>1. task[w] \in Message
  BY DEF IInv, TypeOK, SessionInv, SessionOK
<1>2. task[w].retries < MaxRetries => [task[w] EXCEPT !.retries = @ + 1] \in Message
  BY <1>1, CrawlAssumption DEF Message
<1>3. queue' \subseteq Message
  BY <1>2 DEF IInv, TypeOK, RetryTask
<1>4. QED
  BY <1>3, AbortIInv DEF RetryTask

LEMMA CrashIInv ==
    ASSUME IInv, NEW w \in Workers, Crash(w)
    PROVE  IInv'
<1>1. queue' \subseteq Message
  BY DEF IInv, TypeOK, SessionInv, SessionOK, Crash
<1>2. QED
  BY <1>1, AbortIInv DEF Crash

LEMMA RedeliverIInv ==
    ASSUME IInv, NEW w \in Workers, Redeliver(w)
    PROVE  IInv'
<1>1. queue' \subseteq Message
  BY DEF IInv, TypeOK, SessionInv, SessionOK, Redeliver
<1>2. UNCHANGED <<tables, locals, faults, history>>
  BY DEF Redeliver
<1>3. QED
  BY <1>1, <1>2 DEF IInv, TypeOK, SessionInv, SessionOK, tables, locals, faults, history

\* Every save inside the page loop is of the row in hand.
LEMMA SaveInHand ==
    ASSUME IInv, NEW w \in Workers, pc[w] \in InBlog,
           NEW new \in Row, Save(w, cur[w], new),
           NEW label \in {"next", "process", "pause"}, Goto(w, label),
           NEW S \in SUBSET Posts, page' = [page EXCEPT ![w] = S],
           label # "process" => S = {},
           UNCHANGED <<sfw, nsfw, queue, task, pass, todo, cur, fresh, faults, together>>,
           failed' \in [Blogs -> 0..3]
    PROVE  IInv'
<1> DEFINE b == cur[w]
           T == todo[w]
<1>1. /\ b \in Blogs /\ task[w] # None /\ held[w][b] # None
      /\ T \in SUBSET Blogs /\ \A c \in T : held[w][c] # None
      /\ todo = [todo EXCEPT ![w] = T]
      /\ cur = [cur EXCEPT ![w] = b]
  BY InHand
<1>2. /\ Save(w, b, new)
      /\ pc' = [pc EXCEPT ![w] = label]
      /\ todo' = [todo EXCEPT ![w] = T]
      /\ cur' = [cur EXCEPT ![w] = b]
      /\ UNCHANGED <<sfw, nsfw, queue, task, pass, fresh, aborts, dropped, together>>
  BY <1>1 DEF Goto, faults
<1> HIDE DEF b, T
<1>3. QED
  BY <1>1, <1>2, SaveStep

\* As SaveInHand, for the saves that leave no page in flight.
LEMMA SaveNoPage ==
    ASSUME IInv, NEW w \in Workers, pc[w] \in InBlog \ {"process", "commit"},
           NEW new \in Row, Save(w, cur[w], new),
           NEW label \in {"next", "pause"}, Goto(w, label),
           UNCHANGED <<sfw, nsfw, queue, task, pass, todo, cur, page, fresh, faults, together>>,
           failed' \in [Blogs -> 0..3]
    PROVE  IInv'
<1>1. page = [page EXCEPT ![w] = {}]
  BY InHand
<1>2. page' = [page EXCEPT ![w] = {}] /\ {} \in SUBSET Posts
  BY <1>1
<1>3. UNCHANGED <<sfw, nsfw, queue, task, pass, todo, cur, fresh, faults, together>>
  OBVIOUS
<1>4. label \in {"next", "process", "pause"} /\ label # "process"
  OBVIOUS
<1>5. QED
  BY <1>2, <1>3, <1>4, SaveInHand

LEMMA PauseCurrentIInv ==
    ASSUME IInv, NEW w \in Workers, pc[w] \in {"pageGuard", "recheck"},
           PauseCurrent(w),
           UNCHANGED <<sfw, nsfw, queue, task, pass, todo, cur, page, fresh, faults, history>>
    PROVE  IInv'
<1>1. State(w) \in Row
  BY InHand DEF InBlog
<1>2. [State(w) EXCEPT !.status = "paused"] \in Row
  BY <1>1, RowUpdate DEF Statuses
<1>3. failed' \in [Blogs -> 0..3] /\ UNCHANGED together
  BY DEF IInv, TypeOK, history
<1>4. QED
  BY <1>2, <1>3, SaveNoPage DEF PauseCurrent, InBlog

LEMMA PageGuardIInv ==
    ASSUME NEW w \in Workers, IInv, PageGuard(w)
    PROVE  IInv'
<1>1. CASE ThresholdReached
  BY <1>1, PauseCurrentIInv DEF PageGuard
<1>2. CASE ~ThresholdReached
  <2>0. /\ pc[w] = "pageGuard"
        /\ pc' = [pc EXCEPT ![w] = "fetch"]
        /\ UNCHANGED <<tables, queue, task, pass, todo, cur, held, page, fresh, faults, history>>
    BY <1>2 DEF PageGuard, Goto, tables
  <2>1. TypeOK'
    BY <2>0 DEF IInv, TypeOK, Labels, tables, faults, history
  <2>2. OthersKept(w) /\ NoRowDeleted /\ SessionOK(w)'
    BY <2>0 DEF IInv, TypeOK, tables, faults, history,
           OthersKept, NoRowDeleted, SessionInv, SessionOK, InCrawl, InBlog
  <2>3. QED
    BY <2>1, <2>2, OthersSound DEF IInv
<1>3. QED
  BY <1>1, <1>2

LEMMA RecheckIInv ==
    ASSUME NEW w \in Workers, IInv, Recheck(w)
    PROVE  IInv'
<1>1. CASE ThresholdReached
  BY <1>1, PauseCurrentIInv DEF Recheck
<1>2. CASE ~ThresholdReached
  <2>0. /\ pc[w] = "recheck"
        /\ pc' = [pc EXCEPT ![w] = "pageGuard"]
        /\ UNCHANGED <<tables, queue, task, pass, todo, cur, held, page, fresh, faults, history>>
    BY <1>2 DEF Recheck, Goto, tables
  <2>1. TypeOK'
    BY <2>0 DEF IInv, TypeOK, Labels, tables, faults, history
  <2>2. OthersKept(w) /\ NoRowDeleted /\ SessionOK(w)'
    BY <2>0 DEF IInv, TypeOK, tables, faults, history,
           OthersKept, NoRowDeleted, SessionInv, SessionOK, InCrawl, InBlog
  <2>3. QED
    BY <2>1, <2>2, OthersSound DEF IInv
<1>3. QED
  BY <1>1, <1>2

LEMMA FetchFailsIInv ==
    ASSUME NEW w \in Workers, IInv, FetchFails(w)
    PROVE  IInv'
<1> DEFINE n == State(w).fail + 1
           s == IF n >= 3 THEN "dead" ELSE State(w).status
           new == [State(w) EXCEPT !.fail = n, !.status = s]
<1>1. State(w) \in Row
  BY InHand DEF InBlog, FetchFails
<1>2. State(w).fail \in Nat /\ State(w).status \in Statuses
  BY <1>1 DEF Row
<1>3. n \in Nat /\ s \in Statuses
  BY <1>2 DEF Statuses
<1>4. new \in Row
  BY <1>1, <1>3, RowUpdate
<1>5. Save(w, cur[w], new)
  BY DEF FetchFails
<1>6. failed' \in [Blogs -> 0..3]
  <2>1. failed \in [Blogs -> 0..3] /\ cur[w] \in Blogs
    BY InHand DEF IInv, TypeOK, FetchFails, InBlog
  <2>2. (IF failed[cur[w]] < 3 THEN failed[cur[w]] + 1 ELSE failed[cur[w]]) \in 0..3
    BY <2>1
  <2>3. QED
    BY <2>1, <2>2 DEF FetchFails
<1> HIDE DEF new
<1>7. QED
  BY <1>4, <1>5, <1>6, SaveNoPage DEF FetchFails, InBlog

LEMMA FetchEmptyIInv ==
    ASSUME NEW w \in Workers, IInv, FetchEmpty(w)
    PROVE  IInv'
<1>1. State(w) \in Row
  BY InHand DEF InBlog, FetchEmpty
<1>2. [State(w) EXCEPT !.status = "done"] \in Row
  BY <1>1, RowUpdate DEF Statuses
<1>3. failed' \in [Blogs -> 0..3] /\ UNCHANGED together
  BY DEF IInv, TypeOK, FetchEmpty, history
<1>4. QED
  BY <1>2, <1>3, SaveNoPage DEF FetchEmpty, InBlog

\* The count of failures stays within bounds when it is cleared.
LEMMA ClearedType ==
    ASSUME TypeOK, NEW w \in Workers, Cleared(w)
    PROVE  failed' \in [Blogs -> 0..3]
<1>1. failed \in [Blogs -> 0..3] /\ 0 \in 0..3
  BY DEF TypeOK
<1>2. QED
  BY <1>1 DEF Cleared

\* The cursor that a page leads to is the timestamp of one of its posts, all
\* of which the old cursor had before it.
LEMMA OldestOf ==
    ASSUME NEW b, NEW c, NEW S \in Pages(b, c), NEW t \in Oldest(S)
    PROVE  /\ t \in Nat /\ t # None
           /\ c # None => t < c
           /\ \E p \in S \cap Earlier(b, c) :
                  t = Stamp[p] /\ \A q \in S \cap Dated : Stamp[p] <= Stamp[q]
<1>1. PICK p \in S \cap Dated : t = Stamp[p] /\ \A q \in S \cap Dated : Stamp[p] <= Stamp[q]
  BY DEF Oldest
<1>2. p \in Earlier(b, c)
  BY <1>1 DEF Pages, Undated
<1>3. Stamp[p] \in Nat
  BY <1>1, CrawlAssumption DEF Dated
<1>4. QED
  BY <1>1, <1>2, <1>3, CrawlAssumption DEF Earlier

\* A page is made of posts of its blog.
LEMMA PageOf ==
    ASSUME NEW b, NEW c, NEW S \in Pages(b, c)
    PROVE  S \in SUBSET Posts /\ \A p \in S : BlogOf[p] = b
BY DEF Pages, Earlier, Undated, Dated

\* A page without timestamps is only put in flight.
LEMMA FetchUndatedIInv ==
    ASSUME IInv, NEW w \in Workers, pc[w] = "fetch", Goto(w, "process"),
           NEW S \in SUBSET Posts, page' = [page EXCEPT ![w] = S], FetchUndated(S),
           UNCHANGED <<sfw, nsfw, queue, task, pass, todo, cur, fresh, faults, together>>
    PROVE  IInv'
<1>1. TypeOK'
  BY DEF IInv, TypeOK, Labels, Goto, FetchUndated, faults
<1>2. OthersKept(w) /\ NoRowDeleted /\ SessionOK(w)'
  BY DEF IInv, TypeOK, Goto, FetchUndated, OthersKept, NoRowDeleted, SessionInv,
         SessionOK, InCrawl, InBlog
<1>3. QED
  BY <1>1, <1>2, OthersSound DEF IInv

LEMMA FetchPageIInv ==
    ASSUME NEW w \in Workers, IInv, FetchPage(w)
    PROVE  IInv'
<1>1. State(w) \in Row
  BY InHand DEF InBlog, FetchPage
<1>2. PICK S \in Pages(cur[w], State(w).cursor) :
        /\ page' = [page EXCEPT ![w] = S]
        /\ FetchDated(w, S) \/ FetchUndated(S)
  BY DEF FetchPage
<1>3. S \in SUBSET Posts
  BY PageOf
<1>4. CASE FetchDated(w, S)
  <2>1. PICK t \in Oldest(S) :
          Save(w, cur[w], [State(w) EXCEPT !.fail = 0, !.cursor = t])
    BY <1>4 DEF FetchDated
  <2>2. [State(w) EXCEPT !.fail = 0, !.cursor = t] \in Row
    BY <1>1, OldestOf DEF Row
  <2>3. failed' \in [Blogs -> 0..3]
    BY <1>4, ClearedType DEF FetchDated, IInv
  <2>4. QED
    BY <1>2, <1>3, <2>1, <2>2, <2>3, SaveInHand DEF FetchPage, InBlog
<1>5. CASE FetchUndated(S)
  BY <1>2, <1>3, <1>5, FetchUndatedIInv DEF FetchPage
<1>6. QED
  BY <1>2, <1>4, <1>5

\* The commit of a page creates rows, and clears the failures of the row in
\* hand and of its copy.
LEMMA CommitEffect ==
    ASSUME IInv, NEW w \in Workers, CommitPage(w)
    PROVE  /\ cur[w] \in Blogs /\ State(w) \in Row /\ db[cur[w]] \in Row
           /\ cur[w] \notin fresh[w]
           /\ NoRowDeleted
           /\ db' \in [Blogs -> Row \cup {None}]
           /\ db'[cur[w]] \in {db[cur[w]], [db[cur[w]] EXCEPT !.fail = 0]}
           /\ db'[cur[w]] = Saved(State(w), [State(w) EXCEPT !.fail = 0], db[cur[w]])
           /\ \A b \in Blogs \ {cur[w]} :
                  /\ db[b] # None => db'[b] = db[b]
                  /\ db[b] = None => db'[b] \in {None, NewRow}
           /\ \A b \in fresh[w] : db'[b] = NewRow
           /\ held' = [held EXCEPT ![w][cur[w]] = [State(w) EXCEPT !.fail = 0]]
           /\ [State(w) EXCEPT !.fail = 0] \in Row
           /\ held' \in [Workers -> [Blogs -> Row \cup {None}]]
<1> DEFINE c == cur[w]
           old == State(w)
           new == [old EXCEPT !.fail = 0]
<1>1. /\ c \in Blogs /\ old \in Row /\ old = held[w][c] /\ old # None
      /\ db[c] \in Row /\ db[c] # None
  <2>1. c \in Blogs /\ old \in Row /\ old = held[w][c] /\ old # None
    BY InHand DEF CommitPage, InBlog
  <2>2. QED
    BY <2>1, CrawlAssumption DEF IInv, TypeOK, SessionInv, SessionOK
<1>2. c \notin fresh[w] /\ fresh[w] \subseteq Blogs
  BY <1>1 DEF CommitPage, Collides, IInv, TypeOK
<1>3. NewRow \in Row /\ new \in Row
  BY <1>1 DEF NewRow, Row, Statuses
<1>4. /\ InsertFresh(w)[c] = db[c]
      /\ db' = [InsertFresh(w) EXCEPT ![c] = Saved(old, new, @)]
      /\ held' = [held EXCEPT ![w][c] = new]
  BY <1>1, <1>2 DEF CommitPage, CommitStates, InsertFresh
<1>5. InsertFresh(w) \in [Blogs -> Row \cup {None}]
  BY <1>3 DEF InsertFresh, IInv, TypeOK
<1>6. /\ Saved(old, new, db[c]) \in {db[c], [db[c] EXCEPT !.fail = 0]}
      /\ Saved(old, new, db[c]) \in Row
  BY <1>1, <1>3, SavedType DEF Saved, Row
<1>7. /\ db'[c] = Saved(old, new, db[c])
      /\ \A b \in Blogs \ {c} : db'[b] = IF b \in fresh[w] THEN NewRow ELSE db[b]
      /\ db' \in [Blogs -> Row \cup {None}]
  BY <1>1, <1>4, <1>5, <1>6 DEF InsertFresh
<1>8. \A b \in fresh[w] : db[b] = None
  BY <1>2 DEF CommitPage, Collides
<1>9. held' \in [Workers -> [Blogs -> Row \cup {None}]]
  BY <1>1, <1>3, <1>4 DEF IInv, TypeOK
<1> HIDE DEF c, old, new
<1>10. NoRowDeleted
  BY <1>1, <1>3, <1>6, <1>7, CrawlAssumption DEF NoRowDeleted
<1>11. QED
  BY <1>1, <1>2, <1>3, <1>4, <1>6, <1>7, <1>8, <1>9, <1>10 DEF c, old, new

LEMMA CommitPageIInv ==
    ASSUME NEW w \in Workers, IInv, CommitPage(w)
    PROVE  IInv'
<1>1. /\ NoRowDeleted /\ db' \in [Blogs -> Row \cup {None}]
      /\ cur[w] \in Blogs
      /\ held' = [held EXCEPT ![w][cur[w]] = [State(w) EXCEPT !.fail = 0]]
      /\ held' \in [Workers -> [Blogs -> Row \cup {None}]]
      /\ [State(w) EXCEPT !.fail = 0] \in Row
  BY CommitEffect
<1>2. failed' \in [Blogs -> 0..3]
  BY ClearedType DEF CommitPage, CommitStates, IInv
<1>3. /\ \A u \in Workers \ {w} : held'[u] = held[u]
      /\ \A b \in Blogs : held'[w][b] # None <=> held[w][b] # None
  <2>1. held[w][cur[w]] # None /\ [State(w) EXCEPT !.fail = 0] # None
    BY <1>1, InHand, CrawlAssumption DEF CommitPage, InBlog
  <2>2. QED
    BY <1>1, <2>1 DEF IInv, TypeOK
<1>4. TypeOK'
  BY <1>1, <1>2 DEF IInv, TypeOK, Labels, CommitPage, CommitStates, Goto, faults
<1>5. OthersKept(w)
  BY <1>3 DEF IInv, TypeOK, CommitPage, Goto, OthersKept
<1>6. SessionOK(w)'
  <2>1. SessionOK(w)
    BY DEF IInv, SessionInv
  <2>2. pc'[w] = "recheck" /\ page'[w] = {} /\ UNCHANGED <<task, todo, cur>>
    BY DEF IInv, TypeOK, CommitPage, Goto
  <2>3. pc[w] = "commit" /\ todo[w] \subseteq Blogs
    BY DEF CommitPage, IInv, TypeOK
  <2>4. QED
    BY <1>1, <1>3, <2>1, <2>2, <2>3 DEF NoRowDeleted, SessionOK, InCrawl, InBlog
<1>7. QED
  BY <1>1, <1>4, <1>5, <1>6, OthersSound DEF IInv

LEMMA PauseCommitIInv ==
    ASSUME NEW w \in Workers, IInv, PauseCommit(w)
    PROVE  IInv'
<1>1. SessionOK(w) /\ pc[w] = "pausing" /\ todo[w] \subseteq Blogs
  BY DEF IInv, TypeOK, SessionInv, PauseCommit
<1>2. \A b \in todo[w] : db[b] \in Row /\ [db[b] EXCEPT !.status = "paused"] \in Row
  <2>1. \A b \in todo[w] : db[b] \in Row
    BY <1>1 DEF IInv, TypeOK, SessionOK
  <2>2. QED
    BY <2>1, RowUpdate DEF Statuses
<1>3. db' \in [Blogs -> Row \cup {None}] /\ NoRowDeleted
  BY <1>2, CrawlAssumption DEF IInv, TypeOK, PauseCommit, NoRowDeleted
<1>4. /\ pc' = [pc EXCEPT ![w] = "final"]
      /\ UNCHANGED <<sfw, nsfw, queue, task, pass, todo, cur, held, page, fresh,
                     aborts, dropped, failed, together>>
  BY DEF PauseCommit, Goto, faults, history
<1>5. TypeOK'
  BY <1>3, <1>4 DEF IInv, TypeOK, Labels
<1>6. OthersKept(w) /\ SessionOK(w)'
  BY <1>1, <1>3, <1>4 DEF IInv, TypeOK, OthersKept, NoRowDeleted, SessionOK, InCrawl,
         InBlog
<1>7. QED
  BY <1>3, <1>5, <1>6, OthersSound DEF IInv

LEMMA FinishTaskIInv ==
    ASSUME NEW w \in Workers, IInv, FinishTask(w)
    PROVE  IInv'
<1>1. db' \in [Blogs -> Row \cup {None}] /\ NoRowDeleted
  <2>1. CASE db' = db
    BY <2>1 DEF IInv, TypeOK, NoRowDeleted
  <2>2. CASE db[task[w].blog] # None
             /\ db' = [db EXCEPT ![task[w].blog].status = "paused"]
    <3>1. task[w].blog \in Blogs
      BY CrawlAssumption DEF IInv, TypeOK, SessionInv, SessionOK, FinishTask, Message
    <3>2. [db[task[w].blog] EXCEPT !.status = "paused"] \in Row
      <4>1. db[task[w].blog] \in Row
        BY <2>2, <3>1 DEF IInv, TypeOK
      <4>2. QED
        BY <4>1, RowUpdate DEF Statuses
    <3>3. QED
      BY <2>2, <3>1, <3>2, CrawlAssumption DEF IInv, TypeOK, NoRowDeleted
  <2>3. QED
    BY <2>1, <2>2 DEF FinishTask
<1>2. /\ pc' = [pc EXCEPT ![w] = "idle"]
      /\ Close(w)
      /\ UNCHANGED <<sfw, nsfw, queue, aborts, dropped, failed>>
  BY DEF FinishTask, Goto, faults
<1>3. TypeOK'
  BY <1>1, <1>2 DEF IInv, TypeOK, Labels, Close
<1>4. OthersKept(w) /\ SessionOK(w)'
  BY <1>2 DEF IInv, TypeOK, Close, OthersKept, SessionOK, InCrawl, InBlog
<1>5. QED
  BY <1>1, <1>3, <1>4, OthersSound DEF IInv

\* The other writers touch no session, and delete no row.
LEMMA OutsideIInv ==
    ASSUME IInv, UNCHANGED <<locals, faults, history>>, queue' \subseteq Message,
           db' \in [Blogs -> Row \cup {None}], NoRowDeleted,
           sfw' \subseteq Posts, nsfw' \subseteq Posts
    PROVE  IInv'
BY DEF IInv, TypeOK, SessionInv, SessionOK, NoRowDeleted, locals, faults, history

LEMMA EnqueueActiveIInv == IInv /\ EnqueueActive => IInv'
<1> SUFFICES ASSUME IInv, EnqueueActive PROVE IInv'
  OBVIOUS
<1>1. queue' \subseteq Message
  BY CrawlAssumption DEF EnqueueActive, IInv, TypeOK, Message, WithStatus
<1>2. QED
  BY <1>1, OutsideIInv DEF EnqueueActive, tables, NoRowDeleted, IInv, TypeOK

LEMMA SeedCrawlIInv == IInv /\ SeedCrawl => IInv'
<1> SUFFICES ASSUME IInv, SeedCrawl PROVE IInv'
  OBVIOUS
<1>1. NewRow \in Row
  BY DEF NewRow, Row, Statuses
<1>2. db' \in [Blogs -> Row \cup {None}] /\ NoRowDeleted
  BY <1>1, CrawlAssumption DEF SeedCrawl, IInv, TypeOK, NoRowDeleted
<1>3. QED
  BY <1>2, OutsideIInv DEF SeedCrawl, IInv, TypeOK

LEMMA ResetDeadIInv == IInv /\ ResetDead => IInv'
<1> SUFFICES ASSUME IInv, ResetDead PROVE IInv'
  OBVIOUS
<1>1. \A b \in WithStatus({"dead"}) :
        [db[b] EXCEPT !.status = "active", !.fail = 0] \in Row
  <2>1. \A b \in WithStatus({"dead"}) : db[b] \in Row
    BY DEF WithStatus, IInv, TypeOK
  <2>2. QED
    BY <2>1, RowUpdate DEF Statuses
<1>2. \A b \in Blogs :
        \/ b \in WithStatus({"dead"}) /\ db'[b] \in Row
        \/ db'[b] = db[b]
  BY <1>1 DEF ResetDead
<1>3. db' \in [Blogs -> Row \cup {None}]
  <2>1. \A b \in Blogs : db'[b] \in Row \cup {None}
    BY <1>2 DEF IInv, TypeOK
  <2>2. db' = [b \in Blogs |-> db'[b]]
    BY DEF ResetDead
  <2>3. QED
    BY <2>1, <2>2
<1>4. NoRowDeleted
  BY <1>2, CrawlAssumption DEF NoRowDeleted
<1>5. QED
  BY <1>3, <1>4, OutsideIInv DEF ResetDead, IInv, TypeOK

LEMMA FlagNsfwIInv == IInv /\ FlagNsfw => IInv'
<1> SUFFICES ASSUME IInv, FlagNsfw PROVE IInv'
  OBVIOUS
<1>1. sfw' \subseteq Posts /\ nsfw' \subseteq Posts
  BY DEF FlagNsfw, IInv, TypeOK
<1>2. QED
  BY <1>1, OutsideIInv DEF FlagNsfw, NoRowDeleted, IInv, TypeOK

-----------------------------------------------------------------------------

LEMMA StepIInv ==
    ASSUME IInv, NEW w \in Workers, Step(w)
    PROVE  IInv'
<1>1. CASE StartTask(w) BY <1>1, StartTaskIInv
<1>2. CASE CrawlGuard(w) BY <1>2, CrawlGuardIInv
<1>3. CASE SeedLookup(w) BY <1>3, SeedLookupIInv
<1>4. CASE SeedInsert(w) BY <1>4, SeedInsertIInv
<1>5. CASE InsertCollides(w) BY <1>5, RetryTaskIInv DEF InsertCollides
<1>6. CASE SelectPass(w) BY <1>6, SelectPassIInv
<1>7. CASE BeginBlog(w) BY <1>7, BeginBlogIInv
<1>8. CASE EndCrawl(w) BY <1>8, EndCrawlIInv
<1>9. CASE PageGuard(w) BY <1>9, PageGuardIInv
<1>10. CASE FetchFails(w) BY <1>10, FetchFailsIInv
<1>11. CASE FetchEmpty(w) BY <1>11, FetchEmptyIInv
<1>12. CASE FetchPage(w) BY <1>12, FetchPageIInv
<1>13. CASE ProcessPage(w) BY <1>13, ProcessPageIInv
<1>14. CASE CommitPage(w) BY <1>14, CommitPageIInv
<1>15. CASE Recheck(w) BY <1>15, RecheckIInv
<1>16. CASE PauseSelect(w) BY <1>16, PauseSelectIInv
<1>17. CASE PauseCommit(w) BY <1>17, PauseCommitIInv
<1>18. CASE FinishTask(w) BY <1>18, FinishTaskIInv
<1>19. QED
  BY <1>1, <1>2, <1>3, <1>4, <1>5, <1>6, <1>7, <1>8, <1>9, <1>10, <1>11, <1>12,
     <1>13, <1>14, <1>15, <1>16, <1>17, <1>18 DEF Step

LEMMA NextIInv == IInv /\ [Next]_vars => IInv'
<1> SUFFICES ASSUME IInv, [Next]_vars PROVE IInv'
  OBVIOUS
<1>1. ASSUME NEW w \in Workers, Step(w) PROVE IInv'
  BY <1>1, StepIInv
<1>2. ASSUME NEW w \in Workers, Fault(w) PROVE IInv'
  <2>1. CASE TaskRaises(w) BY <2>1, RetryTaskIInv DEF TaskRaises
  <2>2. CASE Crash(w) BY <2>2, CrashIInv
  <2>3. CASE Redeliver(w) BY <2>3, RedeliverIInv
  <2>4. QED
    BY <1>2, <2>1, <2>2, <2>3 DEF Fault
<1>3. CASE EnqueueActive BY <1>3, EnqueueActiveIInv
<1>4. CASE SeedCrawl BY <1>4, SeedCrawlIInv
<1>5. CASE ResetDead BY <1>5, ResetDeadIInv
<1>6. CASE FlagNsfw BY <1>6, FlagNsfwIInv
<1>7. CASE UNCHANGED vars
  BY <1>7 DEF vars, IInv, TypeOK, SessionInv, SessionOK
<1>8. QED
  BY <1>1, <1>2, <1>3, <1>4, <1>5, <1>6, <1>7 DEF Next

\* IInv holds in every state the crawl can reach.
THEOREM Invariance == Spec => []IInv
BY InitIInv, NextIInv, PTL DEF Spec

\* The tables, the queue and the sessions of the workers always hold values
\* of their types: in particular no session ever saves a row it has no copy
\* of, although rows are inserted, paused and reset under it.
THEOREM TypeCorrect == Spec => []TypeOK
<1>1. IInv => TypeOK
  BY DEF IInv
<1>2. QED
  BY <1>1, Invariance, PTL

-----------------------------------------------------------------------------
(* The size of a page, for the counts of what is stored and of what is lost. *)

\* What is in flight came from one API page.
PageInv == \A w \in Workers : Cardinality(page[w]) <= PageSize

RInv == IInv /\ PageInv

LEMMA InitRInv == Init => RInv
<1>1. Cardinality({}) = 0
  BY FS_EmptySet
<1>2. QED
  BY <1>1, InitIInv, CrawlAssumption DEF Init, RInv, PageInv

\* A page is replaced by an API page, given up, or left alone.
PageKept == \A u \in Workers : page'[u] = page[u] \/ page'[u] = {}

LEMMA StepPage ==
    ASSUME IInv, NEW w \in Workers, Step(w) \/ Fault(w), ~FetchPage(w)
    PROVE  PageKept
<1>1. CASE RetryTask(w) \/ Crash(w) \/ FinishTask(w)
  BY <1>1 DEF RetryTask, Crash, FinishTask, Close, IInv, TypeOK, PageKept
<1>2. CASE CommitPage(w)
  BY <1>2 DEF CommitPage, IInv, TypeOK, PageKept
<1>3. CASE UNCHANGED page
  BY <1>3 DEF PageKept
<1>4. QED
  BY <1>1, <1>2, <1>3
     DEF Step, Fault, StartTask, CrawlGuard, SeedLookup, SeedInsert, InsertCollides,
         SelectPass, BeginBlog, EndCrawl, PageGuard, FetchFails, FetchEmpty,
         ProcessPage, Recheck, PauseSelect, PauseCommit, TaskRaises, Redeliver, locals

LEMMA NextRInv == RInv /\ [Next]_vars => RInv'
<1> SUFFICES ASSUME RInv, [Next]_vars PROVE RInv'
  OBVIOUS
<1>1. IInv /\ IInv'
  BY NextIInv DEF RInv
<1>2. Cardinality({}) <= PageSize
  BY FS_EmptySet, CrawlAssumption
<1>3. ASSUME NEW w \in Workers, FetchPage(w) PROVE PageInv'
  <2>1. PICK S \in Pages(cur[w], State(w).cursor) : page' = [page EXCEPT ![w] = S]
    BY <1>3 DEF FetchPage
  <2>2. Cardinality(S) <= PageSize
    BY DEF Pages
  <2>3. QED
    BY <1>1, <2>1, <2>2 DEF RInv, PageInv, IInv, TypeOK
<1>4. ASSUME PageKept PROVE PageInv'
  BY <1>2, <1>4 DEF RInv, PageInv, PageKept
<1>5. ASSUME UNCHANGED page PROVE PageInv'
  BY <1>5 DEF RInv, PageInv
<1>6. PageInv'
  BY <1>1, <1>3, <1>4, <1>5, StepPage
     DEF Next, vars, EnqueueActive, SeedCrawl, ResetDead, FlagNsfw, locals
<1>7. QED
  BY <1>1, <1>6 DEF RInv

-----------------------------------------------------------------------------
(* Crawl implements CrawlBudget for every pool, target and page size, and   *)
(* so inherits the bound proved there: however the workers race, are        *)
(* retried or crash, they overshoot the target by at most a page each.      *)

AdmittedLabels == {"fetch", "process", "commit"}

\* Where a worker goes decides whether it counts as admitted.
LEMMA Move ==
    ASSUME TypeOK, NEW w \in Workers, NEW label \in Labels, Goto(w, label)
    PROVE  /\ label \in AdmittedLabels => Admitted' = Admitted \cup {w}
           /\ label \notin AdmittedLabels => Admitted' = Admitted \ {w}
           /\ w \in Admitted <=> pc[w] \in AdmittedLabels
BY DEF TypeOK, Goto, Admitted, AdmittedLabels

LEMMA Finite ==
    ASSUME TypeOK
    PROVE  /\ IsFiniteSet(Admitted) /\ Admitted \subseteq Workers
           /\ IsFiniteSet(sfw)
           /\ Cardinality(Admitted) \in Nat /\ Cardinality(Workers) \in Nat
           /\ Cardinality(sfw) \in Nat
           /\ Cardinality(Admitted) <= Cardinality(Workers)
<1>1. Admitted \in SUBSET Workers /\ sfw \in SUBSET Posts
  BY DEF TypeOK, Admitted
<1>2. IsFiniteSet(Admitted) /\ IsFiniteSet(sfw)
  BY <1>1, CrawlAssumption, FS_Subset
<1>3. Cardinality(Admitted) <= Cardinality(Workers)
  BY <1>1, CrawlAssumption, FS_Subset
<1>4. QED
  BY <1>1, <1>2, <1>3, CrawlAssumption, FS_CardinalityType

\* A worker that leaves the admitted ones without storing anything.
LEMMA LeavesOrStays ==
    ASSUME TypeOK, NEW w \in Workers, NEW label \in Labels \ AdmittedLabels,
           Goto(w, label), sfw' = sfw
    PROVE  Budget!Withdraw \/ UNCHANGED Budget!vars
<1>1. Admitted' = Admitted \ {w}
  BY Move
<1>2. CASE w \in Admitted
  <2>1. Cardinality(Admitted') = Cardinality(Admitted) - 1
    BY <1>1, <1>2, Finite, FS_RemoveElement
  <2>2. Cardinality(Admitted) # 0
    BY <1>2, Finite, FS_EmptySet
  <2>3. QED
    BY <2>1, <2>2, Finite DEF Budget!Withdraw
<1>3. CASE w \notin Admitted
  BY <1>1, <1>3 DEF Budget!vars
<1>4. QED
  BY <1>2, <1>3

\* A worker that is admitted and goes on to the next point inside the page.
LEMMA StaysAdmitted ==
    ASSUME TypeOK, NEW w \in Workers, NEW label \in AdmittedLabels,
           pc[w] \in AdmittedLabels, Goto(w, label), sfw' = sfw
    PROVE  UNCHANGED Budget!vars
<1>1. Admitted' = Admitted
  BY Move DEF AdmittedLabels, Labels
<1>2. QED
  BY <1>1 DEF Budget!vars

LEMMA PageGuardBudget ==
    ASSUME IInv, NEW w \in Workers, PageGuard(w)
    PROVE  Budget!Admit \/ Budget!Withdraw \/ UNCHANGED Budget!vars
<1>1. TypeOK /\ sfw' = sfw /\ pc[w] = "pageGuard"
  BY DEF IInv, PageGuard
<1>2. CASE ThresholdReached
  BY <1>1, <1>2, LeavesOrStays DEF PageGuard, PauseCurrent, Labels, AdmittedLabels
<1>3. CASE ~ThresholdReached
  <2>1. Admitted' = Admitted \cup {w} /\ w \notin Admitted
    BY <1>1, <1>3, Move DEF PageGuard, Labels, AdmittedLabels
  <2>2. Cardinality(Admitted') = Cardinality(Admitted) + 1
    BY <1>1, <2>1, Finite, FS_AddElement
  <2>3. Admitted \in SUBSET Workers /\ Admitted # Workers
    BY <1>1, <2>1, Finite
  <2>4. Cardinality(Admitted) # Cardinality(Workers)
    BY <2>3, CrawlAssumption, FS_Subset
  <2>5. Cardinality(Admitted) < Cardinality(Workers)
    BY <1>1, <2>4, Finite
  <2>6. Cardinality(sfw) < Target
    BY <1>1, <1>3, Finite, CrawlAssumption DEF ThresholdReached
  <2>7. Cardinality(sfw)' = Cardinality(sfw)
    BY <1>1
  <2>8. QED
    BY <2>2, <2>5, <2>6, <2>7 DEF Budget!Admit
<1>4. QED
  BY <1>2, <1>3

LEMMA CommitPageBudget ==
    ASSUME RInv, NEW w \in Workers, CommitPage(w)
    PROVE  Budget!Deliver
<1> DEFINE X == (page[w] \ Video) \ nsfw
<1>1. TypeOK /\ page[w] \in SUBSET Posts /\ Cardinality(page[w]) <= PageSize
  BY DEF RInv, IInv, PageInv, TypeOK
<1>2. Admitted' = Admitted \ {w} /\ w \in Admitted
  BY <1>1, Move DEF CommitPage, Labels, AdmittedLabels
<1>3. Cardinality(Admitted') = Cardinality(Admitted) - 1
  BY <1>1, <1>2, Finite, FS_RemoveElement
<1>4. Cardinality(Admitted) # 0
  BY <1>1, <1>2, Finite, FS_EmptySet
<1>5. IsFiniteSet(page[w]) /\ X \in SUBSET page[w]
  BY <1>1, CrawlAssumption, FS_Subset
<1>6. IsFiniteSet(X) /\ Cardinality(X) <= Cardinality(page[w])
  BY <1>5, FS_Subset
<1>7. Cardinality(X) \in Nat /\ Cardinality(page[w]) \in Nat
  BY <1>5, <1>6, FS_CardinalityType
<1> HIDE DEF X
<1>8. IsFiniteSet(X \cap sfw) /\ Cardinality(X \cap sfw) <= Cardinality(X)
  BY <1>6, FS_Intersection
<1>9. X \cap sfw = sfw \cap X
  OBVIOUS
<1>10. Cardinality(sfw \cup X)
         = Cardinality(sfw) + Cardinality(X) - Cardinality(sfw \cap X)
  BY <1>1, <1>6, Finite, FS_Union
<1>11. Cardinality(sfw \cap X) \in Nat
  BY <1>8, <1>9, FS_CardinalityType
<1>12. PICK n \in 0..PageSize : Cardinality(sfw \cup X) = Cardinality(sfw) + n
  <2> DEFINE n == Cardinality(X) - Cardinality(sfw \cap X)
  <2>1. Cardinality(sfw \cap X) <= Cardinality(X)
    BY <1>8, <1>9, Zenon
  <2>2. PageSize \in Int
    BY CrawlAssumption
  <2>3. n \in 0..PageSize
    BY <1>1, <1>6, <1>7, <1>11, <2>1, <2>2
  <2>4. Cardinality(sfw \cup X) = Cardinality(sfw) + n
    BY <1>1, <1>7, <1>10, <1>11, Finite
  <2> HIDE DEF n
  <2>5. QED
    BY <2>3, <2>4
<1>13. sfw' = sfw \cup X
  BY DEF CommitPage, X
<1>14. Cardinality(Admitted) > 0
  BY <1>1, <1>4, Finite
<1>15. QED
  BY <1>3, <1>12, <1>13, <1>14 DEF Budget!Deliver

LEMMA FlagNsfwBudget ==
    ASSUME IInv, FlagNsfw
    PROVE  Budget!Retract
<1>1. PICK p \in sfw : sfw' = sfw \ {p}
  BY DEF FlagNsfw
<1>2. TypeOK
  BY DEF IInv
<1>3. Cardinality(sfw') = Cardinality(sfw) - 1 /\ Cardinality(sfw) # 0
  BY <1>1, <1>2, Finite, FS_RemoveElement, FS_EmptySet
<1>4. Admitted' = Admitted
  BY DEF FlagNsfw, Admitted, locals
<1>5. QED
  BY <1>2, <1>3, <1>4, Finite DEF Budget!Retract

-----------------------------------------------------------------------------

BudgetStep == Budget!Next \/ UNCHANGED Budget!vars

\* A worker's step that neither passes the page guard nor commits a page.
LEMMA OtherStepBudget ==
    ASSUME IInv, NEW w \in Workers, Step(w) \/ Fault(w),
           ~PageGuard(w), ~CommitPage(w)
    PROVE  Budget!Withdraw \/ UNCHANGED Budget!vars
<1>1. TypeOK
  BY DEF IInv
<1>2. CASE FetchPage(w) \/ ProcessPage(w)
  BY <1>1, <1>2, StaysAdmitted DEF FetchPage, ProcessPage, AdmittedLabels, tables
<1>3. CASE UNCHANGED <<pc, sfw>>
  BY <1>3 DEF Admitted, Budget!vars
<1>4. CASE sfw' = sfw /\ \E label \in Labels \ AdmittedLabels : Goto(w, label)
  BY <1>1, <1>4, LeavesOrStays
<1>5. CASE RetryTask(w) \/ Crash(w) \/ FinishTask(w)
  <2>1. sfw' = sfw /\ Goto(w, "idle") /\ "idle" \in Labels \ AdmittedLabels
    BY <1>5 DEF RetryTask, Crash, FinishTask, tables, Labels, AdmittedLabels
  <2>2. QED
    BY <1>4, <2>1
<1>6. CASE StartTask(w)
  <2>1. CASE ThresholdReached
    BY <1>3, <1>6, <2>1 DEF StartTask, tables
  <2>2. CASE ~ThresholdReached
    BY <1>4, <1>6, <2>2 DEF StartTask, tables, Labels, AdmittedLabels
  <2>3. QED
    BY <2>1, <2>2
<1>7. CASE SeedLookup(w) \/ CrawlGuard(w)
  <2>1. sfw' = sfw
    BY <1>7 DEF SeedLookup, CrawlGuard, tables
  <2>2. \E label \in {"insert", "next", "final", "seed"} : Goto(w, label)
    BY <1>7 DEF SeedLookup, CrawlGuard
  <2>3. QED
    BY <1>4, <2>1, <2>2 DEF Labels, AdmittedLabels
<1>8. CASE Recheck(w)
  <2>1. sfw' = sfw
    BY <1>8 DEF Recheck
  <2>2. \E label \in {"pause", "pageGuard"} : Goto(w, label)
    BY <1>8 DEF Recheck, PauseCurrent
  <2>3. QED
    BY <1>4, <2>1, <2>2 DEF Labels, AdmittedLabels
<1>9. CASE \/ SeedInsert(w) \/ BeginBlog(w) \/ EndCrawl(w) \/ FetchFails(w)
           \/ FetchEmpty(w) \/ PauseSelect(w) \/ PauseCommit(w)
  <2>1. sfw' = sfw
    BY <1>9 DEF SeedInsert, BeginBlog, EndCrawl, FetchFails, FetchEmpty,
                PauseSelect, PauseCommit, tables
  <2>2. \E label \in {"next", "pageGuard", "final", "pausing"} : Goto(w, label)
    BY <1>9 DEF SeedInsert, BeginBlog, EndCrawl, FetchFails, FetchEmpty,
                PauseSelect, PauseCommit
  <2>3. QED
    BY <1>4, <2>1, <2>2 DEF Labels, AdmittedLabels
<1>10. CASE SelectPass(w) \/ Redeliver(w)
  BY <1>3, <1>10 DEF SelectPass, Redeliver, tables, locals
<1>11. QED
  BY <1>2, <1>5, <1>6, <1>7, <1>8, <1>9, <1>10
     DEF Step, Fault, InsertCollides, TaskRaises

LEMMA BudgetSimulates == RInv /\ [Next]_vars => BudgetStep
<1> SUFFICES ASSUME RInv, [Next]_vars PROVE BudgetStep
  OBVIOUS
<1>1. IInv
  BY DEF RInv
<1>2. ASSUME NEW w \in Workers, Step(w) \/ Fault(w) PROVE BudgetStep
  <2>1. CASE PageGuard(w)
    BY <1>1, <2>1, PageGuardBudget DEF BudgetStep, Budget!Next
  <2>2. CASE CommitPage(w)
    BY <2>2, CommitPageBudget DEF BudgetStep, Budget!Next
  <2>3. CASE ~PageGuard(w) /\ ~CommitPage(w)
    BY <1>1, <1>2, <2>3, OtherStepBudget DEF BudgetStep, Budget!Next
  <2>4. QED
    BY <2>1, <2>2, <2>3
<1>3. CASE FlagNsfw
  BY <1>1, <1>3, FlagNsfwBudget DEF BudgetStep, Budget!Next
<1>4. CASE UNCHANGED <<pc, sfw>>
  BY <1>4 DEF Admitted, Budget!vars, BudgetStep
<1>5. QED
  BY <1>2, <1>3, <1>4
     DEF Next, vars, EnqueueActive, SeedCrawl, ResetDead, locals, tables

LEMMA BudgetInitial == Init => Budget!Init
<1> SUFFICES ASSUME Init PROVE Budget!Init
  OBVIOUS
<1>1. Admitted = {}
  BY DEF Init, Admitted
<1>2. QED
  BY <1>1, FS_EmptySet DEF Init, Budget!Init

\* The crawl implements the abstract soft cap: its guards, fetches, commits,
\* aborts and NSFW verdicts are that module's steps, or none.
THEOREM ImplementsBudget == Spec => BudgetSpec
<1>1. RInv /\ [Next]_vars => [Budget!Next]_(Budget!vars)
  BY BudgetSimulates DEF BudgetStep
<1>2. QED
  BY <1>1, InitRInv, NextRInv, BudgetInitial, PTL DEF Spec, BudgetSpec, Budget!Spec

-----------------------------------------------------------------------------

Cap == INSTANCE CrawlBudgetProofs WITH
            Pool <- Cardinality(Workers),
            count <- Cardinality(sfw),
            admitted <- Cardinality(Admitted)

\* The soft cap (crawler.py:260, 330): the posts served as SFW never exceed
\* the target by more than one page per worker, less the one post missing
\* when the last guard was passed.
THEOREM OvershootBounded == Spec => []OvershootBound
<1>1. Cap!BudgetAssumption
  BY CrawlAssumption, FS_CardinalityType DEF Cap!BudgetAssumption
<1>2. Cap!Spec => []Cap!BudgetBound
  BY <1>1, Cap!BudgetHolds
<1>3. Cap!Spec <=> BudgetSpec
  BY DEF Cap!Spec, Cap!Init, Cap!Next, Cap!vars, Cap!Admit, Cap!Deliver, Cap!Withdraw,
         Cap!Retract, BudgetSpec, Budget!Spec, Budget!Init, Budget!Next, Budget!vars,
         Budget!Admit, Budget!Deliver, Budget!Withdraw, Budget!Retract
<1>4. Cap!BudgetBound <=> OvershootBound
  BY DEF Cap!BudgetBound, OvershootBound
<1>5. QED
  BY <1>2, <1>3, <1>4, ImplementsBudget, PTL

=============================================================================
