--------------------------- MODULE CrawlCoverage ---------------------------
(***************************************************************************)
(* What the crawl does not lose, for any number of overlapping sessions:    *)
(* posts that a cursor has passed, the rows of blogs and their cursors, the *)
(* blogs that stored posts name, NSFW verdicts; and how many posts aborts   *)
(* can cost.                                                                *)
(*                                                                          *)
(* NothingSkipped is not inductive: a session writes back the columns of    *)
(* its own, older copy of a row.  SkipInv asks the same of every copy; a    *)
(* commit that mixes the columns of two rows that are each covered is       *)
(* covered again.                                                           *)
(*                                                                          *)
(* The last section tells a session that runs alone, whose copies lag       *)
(* behind the table only by what the dashboard writes, from one that has    *)
(* run beside another.                                                      *)
(***************************************************************************)
EXTENDS CrawlProofs

\* A post of blog b that `row' has left behind is tied to one in A.
Covered(b, row, A) ==
    row # None =>
        \A p \in Dated :
            /\ BlogOf[p] = b
            /\ row.status = "done" \/ (row.cursor # None /\ row.cursor <= Stamp[p])
            => \E q \in A : BlogOf[q] = b /\ Stamp[q] = Stamp[p]

SkipInv ==
    \A b \in Blogs :
        /\ Covered(b, db[b], Accounted)
        /\ \A w \in Workers : Covered(b, held[w][b], Accounted)

LEMMA CoveredMonotone ==
    ASSUME NEW b, NEW row, NEW A, NEW B, A \subseteq B, Covered(b, row, A)
    PROVE  Covered(b, row, B)
BY DEF Covered

LEMMA CoveredNone == \A b, A : Covered(b, None, A)
BY DEF Covered

LEMMA CoveredNew == \A b, A : Covered(b, NewRow, A)
BY DEF Covered, NewRow

\* Changing the status, but not to 'done', leaves nothing behind.
LEMMA CoveredStatus ==
    ASSUME NEW b, NEW A, NEW row \in Row, NEW s \in Statuses, NEW n \in Nat,
           s # "done" \/ s = row.status, Covered(b, row, A)
    PROVE  /\ Covered(b, [row EXCEPT !.status = s], A)
           /\ Covered(b, [row EXCEPT !.status = s, !.fail = n], A)
           /\ Covered(b, [row EXCEPT !.fail = n, !.status = s], A)
           /\ Covered(b, [row EXCEPT !.fail = n], A)
<1>1. row # None
  BY CrawlAssumption
<1>2. QED
  BY <1>1 DEF Covered, Row

LEMMA CoveredSaved ==
    ASSUME NEW b, NEW A, NEW old \in Row, NEW new \in Row, NEW row \in Row,
           Covered(b, new, A), Covered(b, row, A)
    PROVE  Covered(b, Saved(old, new, row), A)
<1>1. new # None /\ row # None
  BY CrawlAssumption
<1>2. QED
  BY <1>1 DEF Covered, Saved

\* Posts change hands and are never forgotten, unless their page is dropped.
LEMMA AccountedGrows == IInv /\ [Next]_vars => Accounted \subseteq Accounted'
<1> SUFFICES ASSUME IInv, [Next]_vars PROVE Accounted \subseteq Accounted'
  OBVIOUS
<1>1. ASSUME NEW w \in Workers, FetchPage(w) PROVE Accounted \subseteq Accounted'
  <2>1. page[w] = {} /\ UNCHANGED <<sfw, nsfw, dropped>>
    BY <1>1, InHand DEF FetchPage, faults, history, InBlog
  <2>2. \A u \in Workers : page[u] \subseteq page'[u]
    BY <1>1, <2>1 DEF FetchPage, IInv, TypeOK
  <2>3. QED
    BY <2>1, <2>2 DEF Accounted, InFlight
<1>2. ASSUME NEW w \in Workers, CommitPage(w) PROVE Accounted \subseteq Accounted'
  <2>1. \A u \in Workers \ {w} : page'[u] = page[u]
    BY <1>2 DEF CommitPage, IInv, TypeOK
  <2>2. QED
    BY <1>2, <2>1 DEF CommitPage, faults, history, Accounted, InFlight
<1>3. ASSUME NEW w \in Workers, RetryTask(w) \/ Crash(w) PROVE Accounted \subseteq Accounted'
  <2>1. \A u \in Workers \ {w} : page'[u] = page[u]
    BY <1>3 DEF RetryTask, Crash, Close, IInv, TypeOK
  <2>2. QED
    BY <1>3, <2>1 DEF RetryTask, Crash, tables, Accounted, InFlight
<1>4. ASSUME NEW w \in Workers, FinishTask(w) PROVE Accounted \subseteq Accounted'
  <2>1. page[w] = {}
    BY <1>4 DEF FinishTask, IInv, SessionInv, SessionOK
  <2>2. \A u \in Workers : page'[u] = page[u]
    BY <1>4, <2>1 DEF FinishTask, Close, IInv, TypeOK
  <2>3. QED
    BY <1>4, <2>2 DEF FinishTask, faults, history, Accounted, InFlight
<1>5. ASSUME FlagNsfw PROVE Accounted \subseteq Accounted'
  BY <1>5 DEF FlagNsfw, locals, faults, history, Accounted, InFlight
<1>6. ASSUME UNCHANGED <<sfw, nsfw, page, dropped>> PROVE Accounted \subseteq Accounted'
  BY <1>6 DEF Accounted, InFlight
<1>7. QED
  BY <1>1, <1>2, <1>3, <1>4, <1>5, <1>6
     DEF Next, Step, Fault, vars, StartTask, CrawlGuard, SeedLookup, SeedInsert,
         InsertCollides, SelectPass, BeginBlog, EndCrawl, PageGuard, FetchFails,
         FetchEmpty, ProcessPage, Recheck, PauseSelect, PauseCommit, TaskRaises,
         Redeliver, EnqueueActive, SeedCrawl, ResetDead, tables, locals, faults, history

-----------------------------------------------------------------------------

\* A save is covered if what the session wants to write is.
LEMMA SaveCovered ==
    ASSUME IInv, SkipInv, Accounted \subseteq Accounted',
           NEW w \in Workers, NEW b \in Blogs, held[w][b] # None,
           NEW new \in Row, Covered(b, new, Accounted'), Save(w, b, new)
    PROVE  SkipInv'
<1>1. /\ db'[b] = Saved(held[w][b], new, db[b])
      /\ held'[w][b] = new
      /\ \A c \in Blogs \ {b} : db'[c] = db[c] /\ held'[w][c] = held[w][c]
      /\ \A u \in Workers \ {w} : held'[u] = held[u]
  BY SaveEffect DEF IInv
<1>2. held[w][b] \in Row /\ db[b] \in Row
  BY DEF IInv, TypeOK, SessionInv, SessionOK
<1>3. \A c \in Blogs : /\ Covered(c, db[c], Accounted')
                       /\ \A u \in Workers : Covered(c, held[u][c], Accounted')
  BY CoveredMonotone DEF SkipInv
<1>4. Covered(b, db'[b], Accounted')
  BY <1>1, <1>2, <1>3, CoveredSaved
<1>5. QED
  BY <1>1, <1>3, <1>4 DEF SkipInv

LEMMA CopyType ==
    ASSUME IInv, NEW w \in Workers, NEW b \in Blogs, held[w][b] # None
    PROVE  held[w][b] \in Row
BY DEF IInv, TypeOK

\* Any other change of a row, or of a copy, is covered if it keeps the cursor
\* and does not make the blog 'done'.
LEMMA RowsCovered ==
    ASSUME IInv, SkipInv, Accounted \subseteq Accounted',
           \A b \in Blogs :
               \/ db'[b] = db[b] \/ db'[b] = NewRow
               \/ /\ db[b] # None
                  /\ \/ db'[b] = [db[b] EXCEPT !.status = "paused"]
                     \/ db'[b] = [db[b] EXCEPT !.status = "active", !.fail = 0]
                     \/ db'[b] = [db[b] EXCEPT !.fail = 0],
           \A w \in Workers : \A b \in Blogs :
               \/ held'[w][b] \in {held[w][b], db[b], None}
               \/ held[w][b] # None /\ held'[w][b] = [held[w][b] EXCEPT !.fail = 0]
    PROVE  SkipInv'
<1>1. \A c \in Blogs : /\ Covered(c, db[c], Accounted')
                       /\ \A u \in Workers : Covered(c, held[u][c], Accounted')
  BY CoveredMonotone DEF SkipInv
<1>0. "paused" \in Statuses /\ "active" \in Statuses /\ 0 \in Nat
  BY DEF Statuses
<1>2. ASSUME NEW b \in Blogs PROVE Covered(b, db'[b], Accounted')
  <2>1. CASE db'[b] = db[b] \/ db'[b] = NewRow
    <3>1. Covered(b, db[b], Accounted') /\ Covered(b, NewRow, Accounted')
      BY <1>1, CoveredNew
    <3>2. QED
      BY <2>1, <3>1
  <2>2. CASE /\ db[b] # None
             /\ \/ db'[b] = [db[b] EXCEPT !.status = "paused"]
                \/ db'[b] = [db[b] EXCEPT !.status = "active", !.fail = 0]
                \/ db'[b] = [db[b] EXCEPT !.fail = 0]
    <3>1. db[b] \in Row /\ Covered(b, db[b], Accounted')
      BY <1>1, <2>2 DEF IInv, TypeOK
    <3>2. /\ Covered(b, [db[b] EXCEPT !.status = "paused"], Accounted')
          /\ Covered(b, [db[b] EXCEPT !.status = "active", !.fail = 0], Accounted')
          /\ Covered(b, [db[b] EXCEPT !.fail = 0], Accounted')
      BY <1>0, <3>1, CoveredStatus
    <3>3. QED
      BY <2>2, <3>2
  <2>3. QED
    BY <2>1, <2>2
<1>3. ASSUME NEW b \in Blogs, NEW w \in Workers
      PROVE  Covered(b, held'[w][b], Accounted')
  <2>1. /\ Covered(b, held[w][b], Accounted')
        /\ Covered(b, db[b], Accounted')
        /\ Covered(b, None, Accounted')
    BY <1>1, <1>3, CoveredNone
  <2>2. CASE held'[w][b] \in {held[w][b], db[b], None}
    BY <2>1, <2>2
  <2>3. CASE held[w][b] # None /\ held'[w][b] = [held[w][b] EXCEPT !.fail = 0]
    <3>1. held[w][b] \in Row
      BY <1>3, <2>3, CopyType
    <3>2. held[w][b].status \in Statuses
      BY <3>1 DEF Row
    <3>3. Covered(b, [held[w][b] EXCEPT !.fail = 0], Accounted')
      BY <1>0, <2>1, <3>1, <3>2, CoveredStatus
    <3>4. QED
      BY <2>3, <3>3
  <2>4. QED
    BY <1>3, <2>2, <2>3
<1>4. QED
  BY <1>2, <1>3 DEF SkipInv

-----------------------------------------------------------------------------

\* The copy in hand is covered, and stays so.
LEMMA HandCovered ==
    ASSUME IInv, SkipInv, Accounted \subseteq Accounted', NEW w \in Workers,
           pc[w] \in InBlog
    PROVE  /\ cur[w] \in Blogs /\ State(w) \in Row /\ held[w][cur[w]] # None
           /\ State(w) = held[w][cur[w]] /\ State(w) # None
           /\ Covered(cur[w], State(w), Accounted')
<1>1. cur[w] \in Blogs /\ State(w) \in Row /\ State(w) # None
      /\ State(w) = held[w][cur[w]]
  BY InHand
<1>2. Covered(cur[w], State(w), Accounted)
  BY <1>1 DEF SkipInv
<1>3. QED
  BY <1>1, <1>2, CoveredMonotone

LEMMA BeginBlogCovered ==
    ASSUME IInv, SkipInv, Accounted \subseteq Accounted', NEW w \in Workers,
           BeginBlog(w)
    PROVE  SkipInv'
<1> PICK b \in todo[w] : Save(w, b, [held[w][b] EXCEPT !.status = "active"])
  BY DEF BeginBlog
<1>1. b \in Blogs /\ held[w][b] # None /\ held[w][b] \in Row
  BY DEF IInv, TypeOK, SessionInv, SessionOK, BeginBlog, InCrawl
<1>2. Covered(b, held[w][b], Accounted')
  BY <1>1, CoveredMonotone DEF SkipInv
<1>3. "active" \in Statuses
  BY DEF Statuses
<1>4. Covered(b, [held[w][b] EXCEPT !.status = "active"], Accounted')
  BY <1>1, <1>2, <1>3, CoveredStatus
<1>5. [held[w][b] EXCEPT !.status = "active"] \in Row
  BY <1>1, <1>3, RowUpdate
<1>6. QED
  BY <1>1, <1>4, <1>5, SaveCovered

LEMMA PauseCurrentCovered ==
    ASSUME IInv, SkipInv, Accounted \subseteq Accounted', NEW w \in Workers,
           pc[w] \in {"pageGuard", "recheck"}, PauseCurrent(w)
    PROVE  SkipInv'
<1>1. /\ cur[w] \in Blogs /\ State(w) \in Row /\ held[w][cur[w]] # None
      /\ Covered(cur[w], State(w), Accounted')
  BY HandCovered DEF InBlog
<1>2. "paused" \in Statuses
  BY DEF Statuses
<1>3. /\ Covered(cur[w], [State(w) EXCEPT !.status = "paused"], Accounted')
      /\ [State(w) EXCEPT !.status = "paused"] \in Row
  BY <1>1, <1>2, CoveredStatus, RowUpdate
<1>4. QED
  BY <1>1, <1>3, SaveCovered DEF PauseCurrent

LEMMA FetchFailsCovered ==
    ASSUME IInv, SkipInv, Accounted \subseteq Accounted', NEW w \in Workers,
           FetchFails(w)
    PROVE  SkipInv'
<1> DEFINE n == State(w).fail + 1
           s == IF n >= 3 THEN "dead" ELSE State(w).status
           new == [State(w) EXCEPT !.fail = n, !.status = s]
<1>1. /\ cur[w] \in Blogs /\ State(w) \in Row /\ held[w][cur[w]] # None
      /\ Covered(cur[w], State(w), Accounted')
  BY HandCovered DEF FetchFails, InBlog
<1>2. State(w).fail \in Nat /\ State(w).status \in Statuses
  BY <1>1 DEF Row
<1>3. n \in Nat /\ s \in Statuses /\ (s # "done" \/ s = State(w).status)
  BY <1>2 DEF Statuses
<1>4. Save(w, cur[w], new)
  BY DEF FetchFails
<1> HIDE DEF n, s
<1>5. Covered(cur[w], new, Accounted') /\ new \in Row
  BY <1>1, <1>3, CoveredStatus, RowUpdate
<1>6. QED
  BY <1>1, <1>4, <1>5, SaveCovered

\* An exhausted blog has no post that its cursor did not pass.
LEMMA FetchEmptyCovered ==
    ASSUME IInv, SkipInv, Accounted \subseteq Accounted', NEW w \in Workers,
           FetchEmpty(w)
    PROVE  SkipInv'
<1> DEFINE new == [State(w) EXCEPT !.status = "done"]
<1>1. /\ cur[w] \in Blogs /\ State(w) \in Row /\ held[w][cur[w]] # None
      /\ Covered(cur[w], State(w), Accounted') /\ State(w) # None
  BY HandCovered DEF FetchEmpty, InBlog
<1>2. new \in Row
  BY <1>1, RowUpdate DEF Statuses
<1>3. ASSUME NEW p \in Dated, BlogOf[p] = cur[w]
      PROVE  State(w).cursor # None /\ State(w).cursor <= Stamp[p]
  <2>1. State(w).cursor # None /\ ~(Stamp[p] < State(w).cursor)
    BY <1>3 DEF FetchEmpty, Earlier
  <2>2. Stamp[p] \in Nat /\ State(w).cursor \in Nat
    BY <1>1, <2>1, CrawlAssumption DEF Row, Dated
  <2>3. QED
    BY <2>1, <2>2
<1>4. Covered(cur[w], new, Accounted')
  BY <1>1, <1>3 DEF Covered
<1>5. Save(w, cur[w], new)
  BY DEF FetchEmpty
<1>6. QED
  BY <1>1, <1>2, <1>4, <1>5, SaveCovered

\* The new cursor passes the posts of the page, those the old one passed and
\* those with the timestamp of the page's oldest post.
LEMMA FetchDatedCovered ==
    ASSUME IInv, SkipInv, Accounted \subseteq Accounted', NEW w \in Workers,
           FetchPage(w), NEW S \in Pages(cur[w], State(w).cursor),
           page' = [page EXCEPT ![w] = S], FetchDated(w, S)
    PROVE  SkipInv'
<1>2. PICK t \in Oldest(S) :
        Save(w, cur[w], [State(w) EXCEPT !.fail = 0, !.cursor = t])
  BY DEF FetchDated
<1> DEFINE b == cur[w]
           new == [State(w) EXCEPT !.fail = 0, !.cursor = t]
<1>3. /\ b \in Blogs /\ State(w) \in Row /\ held[w][b] # None
      /\ Covered(b, State(w), Accounted') /\ State(w) # None
  BY HandCovered DEF FetchPage, InBlog
<1>4. /\ S \subseteq Posts
      /\ \A p \in S \cap Dated, q \in Earlier(b, State(w).cursor) \ S : Stamp[q] <= Stamp[p]
  BY PageOf DEF Pages
<1>5. PICK r \in S \cap Earlier(b, State(w).cursor) :
        t = Stamp[r] /\ \A q \in S \cap Dated : Stamp[r] <= Stamp[q]
  BY OldestOf
<1>6. t \in Nat /\ r \in Dated /\ BlogOf[r] = b
  BY <1>5, OldestOf DEF Earlier
<1>7. S \subseteq Accounted'
  <2>1. page'[w] = S
    BY DEF IInv, TypeOK
  <2>2. QED
    BY <2>1 DEF Accounted, InFlight
<1>8. new \in Row /\ new.cursor = t /\ new.status = State(w).status
  BY <1>3, <1>6 DEF Row
<1>9. ASSUME NEW p \in Dated, BlogOf[p] = b, t <= Stamp[p]
      PROVE  \E q \in Accounted' : BlogOf[q] = b /\ Stamp[q] = Stamp[p]
  <2>0. Stamp[p] \in Nat /\ Stamp[r] \in Nat
    BY <1>5, <1>6, CrawlAssumption DEF Dated
  <2>1. CASE p \in S
    BY <1>7, <1>9, <2>1
  <2>2. CASE p \in Earlier(b, State(w).cursor) \ S
    <3>1. Stamp[p] <= Stamp[r]
      BY <1>4, <1>5, <1>6, <2>2
    <3>2. Stamp[r] = Stamp[p]
      BY <1>5, <1>9, <2>0, <3>1
    <3>3. QED
      BY <1>5, <1>6, <1>7, <3>2
  <2>3. CASE p \notin Earlier(b, State(w).cursor)
    <3>1. State(w).cursor # None /\ ~(Stamp[p] < State(w).cursor)
      BY <1>9, <2>3 DEF Earlier
    <3>2. State(w).cursor \in Nat
      BY <1>3, <3>1 DEF Row
    <3>3. State(w).cursor <= Stamp[p]
      BY <2>0, <3>1, <3>2
    <3>4. QED
      BY <1>3, <1>9, <3>1, <3>3 DEF Covered
  <2>4. QED
    BY <2>1, <2>2, <2>3
<1>10. Covered(b, new, Accounted')
  BY <1>3, <1>8, <1>9 DEF Covered
<1>11. Save(w, b, new)
  BY <1>2
<1> HIDE DEF b, new
<1>12. QED
  BY <1>3, <1>8, <1>10, <1>11, SaveCovered

\* The commits that insert rows or change only their status.
LEMMA RowsOnlyCovered ==
    ASSUME IInv, SkipInv, Accounted \subseteq Accounted', NEW w \in Workers,
           SeedInsert(w) \/ CommitPage(w) \/ PauseCommit(w) \/ FinishTask(w)
    PROVE  SkipInv'
<1>1. CASE SeedInsert(w)
  <2>1. \A b \in Blogs : db'[b] = db[b] \/ db'[b] = NewRow
    BY <1>1 DEF SeedInsert, InsertFresh
  <2>2. held' = held
    BY <1>1 DEF SeedInsert
  <2>3. QED
    BY <2>1, <2>2, RowsCovered
<1>0. CASE CommitPage(w)
  <2>1. \A b \in Blogs :
          \/ db'[b] = db[b] \/ db'[b] = NewRow
          \/ db[b] # None /\ db'[b] = [db[b] EXCEPT !.fail = 0]
    <3>1. ASSUME NEW b \in Blogs \ {cur[w]} PROVE db'[b] = db[b] \/ db'[b] = NewRow
      BY <1>0, <3>1, CommitEffect
    <3>2. db[cur[w]] # None /\ db'[cur[w]] \in {db[cur[w]], [db[cur[w]] EXCEPT !.fail = 0]}
      BY <1>0, CommitEffect, CrawlAssumption
    <3>3. QED
      BY <3>1, <3>2
  <2>2. \A u \in Workers : \A b \in Blogs :
          \/ held'[u][b] = held[u][b]
          \/ held[u][b] # None /\ held'[u][b] = [held[u][b] EXCEPT !.fail = 0]
    <3>1. held[w][cur[w]] = State(w) /\ State(w) # None /\ cur[w] \in Blogs
      BY <1>0, InHand DEF CommitPage, InBlog
    <3>2. held' = [held EXCEPT ![w][cur[w]] = [State(w) EXCEPT !.fail = 0]]
      BY <1>0, CommitEffect
    <3>3. QED
      BY <3>1, <3>2 DEF IInv, TypeOK
  <2>3. QED
    BY <2>1, <2>2, RowsCovered
<1>2. CASE PauseCommit(w)
  <2>1. \A b \in todo[w] : db[b] # None
    BY <1>2 DEF PauseCommit, IInv, SessionInv, SessionOK
  <2>2. \A b \in Blogs :
          \/ db'[b] = db[b]
          \/ db[b] # None /\ db'[b] = [db[b] EXCEPT !.status = "paused"]
    BY <1>2, <2>1 DEF PauseCommit
  <2>3. held' = held
    BY <1>2 DEF PauseCommit
  <2>4. QED
    BY <2>2, <2>3, RowsCovered
<1>3. CASE FinishTask(w)
  <2>1. \A b \in Blogs :
          \/ db'[b] = db[b]
          \/ db[b] # None /\ db'[b] = [db[b] EXCEPT !.status = "paused"]
    BY <1>3 DEF FinishTask, IInv, TypeOK
  <2>2. \A u \in Workers : \A b \in Blogs : held'[u][b] \in {held[u][b], None}
    BY <1>3 DEF FinishTask, Close, IInv, TypeOK
  <2>3. QED
    BY <2>1, <2>2, RowsCovered
<1>4. QED
  BY <1>0, <1>1, <1>2, <1>3

\* The steps that change no row.
LEMMA CopiesCovered ==
    ASSUME IInv, SkipInv, Accounted \subseteq Accounted', db' = db,
           \A u \in Workers : \A b \in Blogs :
               held'[u][b] \in {held[u][b], db[b], None}
    PROVE  SkipInv'
BY RowsCovered

LEMMA FetchPageCovered ==
    ASSUME IInv, SkipInv, Accounted \subseteq Accounted', NEW w \in Workers,
           FetchPage(w)
    PROVE  SkipInv'
<1>1. PICK S \in Pages(cur[w], State(w).cursor) :
        /\ page' = [page EXCEPT ![w] = S]
        /\ FetchDated(w, S) \/ FetchUndated(S)
  BY DEF FetchPage
<1>2. CASE FetchDated(w, S)
  BY <1>1, <1>2, FetchDatedCovered
<1>3. CASE FetchUndated(S)
  <2>1. UNCHANGED <<db, held>>
    BY <1>3 DEF FetchUndated
  <2>2. QED
    BY <2>1, CopiesCovered
<1>4. QED
  BY <1>1, <1>2, <1>3

-----------------------------------------------------------------------------

LEMMA AbortCovered ==
    ASSUME IInv, SkipInv, Accounted \subseteq Accounted', NEW w \in Workers,
           RetryTask(w) \/ Crash(w)
    PROVE  SkipInv'
<1>1. db' = db
  BY DEF RetryTask, Crash, tables
<1>2. \A u \in Workers : \A b \in Blogs : held'[u][b] \in {held[u][b], None}
  <2>1. held' = [held EXCEPT ![w] = [b \in Blogs |-> None]]
    BY DEF RetryTask, Crash, Close
  <2>2. QED
    BY <2>1 DEF IInv, TypeOK
<1>3. QED
  BY <1>1, <1>2, CopiesCovered

LEMMA SelectPassCovered ==
    ASSUME IInv, SkipInv, Accounted \subseteq Accounted', NEW w \in Workers,
           SelectPass(w)
    PROVE  SkipInv'
<1>1. db' = db
  BY DEF SelectPass, tables
<1>2. \A u \in Workers : \A b \in Blogs : held'[u][b] \in {held[u][b], db[b], None}
  BY DEF SelectPass, IInv, TypeOK
<1>3. QED
  BY <1>1, <1>2, CopiesCovered

LEMMA StepCovered ==
    ASSUME IInv, SkipInv, Accounted \subseteq Accounted', NEW w \in Workers,
           Step(w) \/ Fault(w)
    PROVE  SkipInv'
<1>1. CASE UNCHANGED <<db, held>>
  BY <1>1, CopiesCovered
<1>2. CASE PageGuard(w)
  BY <1>1, <1>2, PauseCurrentCovered DEF PageGuard
<1>3. CASE Recheck(w)
  BY <1>1, <1>3, PauseCurrentCovered DEF Recheck
<1>4. CASE \/ StartTask(w) \/ CrawlGuard(w) \/ SeedLookup(w) \/ EndCrawl(w)
           \/ ProcessPage(w) \/ PauseSelect(w) \/ Redeliver(w)
  BY <1>1, <1>4 DEF StartTask, CrawlGuard, SeedLookup, EndCrawl, ProcessPage,
                    PauseSelect, Redeliver, tables, locals
<1>5. CASE RetryTask(w) \/ Crash(w)
  BY <1>5, AbortCovered
<1>6. CASE SelectPass(w)
  BY <1>6, SelectPassCovered
<1>7. CASE BeginBlog(w)
  BY <1>7, BeginBlogCovered
<1>8. CASE FetchFails(w)
  BY <1>8, FetchFailsCovered
<1>9. CASE FetchEmpty(w)
  BY <1>9, FetchEmptyCovered
<1>10. CASE FetchPage(w)
  BY <1>10, FetchPageCovered
<1>11. CASE SeedInsert(w) \/ CommitPage(w) \/ PauseCommit(w) \/ FinishTask(w)
  BY <1>11, RowsOnlyCovered
<1>12. QED
  BY <1>2, <1>3, <1>4, <1>5, <1>6, <1>7, <1>8, <1>9, <1>10, <1>11
     DEF Step, Fault, InsertCollides, TaskRaises

LEMMA InitSkipInv == Init => SkipInv
BY CoveredNone DEF Init, SkipInv

LEMMA NextSkipInv == IInv /\ SkipInv /\ [Next]_vars => SkipInv'
<1> SUFFICES ASSUME IInv, SkipInv, [Next]_vars PROVE SkipInv'
  OBVIOUS
<1>1. Accounted \subseteq Accounted'
  BY AccountedGrows
<1>2. ASSUME NEW w \in Workers, Step(w) \/ Fault(w) PROVE SkipInv'
  BY <1>1, <1>2, StepCovered
<1>3. CASE SeedCrawl
  <2>1. \A b \in Blogs : db'[b] = db[b] \/ db'[b] = NewRow
    BY <1>3 DEF SeedCrawl
  <2>2. held' = held
    BY <1>3 DEF SeedCrawl, locals
  <2>3. QED
    BY <1>1, <2>1, <2>2, RowsCovered
<1>4. CASE ResetDead
  <2>1. \A b \in Blogs :
          \/ db'[b] = db[b]
          \/ /\ db[b] # None
             /\ db'[b] = [db[b] EXCEPT !.status = "active", !.fail = 0]
    BY <1>4 DEF ResetDead, WithStatus
  <2>2. held' = held
    BY <1>4 DEF ResetDead, locals
  <2>3. QED
    BY <1>1, <2>1, <2>2, RowsCovered
<1>5. CASE UNCHANGED <<db, held>>
  BY <1>1, <1>5, CopiesCovered
<1>6. QED
  BY <1>2, <1>3, <1>4, <1>5
     DEF Next, vars, EnqueueActive, FlagNsfw, tables, locals

\* Whatever sessions overlap, with whatever stale copies, retries and crashes:
\* a post that a cursor has passed, or whose blog is 'done', is stored, in
\* flight, a video or lost with its page, or tied with one that is.
THEOREM NothingIsSkipped == Spec => []NothingSkipped
<1>1. IInv /\ SkipInv => NothingSkipped
  <2> SUFFICES ASSUME IInv, SkipInv, NEW p \in Dated, db[BlogOf[p]] # None,
                      \/ db[BlogOf[p]].status = "done"
                      \/ /\ db[BlogOf[p]].cursor # None
                         /\ db[BlogOf[p]].cursor <= Stamp[p]
               PROVE  \E q \in Accounted : BlogOf[q] = BlogOf[p] /\ Stamp[q] = Stamp[p]
    BY DEF NothingSkipped
  <2>1. BlogOf[p] \in Blogs
    BY CrawlAssumption DEF Dated
  <2>2. Covered(BlogOf[p], db[BlogOf[p]], Accounted)
    BY <2>1 DEF SkipInv
  <2>3. QED
    BY <2>2 DEF Covered
<1>2. Spec => [](IInv /\ SkipInv)
  BY InitIInv, NextIInv, InitSkipInv, NextSkipInv, PTL DEF Spec
<1>3. QED
  BY <1>1, <1>2, PTL

-----------------------------------------------------------------------------
(* What an abort costs.                                                     *)

\* Every aborted transaction drops at most the page it was storing.
DroppedInv == Cardinality(dropped) <= PageSize * aborts

LEMMA DroppedFinite ==
    ASSUME IInv
    PROVE  /\ aborts \in Nat /\ dropped \subseteq Posts
           /\ IsFiniteSet(dropped) /\ Cardinality(dropped) \in Nat
           /\ \A w \in Workers : IsFiniteSet(page[w]) /\ Cardinality(page[w]) \in Nat
<1>1. /\ aborts \in Nat /\ dropped \subseteq Posts
      /\ \A w \in Workers : page[w] \subseteq Posts
  BY DEF IInv, TypeOK
<1>2. IsFiniteSet(dropped) /\ \A w \in Workers : IsFiniteSet(page[w])
  BY <1>1, CrawlAssumption, FS_Subset
<1>3. QED
  BY <1>1, <1>2, FS_CardinalityType

LEMMA AbortDrops ==
    ASSUME RInv, DroppedInv, NEW w \in Workers,
           aborts' = aborts + 1, dropped' = dropped \cup page[w]
    PROVE  DroppedInv'
<1> DEFINE P == PageSize * aborts
<1>1. aborts \in Nat /\ PageSize \in Nat /\ P \in Nat
  BY DroppedFinite, CrawlAssumption DEF RInv
<1>2. PageSize * (aborts + 1) = P + PageSize
  BY <1>1
<1>3. Cardinality(page[w]) <= PageSize /\ Cardinality(dropped) <= P
  BY DEF RInv, PageInv, DroppedInv
<1>4. /\ IsFiniteSet(dropped) /\ IsFiniteSet(page[w])
      /\ Cardinality(dropped) \in Nat /\ Cardinality(page[w]) \in Nat
  BY DroppedFinite DEF RInv
<1>5. /\ Cardinality(dropped \cup page[w])
            = Cardinality(dropped) + Cardinality(page[w]) - Cardinality(dropped \cap page[w])
      /\ Cardinality(dropped \cap page[w]) \in Nat
  <2>1. Cardinality(dropped \cup page[w])
            = Cardinality(dropped) + Cardinality(page[w]) - Cardinality(dropped \cap page[w])
    BY <1>4, FS_Union
  <2>2. IsFiniteSet(dropped \cap page[w])
    BY <1>4, FS_Intersection
  <2>3. QED
    BY <2>1, <2>2, FS_CardinalityType
<1> HIDE DEF P
<1>6. Cardinality(dropped') <= P + PageSize
  BY <1>1, <1>3, <1>4, <1>5
<1>7. QED
  BY <1>2, <1>6 DEF DroppedInv

LEMMA NextDropped == RInv /\ DroppedInv /\ [Next]_vars => DroppedInv'
<1> SUFFICES ASSUME RInv, DroppedInv, [Next]_vars PROVE DroppedInv'
  OBVIOUS
<1>1. ASSUME NEW w \in Workers, RetryTask(w) \/ Crash(w) PROVE DroppedInv'
  BY <1>1, AbortDrops DEF RetryTask, Crash
<1>2. CASE UNCHANGED faults
  BY <1>2 DEF faults, DroppedInv
<1>3. QED
  BY <1>1, <1>2
     DEF Next, Step, Fault, vars, StartTask, CrawlGuard, SeedLookup, SeedInsert,
         InsertCollides, SelectPass, BeginBlog, EndCrawl, PageGuard, FetchFails,
         FetchEmpty, FetchPage, ProcessPage, CommitPage, Recheck, PauseSelect,
         PauseCommit, FinishTask, TaskRaises, Redeliver, EnqueueActive, SeedCrawl,
         ResetDead, FlagNsfw, faults, history

\* What a finished blog lacks was dropped with the page of an abort, if no
\* two of its posts have one timestamp.
LEMMA MissingDropped ==
    ASSUME IInv, SkipInv, DistinctStamps
    PROVE  Missing \subseteq dropped
<1> SUFFICES ASSUME NEW p \in Missing PROVE p \in dropped
  OBVIOUS
<1>1. /\ p \in Dated /\ p \in Posts /\ p \notin sfw /\ p \notin nsfw /\ p \notin InFlight
      /\ p \notin Video
      /\ db[BlogOf[p]] # None /\ db[BlogOf[p]].status = "done"
  BY DEF Missing, Dated
<1>2. Covered(BlogOf[p], db[BlogOf[p]], Accounted)
  BY <1>1, CrawlAssumption DEF SkipInv
<1>3. PICK q \in Accounted : BlogOf[q] = BlogOf[p] /\ Stamp[q] = Stamp[p]
  BY <1>1, <1>2 DEF Covered
<1>4. q \in Dated
  <2>1. q \in Posts
    BY <1>3, CrawlAssumption DEF Accounted, InFlight, IInv, TypeOK
  <2>2. QED
    BY <1>1, <1>3, <2>1 DEF Dated
<1>5. q = p
  BY <1>1, <1>3, <1>4 DEF DistinctStamps
<1>6. QED
  BY <1>1, <1>3, <1>5 DEF Accounted

\* Whatever crashes, retries and overlapping sessions do, blogs that are
\* 'done' lack at most one page of posts for each abort (crawler.py:314-326).
THEOREM LossIsBounded == Spec => []LossBounded
<1>1. Init => DroppedInv
  <2>1. Cardinality({}) = 0 /\ PageSize * 0 = 0
    BY FS_EmptySet, CrawlAssumption
  <2>2. QED
    BY <2>1 DEF Init, DroppedInv
<1>2. IInv /\ SkipInv /\ DroppedInv => LossBounded
  <2> SUFFICES ASSUME IInv, SkipInv, DroppedInv, DistinctStamps
               PROVE  Cardinality(Missing) <= PageSize * aborts
    BY DEF LossBounded
  <2>1. /\ Missing \subseteq dropped /\ IsFiniteSet(dropped)
        /\ Cardinality(dropped) \in Nat /\ aborts \in Nat
    BY MissingDropped, DroppedFinite
  <2>2. /\ IsFiniteSet(Missing) /\ Cardinality(Missing) <= Cardinality(dropped)
        /\ Cardinality(Missing) \in Nat
    BY <2>1, FS_Subset, FS_CardinalityType
  <2>3. PageSize * aborts \in Nat
    BY <2>1, CrawlAssumption
  <2>4. QED
    BY <2>1, <2>2, <2>3 DEF DroppedInv
<1>3. RInv => IInv
  BY DEF RInv
<1>4. Spec => [](RInv /\ SkipInv /\ DroppedInv)
  BY <1>1, <1>3, InitRInv, NextRInv, InitSkipInv, NextSkipInv, NextDropped, PTL DEF Spec
<1>5. QED
  BY <1>2, <1>3, <1>4, PTL

-----------------------------------------------------------------------------
(* Rows and cursors.                                                        *)

\* What a step may do to a row: not delete it, nor forget its cursor.
RowKept(b) ==
    db[b] # None => /\ db'[b] # None
                    /\ db[b].cursor # None => db'[b].cursor # None

NoRowLost == \A b \in Blogs : RowKept(b)

\* A session that saves its copy sets a cursor or leaves the row's alone.
LEMMA SaveKeepsRows ==
    ASSUME IInv, NEW w \in Workers, NEW b \in Blogs, held[w][b] # None,
           NEW new \in Row, new.cursor = held[w][b].cursor \/ new.cursor # None,
           Save(w, b, new)
    PROVE  NoRowLost
<1>1. /\ db'[b] = Saved(held[w][b], new, db[b]) /\ db'[b] \in Row
      /\ \A c \in Blogs \ {b} : db'[c] = db[c]
  BY SaveEffect DEF IInv
<1>2. RowKept(b)
  <2>1. db'[b] # None
    BY <1>1, CrawlAssumption
  <2>2. db'[b].cursor = IF new.cursor # held[w][b].cursor THEN new.cursor
                                                          ELSE db[b].cursor
    BY <1>1 DEF Saved
  <2>3. QED
    BY <2>1, <2>2 DEF RowKept
<1>3. QED
  BY <1>1, <1>2 DEF NoRowLost, RowKept

\* The saves of the row in hand.
LEMMA HandKeepsRows ==
    ASSUME IInv, NEW w \in Workers, pc[w] \in InBlog, NEW new \in Row,
           new.cursor = State(w).cursor \/ new.cursor # None,
           Save(w, cur[w], new)
    PROVE  NoRowLost
<1>1. cur[w] \in Blogs /\ State(w) # None /\ State(w) = held[w][cur[w]]
  BY InHand
<1>2. QED
  BY <1>1, SaveKeepsRows

\* An update of other columns than the cursor.
LEMMA ColumnsAlone ==
    ASSUME NEW r \in Row, NEW s \in Statuses, NEW n \in Nat
    PROVE  /\ [r EXCEPT !.status = s].cursor = r.cursor
           /\ [r EXCEPT !.fail = n, !.status = s].cursor = r.cursor
           /\ [r EXCEPT !.status = s, !.fail = n].cursor = r.cursor
BY DEF Row

\* Rows that are inserted, or whose other columns are written.
LEMMA WritesKeepRows ==
    ASSUME IInv,
           \A b \in Blogs :
               \/ db[b] = None \/ db'[b] = db[b]
               \/ db'[b] = [db[b] EXCEPT !.status = "paused"]
               \/ db'[b] = [db[b] EXCEPT !.status = "active", !.fail = 0]
               \/ db'[b] = [db[b] EXCEPT !.fail = 0]
    PROVE  NoRowLost
<1> SUFFICES ASSUME NEW b \in Blogs, db[b] # None PROVE RowKept(b)
  BY DEF NoRowLost, RowKept
<1>1. db[b] \in Row /\ "paused" \in Statuses /\ "active" \in Statuses /\ 0 \in Nat
  BY DEF IInv, TypeOK, Statuses
<1>2. /\ [db[b] EXCEPT !.status = "paused"] \in Row
      /\ [db[b] EXCEPT !.status = "active", !.fail = 0] \in Row
      /\ [db[b] EXCEPT !.fail = 0] \in Row
  BY <1>1, RowUpdate DEF Row
<1>3. /\ [db[b] EXCEPT !.status = "paused"].cursor = db[b].cursor
      /\ [db[b] EXCEPT !.status = "active", !.fail = 0].cursor = db[b].cursor
      /\ [db[b] EXCEPT !.fail = 0].cursor = db[b].cursor
  BY <1>1 DEF Row
<1>4. QED
  BY <1>2, <1>3, CrawlAssumption DEF RowKept

LEMMA HandStepKeepsRows ==
    ASSUME IInv, NEW w \in Workers,
           \/ FetchFails(w) \/ FetchEmpty(w) \/ FetchPage(w)
           \/ pc[w] \in {"pageGuard", "recheck"} /\ PauseCurrent(w)
    PROVE  NoRowLost
<1>1. State(w) \in Row /\ pc[w] \in InBlog
  BY InHand DEF InBlog, FetchFails, FetchEmpty, FetchPage
<1>2. State(w).fail \in Nat /\ State(w).status \in Statuses
  BY <1>1 DEF Row
<1>3. CASE FetchFails(w)
  <2> DEFINE n == State(w).fail + 1
             s == IF n >= 3 THEN "dead" ELSE State(w).status
  <2>1. n \in Nat /\ s \in Statuses
    BY <1>2 DEF Statuses
  <2>2. Save(w, cur[w], [State(w) EXCEPT !.fail = n, !.status = s])
    BY <1>3 DEF FetchFails
  <2> HIDE DEF n, s
  <2>3. QED
    BY <1>1, <2>1, <2>2, RowUpdate, ColumnsAlone, HandKeepsRows
<1>4. CASE FetchEmpty(w)
  <2>1. "done" \in Statuses
    BY DEF Statuses
  <2>2. QED
    BY <1>1, <1>4, <2>1, RowUpdate, ColumnsAlone, HandKeepsRows DEF FetchEmpty
<1>5. CASE FetchPage(w)
  <2>1. PICK S \in Pages(cur[w], State(w).cursor) : FetchDated(w, S) \/ FetchUndated(S)
    BY <1>5 DEF FetchPage
  <2>2. CASE FetchDated(w, S)
    <3>1. PICK t \in Oldest(S) :
            Save(w, cur[w], [State(w) EXCEPT !.fail = 0, !.cursor = t])
      BY <2>2 DEF FetchDated
    <3>2. /\ [State(w) EXCEPT !.fail = 0, !.cursor = t] \in Row
          /\ [State(w) EXCEPT !.fail = 0, !.cursor = t].cursor # None
      <4>1. t \in Nat /\ t # None
        BY OldestOf
      <4>2. QED
        BY <1>1, <4>1 DEF Row
    <3>3. QED
      BY <1>1, <3>1, <3>2, HandKeepsRows
  <2>3. CASE FetchUndated(S)
    BY <2>3, WritesKeepRows DEF FetchUndated
  <2>4. QED
    BY <2>1, <2>2, <2>3
<1>6. CASE PauseCurrent(w)
  <2>1. "paused" \in Statuses
    BY DEF Statuses
  <2>2. QED
    BY <1>1, <1>6, <2>1, RowUpdate, ColumnsAlone, HandKeepsRows DEF PauseCurrent
<1>7. QED
  BY <1>3, <1>4, <1>5, <1>6

LEMMA StepKeepsRows ==
    ASSUME IInv, NEW w \in Workers, Step(w) \/ Fault(w)
    PROVE  NoRowLost
<1>1. CASE db' = db
  BY <1>1, WritesKeepRows
<1>2. CASE PageGuard(w) \/ Recheck(w)
  BY <1>1, <1>2, HandStepKeepsRows DEF PageGuard, Recheck
<1>3. CASE FetchFails(w) \/ FetchEmpty(w) \/ FetchPage(w)
  BY <1>3, HandStepKeepsRows
<1>4. CASE BeginBlog(w)
  <2>1. PICK b \in todo[w] : Save(w, b, [held[w][b] EXCEPT !.status = "active"])
    BY <1>4 DEF BeginBlog
  <2>2. b \in Blogs /\ held[w][b] # None /\ held[w][b] \in Row /\ "active" \in Statuses
    BY <1>4 DEF IInv, TypeOK, SessionInv, SessionOK, BeginBlog, InCrawl, Statuses
  <2>3. QED
    BY <2>1, <2>2, RowUpdate, ColumnsAlone, SaveKeepsRows
<1>5. CASE SeedInsert(w) \/ CommitPage(w)
  <2>1. CASE SeedInsert(w)
    <3>1. \A b \in Blogs : db[b] = None \/ db'[b] = db[b]
      BY <2>1, InsertFreshEffect DEF SeedInsert
    <3>2. QED
      BY <3>1, WritesKeepRows
  <2>2. CASE CommitPage(w)
    <3>1. \A b \in Blogs : \/ db[b] = None \/ db'[b] = db[b]
                           \/ db'[b] = [db[b] EXCEPT !.fail = 0]
      BY <2>2, CommitEffect
    <3>2. QED
      BY <3>1, WritesKeepRows
  <2>3. QED
    BY <1>5, <2>1, <2>2
<1>6. CASE PauseCommit(w)
  <2>1. \A b \in Blogs : db'[b] \in {db[b], [db[b] EXCEPT !.status = "paused"]}
    BY <1>6 DEF PauseCommit
  <2>2. QED
    BY <2>1, WritesKeepRows
<1>7. CASE FinishTask(w)
  <2>1. \A b \in Blogs : db'[b] \in {db[b], [db[b] EXCEPT !.status = "paused"]}
    BY <1>7 DEF FinishTask, IInv, TypeOK
  <2>2. QED
    BY <2>1, WritesKeepRows
<1>8. QED
  BY <1>1, <1>2, <1>3, <1>4, <1>5, <1>6, <1>7
     DEF Step, Fault, StartTask, CrawlGuard, SeedLookup, InsertCollides, SelectPass,
         EndCrawl, ProcessPage, PauseSelect, TaskRaises, RetryTask, Crash, Redeliver,
         tables

LEMMA NextKeepsRows == IInv /\ [Next]_vars => NoRowLost
<1> SUFFICES ASSUME IInv, [Next]_vars PROVE NoRowLost
  OBVIOUS
<1>1. ASSUME NEW w \in Workers, Step(w) \/ Fault(w) PROVE NoRowLost
  BY <1>1, StepKeepsRows
<1>2. CASE SeedCrawl \/ ResetDead
  BY <1>2, WritesKeepRows DEF SeedCrawl, ResetDead
<1>3. CASE db' = db
  BY <1>3, WritesKeepRows
<1>4. QED
  BY <1>1, <1>2, <1>3 DEF Next, vars, EnqueueActive, FlagNsfw, tables

\* Sessions with stale copies, inserts that race, resets and rollbacks: none
\* deletes a row, or takes a blog back to before its first page.
THEOREM RowsAreKept == Spec => RowsKept
<1>1. NoRowLost => \A b \in Blogs : db[b] # None =>
            /\ db'[b] # None
            /\ db[b].cursor # None => db'[b].cursor # None
  BY DEF NoRowLost, RowKept
<1>2. QED
  BY <1>1, Invariance, NextKeepsRows, PTL DEF Spec, RowsKept

-----------------------------------------------------------------------------
(* The blogs that posts name.                                               *)

\* A page that waits for its commit: its sources have rows, or will get them
\* in the same commit.
SourcesInv ==
    \A w \in Workers : pc[w] = "commit" =>
        \A b \in Discovered(page[w]) : b \in fresh[w] \/ db[b] # None

\* Only ProcessPage leads to the commit of a page.
LEMMA CommitComes ==
    ASSUME IInv, [Next]_vars, NEW w \in Workers, pc'[w] = "commit"
    PROVE  \/ ProcessPage(w)
           \/ pc[w] = "commit" /\ page'[w] = page[w] /\ fresh'[w] = fresh[w]
<1>1. CASE UNCHANGED locals
  BY <1>1 DEF locals
<1>2. ASSUME NEW v \in Workers, Step(v), v # w
      PROVE  pc'[w] = pc[w] /\ page'[w] = page[w] /\ fresh'[w] = fresh[w]
  <2>1. CASE CommitPage(v)
    BY <1>2, <2>1 DEF IInv, TypeOK, Goto, CommitPage, CommitStates
  <2>2. CASE ~CommitPage(v)
    BY <1>2, <2>2 DEF IInv, TypeOK, Step, Goto, Close, StartTask, CrawlGuard, SeedLookup,
       SeedInsert, InsertCollides, RetryTask, SelectPass, BeginBlog, EndCrawl, PageGuard,
       PauseCurrent, FetchFails, FetchEmpty, FetchPage, ProcessPage, Recheck,
       PauseSelect, PauseCommit, FinishTask
  <2>3. QED
    BY <2>1, <2>2
<1>3. ASSUME NEW v \in Workers, RetryTask(v) \/ Crash(v)
      PROVE  pc'[v] = "idle" /\ (v # w => /\ pc'[w] = pc[w] /\ page'[w] = page[w]
                                          /\ fresh'[w] = fresh[w])
  BY <1>3 DEF IInv, TypeOK, RetryTask, Crash, Goto, Close
<1>4. ASSUME Step(w), ~ProcessPage(w), ~InsertCollides(w) PROVE FALSE
  BY <1>4 DEF IInv, TypeOK, Step, Goto, StartTask, CrawlGuard, SeedLookup,
     SeedInsert, SelectPass, BeginBlog, EndCrawl, PageGuard,
     PauseCurrent, FetchFails, FetchEmpty, FetchPage, CommitPage, Recheck,
     PauseSelect, PauseCommit, FinishTask
<1>5. QED
  BY <1>1, <1>2, <1>3, <1>4
     DEF Next, vars, Fault, TaskRaises, Redeliver, InsertCollides, EnqueueActive,
         SeedCrawl, ResetDead, FlagNsfw, locals

LEMMA NextSources == IInv /\ SourcesInv /\ [Next]_vars => SourcesInv'
<1> SUFFICES ASSUME IInv, SourcesInv, [Next]_vars, NEW w \in Workers, pc'[w] = "commit",
                    NEW b \in Discovered(page'[w])
             PROVE  b \in fresh'[w] \/ db'[b] # None
  BY DEF SourcesInv, Discovered
<1>1. page[w] \subseteq Posts /\ (db[b] # None /\ b \in Blogs => db'[b] # None)
  BY NextKeepsRows DEF NoRowLost, RowKept, IInv, TypeOK
<1>2. CASE ProcessPage(w)
  <2>1. page' = page /\ db' = db
        /\ fresh'[w] = {c \in Discovered(page[w]) : db[c] = None}
    BY <1>2 DEF ProcessPage, tables, IInv, TypeOK
  <2>2. QED
    BY <2>1
<1>3. CASE pc[w] = "commit" /\ page'[w] = page[w] /\ fresh'[w] = fresh[w]
  <2>1. b \in Blogs
    BY <1>1, <1>3, CrawlAssumption DEF Discovered
  <2>2. QED
    BY <1>1, <1>3, <2>1 DEF SourcesInv
<1>4. QED
  BY <1>2, <1>3, CommitComes

LEMMA NextKnown == IInv /\ SourcesInv /\ SourcesKnown /\ [Next]_vars => SourcesKnown'
<1> SUFFICES ASSUME IInv, SourcesInv, SourcesKnown, [Next]_vars,
                    NEW p \in sfw' \cup nsfw', NEW b \in Sources[p]
             PROVE  db'[b] # None
  BY DEF SourcesKnown
<1>1. p \in sfw \cup nsfw \/ \E w \in Workers : CommitPage(w) /\ p \in page[w] \ Video
  BY DEF Next, Step, Fault, vars, StartTask, CrawlGuard, SeedLookup, SeedInsert,
         InsertCollides, SelectPass, BeginBlog, EndCrawl, PageGuard, FetchFails,
         FetchEmpty, FetchPage, ProcessPage, CommitPage, Recheck, PauseSelect,
         PauseCommit, FinishTask, TaskRaises, RetryTask, Crash, Redeliver,
         EnqueueActive, SeedCrawl, ResetDead, FlagNsfw, tables
<1>2. CASE p \in sfw \cup nsfw
  <2>1. db[b] # None /\ b \in Blogs
    BY <1>2, CrawlAssumption DEF SourcesKnown, IInv, TypeOK
  <2>2. QED
    BY <2>1, NextKeepsRows DEF NoRowLost, RowKept
<1>3. CASE \E w \in Workers : CommitPage(w) /\ p \in page[w] \ Video
  <2>1. PICK w \in Workers : CommitPage(w) /\ p \in page[w] \ Video
    BY <1>3
  <2>2. b \in Discovered(page[w]) /\ b \in Blogs
    BY <2>1, CrawlAssumption DEF Discovered, IInv, TypeOK
  <2>3. b \in fresh[w] \/ db[b] # None
    BY <2>1, <2>2 DEF SourcesInv, CommitPage
  <2>4. /\ \A c \in fresh[w] : db'[c] = NewRow
        /\ \A c \in Blogs : db[c] # None => db'[c] # None
        /\ NewRow # None
    <3>1. NewRow \in Row
      BY DEF NewRow, Row, Statuses
    <3>2. QED
      BY <2>1, <3>1, CommitEffect, CrawlAssumption DEF NoRowDeleted
  <2>5. QED
    BY <2>2, <2>3, <2>4
<1>4. QED
  BY <1>1, <1>2, <1>3

\* The blogs a stored post was reblogged from have rows, whichever session
\* inserts them first and whatever is rolled back (crawler.py:131-138).
THEOREM SourcesAreKnown == Spec => []SourcesKnown
<1>1. Init => SourcesInv /\ SourcesKnown
  BY DEF Init, SourcesInv, SourcesKnown
<1>2. QED
  BY <1>1, InitIInv, NextIInv, NextSources, NextKnown, PTL DEF Spec

-----------------------------------------------------------------------------
(* NSFW verdicts.                                                           *)

Disjoint == sfw \cap nsfw = {}

LEMMA NextDisjoint ==
    Disjoint /\ [Next]_vars => /\ Disjoint'
                               /\ nsfw \subseteq nsfw' /\ sfw' \cap nsfw = {}
BY DEF Disjoint, Next, Step, Fault, vars, StartTask, CrawlGuard, SeedLookup, SeedInsert,
       InsertCollides, SelectPass, BeginBlog, EndCrawl, PageGuard, FetchFails,
       FetchEmpty, FetchPage, ProcessPage, CommitPage, Recheck, PauseSelect,
       PauseCommit, FinishTask, TaskRaises, RetryTask, Crash, Redeliver,
       EnqueueActive, SeedCrawl, ResetDead, FlagNsfw, tables

\* A post found NSFW stays so: pages that bring it again, fetched before the
\* verdict or after it, do not clear its flag (crawler.py:187-193).
THEOREM VerdictsAreFinal == Spec => NsfwIsFinal
<1>1. Init => Disjoint
  BY DEF Init, Disjoint
<1>2. QED
  BY <1>1, NextDisjoint, PTL DEF Spec, NsfwIsFinal

-----------------------------------------------------------------------------
(* Failures and cursors.  A session that runs alone has copies that lag     *)
(* behind the table only by what the dashboard writes; one that has run     *)
(* beside another may hold anything the table once held.                    *)

\* n failures of a blog are known to have happened, of which f are counted.
Counted(n, f) == n <= f \/ f = 3

RowCounted(row, f) ==
    row # None => Counted(row.fail, f) /\ (row.status = "dead" => f = 3)

\* No row and no copy says more failures than there were.
CountsInv ==
    \A b \in Blogs :
        /\ RowCounted(db[b], failed[b])
        /\ \A w \in Workers : RowCounted(held[w][b], failed[b])

\* The copy has the row's cursor; what else the row may have is what
\* reset_dead writes.
Follows(row, copy) ==
    copy # None => /\ copy.cursor = row.cursor
                   /\ row.fail <= copy.fail
                   /\ row.status = "dead" => copy.status = "dead"

AloneFollows ==
    \A w \in Workers \ together : \A b \in Blogs : Follows(db[b], held[w][b])

\* Sessions are of workers that run, and those that run side by side are known.
Apart ==
    /\ \A w \in Workers : pc[w] = "idle" => \A b \in Blogs : held[w][b] = None
    /\ \A u, v \in Workers : u # v /\ pc[u] # "idle" /\ pc[v] # "idle" => u \in together

\* The blog in hand is 'active' in its copy.
HandActive == \A w \in Workers : pc[w] \in InBlog => State(w).status = "active"

FailInv == CountsInv /\ AloneFollows /\ Apart /\ HandActive

CursorsGoBack ==
    \A b \in Blogs : db[b] # None /\ db[b].cursor # None =>
        \/ db'[b].cursor # None /\ db'[b].cursor <= db[b].cursor
        \/ \E w \in together : pc[w] = "fetch" /\ cur[w] = b

\* What the rows and the copies of a step must be like.
RowsStep == CountsInv' /\ AloneFollows' /\ CursorsGoBack

\* While a worker runs, a session beside it has been seen.
LEMMA AloneOnly ==
    ASSUME FailInv, NEW w \in Workers, pc[w] # "idle",
           NEW u \in Workers, u # w, u \notin together \/ w \notin together
    PROVE  \A b \in Blogs : held[u][b] = None
BY DEF FailInv, Apart

LEMMA FailTypes ==
    ASSUME IInv
    PROVE  /\ failed \in [Blogs -> 0..3]
           /\ \A b \in Blogs : db[b] # None => db[b] \in Row
           /\ \A w \in Workers, b \in Blogs :
                  held[w][b] # None => held[w][b] \in Row /\ db[b] \in Row
<1>1. /\ failed \in [Blogs -> 0..3]
      /\ \A b \in Blogs : db[b] # None => db[b] \in Row
  BY DEF IInv, TypeOK
<1>2. ASSUME NEW w \in Workers, NEW b \in Blogs, held[w][b] # None
      PROVE  held[w][b] \in Row /\ db[b] # None
  BY <1>2, CopyType DEF IInv, SessionInv, SessionOK
<1>3. QED
  BY <1>1, <1>2


\* A commit of a running worker: it saves the copy of one row, and may insert
\* others.  Either no failure of the blog is forgotten, or the worker runs
\* alone and says that there is none.
LEMMA SaveCounts ==
    ASSUME IInv, FailInv, IInv', NEW w \in Workers, pc[w] # "idle", NEW b \in Blogs,
           held[w][b] # None, NEW new \in Row,
           db'[b] = Saved(held[w][b], new, db[b]), held'[w][b] = new,
           \A c \in Blogs \ {b} :
               /\ db'[c] = db[c] \/ (db[c] = None /\ db'[c] = NewRow)
               /\ held'[w][c] = held[w][c] /\ failed'[c] = failed[c],
           \A u \in Workers \ {w} : held'[u] = held[u],
           UNCHANGED together,
           \/ new.cursor = held[w][b].cursor
           \/ /\ new.cursor # None /\ pc[w] = "fetch" /\ cur[w] = b
              /\ held[w][b].cursor # None => new.cursor <= held[w][b].cursor,
           \/ failed[b] <= failed'[b]
           \/ /\ w \notin together /\ new.fail = 0
              /\ new.status = "active" /\ held[w][b].status = "active",
           RowCounted(new, failed'[b])
    PROVE  RowsStep
<1> DEFINE old == held[w][b]
           row == db[b]
           f == failed[b]
           g == failed'[b]
<1>1. /\ old \in Row /\ row \in Row /\ old # None /\ row # None
      /\ db'[b] # None
  BY FailTypes, CrawlAssumption DEF IInv, SessionInv, SessionOK, TypeOK
<1>2. /\ f \in 0..3 /\ g \in 0..3
      /\ old.fail \in Nat /\ row.fail \in Nat /\ new.fail \in Nat
      /\ row.cursor \in Nat \cup {None} /\ new.cursor \in Nat \cup {None}
  BY <1>1 DEF IInv, TypeOK, Row
<1>3. /\ RowCounted(row, f)
      /\ \A u \in Workers : RowCounted(held[u][b], f)
      /\ w \notin together => Follows(row, old)
  BY DEF FailInv, CountsInv, AloneFollows
<1>4. /\ db'[b].fail = IF new.fail # old.fail THEN new.fail ELSE row.fail
      /\ db'[b].status = IF new.status # old.status THEN new.status ELSE row.status
      /\ db'[b].cursor = IF new.cursor # old.cursor THEN new.cursor ELSE row.cursor
  BY DEF Saved
<1>5. \A c \in Blogs \ {b} : db'[c] = db[c] \/ (db[c] = None /\ db'[c] = NewRow)
  OBVIOUS
<1>6. \A c \in Blogs \ {b} : failed'[c] = failed[c]
  OBVIOUS
<1>7. NewRow.fail = 0 /\ NewRow.status = "pending"
  BY DEF NewRow
<1>8. ASSUME NEW u \in Workers, u # w, u \notin together \/ w \notin together
      PROVE  \A c \in Blogs : held'[u][c] = None
  BY <1>8, AloneOnly
<1> HIDE DEF f, g, old, row
<1>9. RowCounted(db'[b], g)
  <2>1. CASE f <= g
    <3>1. /\ Counted(new.fail, g) /\ (new.status = "dead" => g = 3)
          /\ Counted(row.fail, f) /\ (row.status = "dead" => f = 3)
      BY <1>1, <1>3, CrawlAssumption DEF RowCounted, g
    <3>2. Counted(row.fail, g) /\ (row.status = "dead" => g = 3)
      BY <1>2, <2>1, <3>1 DEF Counted
    <3>3. QED
      BY <1>4, <3>1, <3>2 DEF RowCounted
  <2>2. CASE /\ w \notin together /\ new.fail = 0
             /\ new.status = "active" /\ old.status = "active"
    <3>1. row.fail <= old.fail /\ row.status # "dead"
      BY <1>1, <1>3, <2>2 DEF Follows
    <3>2. db'[b].fail = 0 /\ db'[b].status # "dead"
      BY <1>2, <1>4, <2>2, <3>1
    <3>3. QED
      BY <1>2, <3>2 DEF RowCounted, Counted
  <2>3. QED
    BY <2>1, <2>2 DEF f, g, old
<1>10. ASSUME NEW u \in Workers PROVE RowCounted(held'[u][b], g)
  <2>1. CASE u = w
    BY <2>1 DEF g
  <2>2. CASE u # w /\ f <= g
    <3>1. held'[u][b] = held[u][b] /\ RowCounted(held[u][b], f)
      BY <1>3, <2>2
    <3>2. held[u][b] # None => held[u][b].fail \in Nat
      BY FailTypes DEF Row
    <3>3. QED
      BY <1>2, <2>2, <3>1, <3>2 DEF RowCounted, Counted
  <2>3. CASE u # w /\ w \notin together
    BY <1>8, <2>3 DEF RowCounted
  <2>4. QED
    BY <2>1, <2>2, <2>3 DEF f, g
<1>11. ASSUME NEW c \in Blogs, c # b
       PROVE  /\ RowCounted(db'[c], failed'[c])
              /\ \A u \in Workers : RowCounted(held'[u][c], failed'[c])
  <2>1. /\ RowCounted(db[c], failed[c]) /\ failed[c] \in 0..3
        /\ \A u \in Workers : RowCounted(held[u][c], failed[c])
    BY <1>11, FailTypes DEF FailInv, CountsInv
  <2>2. RowCounted(NewRow, failed[c])
    BY <1>7, <2>1 DEF RowCounted, Counted
  <2>3. \A u \in Workers : held'[u][c] = held[u][c]
    BY <1>11
  <2>4. QED
    BY <1>5, <1>6, <1>11, <2>1, <2>2, <2>3
<1>12. CountsInv'
  BY <1>9, <1>10, <1>11 DEF CountsInv, g
<1>13. AloneFollows'
  <2> SUFFICES ASSUME NEW u \in Workers, u \notin together, NEW c \in Blogs,
                      held'[u][c] # None
               PROVE  Follows(db'[c], held'[u][c])
    BY DEF AloneFollows, Follows
  <2>1. u = w
    BY <1>8
  <2>2. CASE c = b
    <3>1. Follows(row, old) /\ held'[u][c] = new
      BY <1>3, <2>1, <2>2
    <3>2. QED
      BY <1>1, <1>2, <1>4, <2>2, <3>1 DEF Follows
  <2>3. CASE c # b
    <3>1. held[u][c] # None /\ held'[u][c] = held[u][c] /\ Follows(db[c], held[u][c])
      BY <2>1, <2>3 DEF FailInv, AloneFollows
    <3>2. db[c] # None
      BY <3>1 DEF IInv, SessionInv, SessionOK
    <3>3. QED
      BY <1>5, <2>3, <3>1, <3>2
  <2>4. QED
    BY <2>2, <2>3
<1>14. CursorsGoBack
  <2> SUFFICES ASSUME NEW c \in Blogs, db[c] # None, db[c].cursor # None,
                      ~\E v \in together : pc[v] = "fetch" /\ cur[v] = c
               PROVE  db'[c].cursor # None /\ db'[c].cursor <= db[c].cursor
    BY DEF CursorsGoBack
  <2>1. db[c].cursor \in Nat
    BY FailTypes DEF Row
  <2>2. CASE c # b
    BY <1>5, <2>1, <2>2
  <2>3. CASE c = b
    <3>1. CASE new.cursor = old.cursor
      BY <1>4, <2>1, <2>3, <3>1 DEF row
    <3>2. CASE /\ new.cursor # None /\ pc[w] = "fetch" /\ cur[w] = b
               /\ old.cursor # None => new.cursor <= old.cursor
      <4>1. w \notin together
        BY <2>3, <3>2
      <4>2. old.cursor = row.cursor
        BY <1>1, <1>3, <4>1 DEF Follows
      <4>3. QED
        BY <1>4, <2>1, <2>3, <3>2, <4>2 DEF row
    <3>3. QED
      BY <3>1, <3>2 DEF old
  <2>4. QED
    BY <2>2, <2>3
<1>15. QED
  BY <1>12, <1>13, <1>14 DEF RowsStep


\* The other writes of rows, and the steps that write none.
OtherWrites ==
    \A b \in Blogs :
        \/ db'[b] = db[b]
        \/ db[b] = None /\ db'[b] = NewRow
        \/ db[b] # None /\ db'[b] = [db[b] EXCEPT !.status = "paused"]
        \/ db[b] # None /\ db'[b] = [db[b] EXCEPT !.status = "active", !.fail = 0]

CopiesLoaded ==
    \A w \in Workers : \A b \in Blogs :
        \/ held'[w][b] \in {held[w][b], None}
        \/ held'[w][b] = db[b] /\ db'[b] = db[b]

LEMMA WriteCounts ==
    ASSUME IInv, FailInv, OtherWrites, CopiesLoaded, failed' = failed,
           \A w \in Workers \ together' :
               w \in together => \A b \in Blogs : held'[w][b] = None
    PROVE  RowsStep
<1>1. ASSUME NEW b \in Blogs, db[b] # None
      PROVE  /\ db'[b] # None /\ db'[b].cursor = db[b].cursor
             /\ db'[b].fail <= db[b].fail
             /\ db'[b].fail = db[b].fail \/ db'[b].fail = 0
             /\ db'[b].status = "dead" => db[b].status = "dead"
  <2>1. /\ db[b] \in Row /\ db[b].fail \in Nat
        /\ "paused" \in Statuses /\ "active" \in Statuses /\ 0 \in Nat
    BY <1>1, FailTypes DEF Statuses, Row
  <2>2. /\ [db[b] EXCEPT !.status = "paused"] \in Row
        /\ [db[b] EXCEPT !.status = "active", !.fail = 0] \in Row
    BY <2>1, RowUpdate
  <2>3. /\ [db[b] EXCEPT !.status = "paused"].cursor = db[b].cursor
        /\ [db[b] EXCEPT !.status = "active", !.fail = 0].cursor = db[b].cursor
        /\ [db[b] EXCEPT !.status = "paused"].status = "paused"
        /\ [db[b] EXCEPT !.status = "active", !.fail = 0].status = "active"
        /\ [db[b] EXCEPT !.status = "paused"].fail = db[b].fail
        /\ [db[b] EXCEPT !.status = "active", !.fail = 0].fail = 0
    BY <2>1 DEF Row
  <2>4. \/ db'[b] = db[b]
        \/ db'[b] = [db[b] EXCEPT !.status = "paused"]
        \/ db'[b] = [db[b] EXCEPT !.status = "active", !.fail = 0]
    BY <1>1 DEF OtherWrites
  <2>5. CASE db'[b] = db[b]
    BY <1>1, <2>1, <2>5
  <2>6. CASE db'[b] = [db[b] EXCEPT !.status = "paused"]
    BY <2>1, <2>2, <2>3, <2>6, CrawlAssumption
  <2>7. CASE db'[b] = [db[b] EXCEPT !.status = "active", !.fail = 0]
    BY <2>1, <2>2, <2>3, <2>7, CrawlAssumption
  <2>8. QED
    BY <2>4, <2>5, <2>6, <2>7
<1>2. ASSUME NEW b \in Blogs, db[b] = None
      PROVE  db'[b] = None \/ db'[b] = NewRow
  BY <1>2 DEF OtherWrites
<1>3. NewRow.status = "pending" /\ NewRow.fail = 0
  BY DEF NewRow
<1>4. \A b \in Blogs : RowCounted(db'[b], failed[b])
  <2> SUFFICES ASSUME NEW b \in Blogs PROVE RowCounted(db'[b], failed[b])
    OBVIOUS
  <2>1. RowCounted(db[b], failed[b]) /\ failed[b] \in 0..3
    BY FailTypes DEF FailInv, CountsInv
  <2>2. CASE db[b] = None
    BY <1>2, <1>3, <2>1, <2>2 DEF RowCounted, Counted
  <2>3. CASE db[b] # None
    BY <1>1, <2>1, <2>3 DEF RowCounted, Counted
  <2>4. QED
    BY <2>2, <2>3
<1>5. CountsInv'
  <2> SUFFICES ASSUME NEW b \in Blogs, NEW w \in Workers
               PROVE  RowCounted(held'[w][b], failed[b])
    BY <1>4 DEF CountsInv
  <2>1. RowCounted(held[w][b], failed[b]) /\ RowCounted(None, failed[b])
    BY DEF FailInv, CountsInv, RowCounted
  <2>2. held'[w][b] \in {held[w][b], None} \/ held'[w][b] = db'[b]
    BY DEF CopiesLoaded
  <2>3. QED
    BY <1>4, <2>1, <2>2
<1>6. AloneFollows'
  <2> SUFFICES ASSUME NEW w \in Workers \ together', NEW b \in Blogs, held'[w][b] # None
               PROVE  Follows(db'[b], held'[w][b])
    BY DEF AloneFollows, Follows
  <2>0. w \notin together
    OBVIOUS
  <2>1. CASE held'[w][b] = held[w][b]
    <3>1. Follows(db[b], held[w][b]) /\ held[w][b] # None
      BY <2>0, <2>1 DEF FailInv, AloneFollows
    <3>2. held[w][b] \in Row /\ db[b] \in Row /\ db[b] # None
      BY <3>1, FailTypes, CrawlAssumption
    <3>3. held[w][b].fail \in Nat /\ db[b].fail \in Nat
      BY <3>2 DEF Row
    <3>4. /\ db'[b].cursor = db[b].cursor /\ db'[b].fail <= held[w][b].fail
          /\ db'[b].status = "dead" => db[b].status = "dead"
      BY <1>1, <3>1, <3>2, <3>3 DEF Follows
    <3>5. QED
      BY <2>1, <3>1, <3>4 DEF Follows
  <2>2. CASE held'[w][b] = db[b] /\ db'[b] = db[b]
    <3>1. db[b].fail \in Nat
      BY <2>2, FailTypes DEF Row
    <3>2. QED
      BY <2>2, <3>1 DEF Follows
  <2>3. QED
    BY <2>1, <2>2 DEF CopiesLoaded
<1>7. CursorsGoBack
  <2> SUFFICES ASSUME NEW b \in Blogs, db[b] # None, db[b].cursor # None
               PROVE  db'[b].cursor # None /\ db'[b].cursor <= db[b].cursor
    BY DEF CursorsGoBack
  <2>1. db[b].cursor \in Nat
    BY FailTypes DEF Row
  <2>2. QED
    BY <1>1, <2>1
<1>8. QED
  BY <1>5, <1>6, <1>7 DEF RowsStep

\* The commits of the row in hand.
LEMMA HandCounts ==
    ASSUME IInv, FailInv, IInv', NEW w \in Workers, pc[w] \in InBlog,
           NEW new \in Row, Save(w, cur[w], new), UNCHANGED together,
           \A c \in Blogs \ {cur[w]} : failed'[c] = failed[c],
           \/ new.cursor = State(w).cursor
           \/ /\ new.cursor # None /\ pc[w] = "fetch"
              /\ State(w).cursor # None => new.cursor <= State(w).cursor,
           \/ failed[cur[w]] <= failed'[cur[w]]
           \/ /\ w \notin together /\ new.fail = 0
              /\ new.status = "active" /\ State(w).status = "active",
           RowCounted(new, failed'[cur[w]])
    PROVE  RowsStep
<1>1. cur[w] \in Blogs /\ held[w][cur[w]] # None /\ State(w) = held[w][cur[w]]
  BY InHand
<1>2. /\ db'[cur[w]] = Saved(held[w][cur[w]], new, db[cur[w]]) /\ held'[w][cur[w]] = new
      /\ \A c \in Blogs \ {cur[w]} : db'[c] = db[c] /\ held'[w][c] = held[w][c]
      /\ \A u \in Workers \ {w} : held'[u] = held[u]
  BY <1>1, SaveEffect DEF IInv
<1>3. pc[w] # "idle"
  BY DEF InBlog
<1>4. QED
  BY <1>1, <1>2, <1>3, SaveCounts

\* A page that came: the failures are forgotten if the worker runs alone.
LEMMA ClearedEffect ==
    ASSUME IInv, FailInv, NEW w \in Workers, pc[w] \in InBlog, Cleared(w)
    PROVE  /\ \A c \in Blogs \ {cur[w]} : failed'[c] = failed[c]
           /\ \/ failed[cur[w]] <= failed'[cur[w]]
              \/ w \notin together
           /\ State(w).status = "active" /\ failed'[cur[w]] \in 0..3
<1>1. failed \in [Blogs -> 0..3] /\ cur[w] \in Blogs
  BY InHand, FailTypes
<1>2. State(w).status = "active"
  BY DEF FailInv, HandActive
<1>3. CASE w \in together
  BY <1>1, <1>2, <1>3 DEF Cleared
<1>4. CASE w \notin together
  BY <1>1, <1>2, <1>4 DEF Cleared
<1>5. QED
  BY <1>3, <1>4


LEMMA PageLoopCounts ==
    ASSUME IInv, FailInv, IInv', NEW w \in Workers,
           \/ FetchFails(w) \/ FetchEmpty(w) \/ FetchPage(w)
           \/ /\ pc[w] \in {"pageGuard", "recheck"} /\ PauseCurrent(w)
              /\ UNCHANGED history
    PROVE  RowsStep
<1>1. /\ pc[w] \in InBlog /\ cur[w] \in Blogs /\ State(w) \in Row
      /\ held[w][cur[w]] # None /\ State(w) = held[w][cur[w]]
  BY InHand DEF InBlog, FetchFails, FetchEmpty, FetchPage
<1>2. /\ State(w).fail \in Nat /\ State(w).status = "active"
      /\ State(w).cursor \in Nat \cup {None}
      /\ failed \in [Blogs -> 0..3] /\ failed[cur[w]] \in 0..3
      /\ Counted(State(w).fail, failed[cur[w]])
  BY <1>1, FailTypes DEF Row, FailInv, HandActive, CountsInv, RowCounted
<1>3. {"active", "dead", "paused", "done"} \subseteq Statuses
  BY DEF Statuses
<1>4. CASE FetchFails(w)
  <2> DEFINE n == State(w).fail + 1
             s == IF n >= 3 THEN "dead" ELSE State(w).status
             new == [State(w) EXCEPT !.fail = n, !.status = s]
             g == failed'[cur[w]]
  <2>1. n \in Nat /\ s \in Statuses /\ (s = "dead" => n >= 3)
    BY <1>2, <1>3
  <2>2. Save(w, cur[w], new) /\ UNCHANGED together
    BY <1>4 DEF FetchFails
  <2>3. /\ g = (IF failed[cur[w]] < 3 THEN failed[cur[w]] + 1 ELSE failed[cur[w]])
        /\ \A c \in Blogs \ {cur[w]} : failed'[c] = failed[c]
    BY <1>1, <1>2, <1>4 DEF FetchFails
  <2>4. Counted(n, g) /\ failed[cur[w]] <= g /\ (n >= 3 => g = 3)
    BY <1>2, <2>3 DEF Counted
  <2> HIDE DEF n, s, g
  <2>5. new \in Row /\ new.cursor = State(w).cursor /\ new.fail = n /\ new.status = s
    BY <1>1, <2>1 DEF Row
  <2> HIDE DEF new
  <2>6. RowCounted(new, g)
    BY <2>1, <2>4, <2>5 DEF RowCounted
  <2>7. QED
    BY <1>1, <2>2, <2>3, <2>4, <2>5, <2>6, HandCounts DEF g
<1>5. CASE FetchEmpty(w)
  <2> DEFINE new == [State(w) EXCEPT !.status = "done"]
  <2>1. /\ new \in Row /\ new.cursor = State(w).cursor /\ new.status = "done"
        /\ new.fail = State(w).fail
    BY <1>1, <1>3 DEF Row
  <2>2. Save(w, cur[w], new) /\ UNCHANGED <<together, failed>>
    BY <1>5 DEF FetchEmpty, history
  <2> HIDE DEF new
  <2>3. RowCounted(new, failed'[cur[w]]) /\ failed[cur[w]] <= failed'[cur[w]]
    BY <1>2, <2>1, <2>2 DEF RowCounted
  <2>4. QED
    BY <1>1, <2>1, <2>2, <2>3, HandCounts
<1>6. CASE PauseCurrent(w) /\ UNCHANGED history
  <2> DEFINE new == [State(w) EXCEPT !.status = "paused"]
  <2>1. /\ new \in Row /\ new.cursor = State(w).cursor /\ new.status = "paused"
        /\ new.fail = State(w).fail
    BY <1>1, <1>3 DEF Row
  <2>2. Save(w, cur[w], new) /\ UNCHANGED <<together, failed>>
    BY <1>6 DEF PauseCurrent, history
  <2> HIDE DEF new
  <2>3. RowCounted(new, failed'[cur[w]]) /\ failed[cur[w]] <= failed'[cur[w]]
    BY <1>2, <2>1, <2>2 DEF RowCounted
  <2>4. QED
    BY <1>1, <2>1, <2>2, <2>3, HandCounts
<1>7. CASE FetchPage(w)
  <2>1. /\ pc[w] = "fetch" /\ UNCHANGED together
        /\ \E S \in Pages(cur[w], State(w).cursor) : FetchDated(w, S) \/ FetchUndated(S)
    BY <1>7 DEF FetchPage
  <2>2. PICK S \in Pages(cur[w], State(w).cursor) : FetchDated(w, S) \/ FetchUndated(S)
    BY <2>1
  <2>3. CASE FetchUndated(S)
    BY <2>1, <2>3, WriteCounts DEF FetchUndated, OtherWrites, CopiesLoaded
  <2>4. CASE FetchDated(w, S)
    <3>1. PICK t \in Oldest(S) :
            Save(w, cur[w], [State(w) EXCEPT !.fail = 0, !.cursor = t])
      BY <2>4 DEF FetchDated
    <3>2. t \in Nat /\ t # None /\ (State(w).cursor # None => t <= State(w).cursor)
      BY <1>2, OldestOf
    <3> DEFINE new == [State(w) EXCEPT !.fail = 0, !.cursor = t]
    <3>3. new \in Row /\ new.cursor = t /\ new.status = "active" /\ new.fail = 0
      BY <1>1, <1>2, <3>2 DEF Row
    <3>4. Save(w, cur[w], new)
      BY <3>1
    <3> HIDE DEF new
    <3>5. /\ \A c \in Blogs \ {cur[w]} : failed'[c] = failed[c]
          /\ failed[cur[w]] <= failed'[cur[w]] \/ w \notin together
          /\ failed'[cur[w]] \in 0..3
      BY <1>1, <2>4, ClearedEffect DEF FetchDated
    <3>6. RowCounted(new, failed'[cur[w]])
      BY <3>3, <3>5 DEF RowCounted, Counted
    <3>7. QED
      BY <1>1, <1>2, <2>1, <3>2, <3>3, <3>4, <3>5, <3>6, HandCounts
  <2>5. QED
    BY <2>2, <2>3, <2>4
<1>8. QED
  BY <1>4, <1>5, <1>6, <1>7

LEMMA CommitCounts ==
    ASSUME IInv, FailInv, IInv', NEW w \in Workers, CommitPage(w)
    PROVE  RowsStep
<1> DEFINE new == [State(w) EXCEPT !.fail = 0]
<1>1. /\ pc[w] \in InBlog /\ pc[w] # "idle" /\ cur[w] \in Blogs
      /\ held[w][cur[w]] # None /\ State(w) = held[w][cur[w]]
      /\ Cleared(w) /\ UNCHANGED together
  BY InHand DEF InBlog, CommitPage, CommitStates
<1>2. /\ State(w) \in Row /\ new \in Row
      /\ db'[cur[w]] = Saved(State(w), new, db[cur[w]])
      /\ held' = [held EXCEPT ![w][cur[w]] = new]
      /\ \A c \in Blogs \ {cur[w]} :
             db'[c] = db[c] \/ (db[c] = None /\ db'[c] = NewRow)
  <2>1. \A c \in Blogs \ {cur[w]} : db[c] = None => db'[c] = db[c] \/ db'[c] = NewRow
    BY CommitEffect
  <2>2. QED
    BY <2>1, CommitEffect
<1>3. /\ held'[w][cur[w]] = new
      /\ \A c \in Blogs \ {cur[w]} : held'[w][c] = held[w][c]
      /\ \A u \in Workers \ {w} : held'[u] = held[u]
  BY <1>1, <1>2 DEF IInv, TypeOK
<1>4. /\ \A c \in Blogs \ {cur[w]} : failed'[c] = failed[c]
      /\ failed[cur[w]] <= failed'[cur[w]] \/ w \notin together
      /\ State(w).status = "active" /\ failed'[cur[w]] \in 0..3
  BY <1>1, ClearedEffect
<1>5. new.fail = 0 /\ new.status = "active" /\ new.cursor = State(w).cursor
  BY <1>2, <1>4 DEF Row
<1>6. RowCounted(new, failed'[cur[w]])
  BY <1>4, <1>5 DEF RowCounted, Counted
<1> HIDE DEF new
<1>7. QED
  BY <1>1, <1>2, <1>3, <1>4, <1>5, <1>6, SaveCounts

LEMMA BeginCounts ==
    ASSUME IInv, FailInv, IInv', NEW w \in Workers, BeginBlog(w)
    PROVE  RowsStep
<1>1. PICK b \in todo[w] : Save(w, b, [held[w][b] EXCEPT !.status = "active"])
  BY DEF BeginBlog
<1>2. /\ b \in Blogs /\ held[w][b] # None /\ held[w][b] \in Row
      /\ pc[w] # "idle" /\ "active" \in Statuses
  BY DEF IInv, TypeOK, SessionInv, SessionOK, BeginBlog, InCrawl, Statuses
<1> DEFINE new == [held[w][b] EXCEPT !.status = "active"]
<1>3. /\ new \in Row /\ new.cursor = held[w][b].cursor /\ new.status = "active"
      /\ new.fail = held[w][b].fail
  BY <1>2 DEF Row
<1>4. Save(w, b, new)
  BY <1>1
<1> HIDE DEF new
<1>5. /\ db'[b] = Saved(held[w][b], new, db[b]) /\ held'[w][b] = new
      /\ \A c \in Blogs \ {b} : db'[c] = db[c] /\ held'[w][c] = held[w][c]
      /\ \A u \in Workers \ {w} : held'[u] = held[u]
  BY <1>2, <1>3, <1>4, SaveEffect DEF IInv
<1>6. UNCHANGED <<failed, together>> /\ failed[b] \in 0..3
  BY <1>2, FailTypes DEF BeginBlog, history
<1>7. RowCounted(new, failed'[b]) /\ failed[b] <= failed'[b]
  BY <1>2, <1>3, <1>6 DEF FailInv, CountsInv, RowCounted
<1>8. QED
  BY <1>2, <1>3, <1>5, <1>6, <1>7, SaveCounts

LEMMA StepCounts ==
    ASSUME IInv, FailInv, IInv', NEW w \in Workers, Step(w) \/ Fault(w)
    PROVE  RowsStep
<1>1. CASE UNCHANGED <<db, held, failed>> /\ together \subseteq together'
  BY <1>1, WriteCounts DEF OtherWrites, CopiesLoaded
<1>2. CASE PageGuard(w) \/ Recheck(w)
  BY <1>1, <1>2, PageLoopCounts DEF PageGuard, Recheck, history
<1>3. CASE FetchFails(w) \/ FetchEmpty(w) \/ FetchPage(w)
  BY <1>3, PageLoopCounts
<1>4. CASE BeginBlog(w)
  BY <1>4, BeginCounts
<1>5. CASE CommitPage(w)
  BY <1>5, CommitCounts
<1>6. CASE SeedInsert(w)
  <2>1. \A b \in Blogs : db'[b] = db[b] \/ (db[b] = None /\ db'[b] = NewRow)
    BY <1>6 DEF SeedInsert, InsertFresh, Collides
  <2>2. UNCHANGED <<held, failed, together>>
    BY <1>6 DEF SeedInsert, history
  <2>3. QED
    BY <2>1, <2>2, WriteCounts DEF OtherWrites, CopiesLoaded
<1>7. CASE PauseCommit(w)
  <2>1. \A b \in todo[w] : db[b] # None
    BY <1>7 DEF PauseCommit, IInv, SessionInv, SessionOK
  <2>2. \A b \in Blogs :
          \/ db'[b] = db[b]
          \/ db[b] # None /\ db'[b] = [db[b] EXCEPT !.status = "paused"]
    BY <1>7, <2>1 DEF PauseCommit
  <2>3. UNCHANGED <<held, failed, together>>
    BY <1>7 DEF PauseCommit, history
  <2>4. QED
    BY <2>2, <2>3, WriteCounts DEF OtherWrites, CopiesLoaded
<1>8. CASE RetryTask(w) \/ Crash(w) \/ FinishTask(w)
  <2>1. \A b \in Blogs :
          \/ db'[b] = db[b]
          \/ db[b] # None /\ db'[b] = [db[b] EXCEPT !.status = "paused"]
    BY <1>8 DEF RetryTask, Crash, FinishTask, tables, IInv, TypeOK
  <2>2. /\ held' = [held EXCEPT ![w] = [b \in Blogs |-> None]]
        /\ failed' = failed /\ together' = together \ {w}
    BY <1>8 DEF RetryTask, Crash, FinishTask, Close
  <2>3. /\ \A u \in Workers : \A b \in Blogs : held'[u][b] \in {held[u][b], None}
        /\ \A b \in Blogs : held'[w][b] = None
    BY <2>2 DEF IInv, TypeOK
  <2>4. QED
    BY <2>1, <2>2, <2>3, WriteCounts DEF OtherWrites, CopiesLoaded
<1>9. CASE SelectPass(w)
  <2>1. UNCHANGED <<db, failed, together>>
    BY <1>9 DEF SelectPass, tables, history
  <2>2. \A u \in Workers : \A b \in Blogs : held'[u][b] \in {held[u][b], db[b], None}
    BY <1>9 DEF SelectPass, IInv, TypeOK
  <2>3. QED
    BY <2>1, <2>2, WriteCounts DEF OtherWrites, CopiesLoaded
<1>10. CASE \/ StartTask(w) \/ CrawlGuard(w) \/ SeedLookup(w) \/ EndCrawl(w)
            \/ ProcessPage(w) \/ PauseSelect(w) \/ Redeliver(w)
  BY <1>1, <1>10 DEF StartTask, CrawlGuard, SeedLookup, EndCrawl, ProcessPage,
                     PauseSelect, Redeliver, tables, locals, history
<1>11. QED
  BY <1>2, <1>3, <1>4, <1>5, <1>6, <1>7, <1>8, <1>9, <1>10
     DEF Step, Fault, InsertCollides, TaskRaises

LEMMA NextCounts == IInv /\ FailInv /\ [Next]_vars => RowsStep
<1> SUFFICES ASSUME IInv, FailInv, [Next]_vars PROVE RowsStep
  OBVIOUS
<1>1. IInv'
  BY NextIInv
<1>2. ASSUME NEW w \in Workers, Step(w) \/ Fault(w) PROVE RowsStep
  BY <1>1, <1>2, StepCounts
<1>3. CASE SeedCrawl
  <2>1. \A b \in Blogs : db'[b] = db[b] \/ (db[b] = None /\ db'[b] = NewRow)
    BY <1>3 DEF SeedCrawl
  <2>2. UNCHANGED <<held, failed, together>>
    BY <1>3 DEF SeedCrawl, locals, history
  <2>3. QED
    BY <2>1, <2>2, WriteCounts DEF OtherWrites, CopiesLoaded
<1>4. CASE ResetDead
  <2>1. \A b \in Blogs :
          \/ db'[b] = db[b]
          \/ /\ db[b] # None
             /\ db'[b] = [db[b] EXCEPT !.status = "active", !.fail = 0]
    BY <1>4 DEF ResetDead, WithStatus
  <2>2. UNCHANGED <<held, failed, together>>
    BY <1>4 DEF ResetDead, locals, history
  <2>3. QED
    BY <2>1, <2>2, WriteCounts DEF OtherWrites, CopiesLoaded
<1>5. CASE UNCHANGED <<db, held, failed, together>>
  BY <1>5, WriteCounts DEF OtherWrites, CopiesLoaded
<1>6. QED
  BY <1>2, <1>3, <1>4, <1>5
     DEF Next, vars, EnqueueActive, FlagNsfw, tables, locals, history


\* A session is empty when its worker is idle, and the others are not touched.
LEMMA StepApart ==
    ASSUME IInv, FailInv, NEW w \in Workers, Step(w) \/ Fault(w)
    PROVE  Apart'
<1>1. Apart
  BY DEF FailInv
<1>2. CASE /\ pc[w] # "idle"
           /\ \A u \in Workers \ {w} : pc'[u] = pc[u] /\ held'[u] = held[u]
           /\ pc'[w] # "idle" /\ UNCHANGED together
  BY <1>1, <1>2 DEF Apart
<1>3. CASE RetryTask(w) \/ Crash(w) \/ FinishTask(w)
  <2>1. /\ pc' = [pc EXCEPT ![w] = "idle"]
        /\ held' = [held EXCEPT ![w] = [b \in Blogs |-> None]]
        /\ together' = together \ {w}
    BY <1>3 DEF RetryTask, Crash, FinishTask, Goto, Close
  <2>2. /\ pc'[w] = "idle" /\ \A b \in Blogs : held'[w][b] = None
        /\ \A u \in Workers \ {w} : pc'[u] = pc[u] /\ held'[u] = held[u]
    BY <2>1 DEF IInv, TypeOK
  <2>3. QED
    BY <1>1, <2>1, <2>2 DEF Apart
<1>4. CASE StartTask(w)
  <2>1. held' = held /\ pc[w] = "idle"
    BY <1>4 DEF StartTask
  <2>2. CASE UNCHANGED <<pc, together>>
    BY <1>1, <2>1, <2>2 DEF Apart
  <2>3. CASE /\ pc' = [pc EXCEPT ![w] = "guard"]
             /\ together' = together \cup (IF Busy = {} THEN {} ELSE Busy \cup {w})
    <3>1. pc'[w] # "idle" /\ \A u \in Workers \ {w} : pc'[u] = pc[u]
      BY <2>3 DEF IInv, TypeOK
    <3>2. ASSUME NEW u \in Workers, NEW v \in Workers, u # v,
                 pc'[u] # "idle", pc'[v] # "idle"
          PROVE  u \in together'
      <4>1. Busy # {}
        BY <3>1, <3>2 DEF Busy
      <4>2. u \in Busy \cup {w}
        BY <3>1, <3>2 DEF Busy
      <4>3. QED
        BY <2>3, <4>1, <4>2
    <3>3. QED
      BY <1>1, <2>1, <3>1, <3>2 DEF Apart
  <2>4. QED
    BY <1>4, <2>2, <2>3 DEF StartTask, Goto
<1>5. CASE CommitPage(w)
  <2>1. held' = [held EXCEPT ![w][cur[w]] = [State(w) EXCEPT !.fail = 0]]
    BY <1>5, CommitEffect
  <2>2. QED
    BY <1>2, <1>5, <2>1 DEF CommitPage, Goto, IInv, TypeOK
<1>6. CASE \/ CrawlGuard(w) \/ SeedLookup(w) \/ SeedInsert(w) \/ SelectPass(w)
           \/ EndCrawl(w) \/ PauseSelect(w) \/ PauseCommit(w) \/ ProcessPage(w)
  BY <1>2, <1>6 DEF CrawlGuard, SeedLookup, SeedInsert, SelectPass, EndCrawl,
     PauseSelect, PauseCommit, ProcessPage, Goto, IInv, TypeOK, history
<1>7. CASE \/ BeginBlog(w) \/ PageGuard(w) \/ Recheck(w) \/ FetchFails(w)
           \/ FetchEmpty(w) \/ FetchPage(w)
  BY <1>2, <1>7 DEF BeginBlog, PageGuard, Recheck, PauseCurrent, FetchFails, FetchEmpty,
     FetchPage, FetchDated, FetchUndated, Save, Goto, IInv, TypeOK, history
<1>8. CASE Redeliver(w)
  BY <1>1, <1>8 DEF Redeliver, locals, history, Apart
<1>9. QED
  BY <1>3, <1>4, <1>5, <1>6, <1>7, <1>8 DEF Step, Fault, InsertCollides, TaskRaises

LEMMA NextApart == IInv /\ FailInv /\ [Next]_vars => Apart'
<1> SUFFICES ASSUME IInv, FailInv, [Next]_vars PROVE Apart'
  OBVIOUS
<1>1. ASSUME NEW w \in Workers, Step(w) \/ Fault(w) PROVE Apart'
  BY <1>1, StepApart
<1>2. CASE UNCHANGED <<pc, held, together>>
  BY <1>2 DEF FailInv, Apart
<1>3. QED
  BY <1>1, <1>2
     DEF Next, vars, EnqueueActive, SeedCrawl, ResetDead, FlagNsfw, locals, history

\* The blog in hand was made 'active' in its copy, and stays so while its
\* pages are fetched.
LEMMA NextActive == IInv /\ FailInv /\ [Next]_vars => HandActive'
<1> SUFFICES ASSUME IInv, FailInv, [Next]_vars, NEW w \in Workers, pc'[w] \in InBlog
             PROVE  State(w)'.status = "active"
  BY DEF HandActive
<1>1. CASE /\ pc[w] \in InBlog
           /\ UNCHANGED <<cur[w], held[w]>>
  BY <1>1 DEF FailInv, HandActive, State
<1>2. CASE BeginBlog(w)
  <2>1. PICK b \in todo[w] : /\ Save(w, b, [held[w][b] EXCEPT !.status = "active"])
                             /\ cur' = [cur EXCEPT ![w] = b]
    BY <1>2 DEF BeginBlog
  <2>2. b \in Blogs /\ held[w][b] \in Row
    BY <1>2 DEF IInv, TypeOK, SessionInv, SessionOK, BeginBlog, InCrawl
  <2>3. cur'[w] = b /\ held'[w][b] = [held[w][b] EXCEPT !.status = "active"]
    BY <2>1, <2>2 DEF Save, IInv, TypeOK
  <2>4. QED
    BY <2>2, <2>3 DEF State, Row
<1>3. CASE FetchPage(w)
  <2>1. /\ State(w) \in Row /\ cur[w] \in Blogs /\ State(w).status = "active"
        /\ cur' = cur /\ pc[w] \in InBlog
    BY <1>3, InHand DEF FetchPage, InBlog, FailInv, HandActive
  <2>2. PICK S : FetchDated(w, S) \/ FetchUndated(S)
    BY <1>3 DEF FetchPage
  <2>3. CASE FetchDated(w, S)
    <3>1. PICK t : Save(w, cur[w], [State(w) EXCEPT !.fail = 0, !.cursor = t])
      BY <2>3 DEF FetchDated
    <3>2. held'[w][cur[w]] = [State(w) EXCEPT !.fail = 0, !.cursor = t]
      BY <2>1, <3>1 DEF Save, IInv, TypeOK
    <3>3. QED
      BY <2>1, <3>2 DEF State, Row
  <2>4. CASE FetchUndated(S)
    BY <1>1, <2>1, <2>4 DEF FetchUndated
  <2>5. QED
    BY <2>2, <2>3, <2>4
<1>4. CASE CommitPage(w)
  <2>1. /\ State(w) \in Row /\ cur[w] \in Blogs /\ State(w).status = "active"
        /\ cur' = cur
    BY <1>4, InHand DEF CommitPage, InBlog, FailInv, HandActive
  <2>2. held' = [held EXCEPT ![w][cur[w]] = [State(w) EXCEPT !.fail = 0]]
    BY <1>4, CommitEffect
  <2>3. held'[w][cur[w]] = [State(w) EXCEPT !.fail = 0]
    BY <2>1, <2>2 DEF IInv, TypeOK
  <2>4. QED
    BY <2>1, <2>3 DEF State, Row
<1>5. ASSUME NEW v \in Workers, Step(v) \/ Fault(v), v # w
      PROVE  pc'[w] = pc[w] /\ cur'[w] = cur[w] /\ held'[w] = held[w]
  <2>1. CASE CommitPage(v)
    <3>1. held' = [held EXCEPT ![v][cur[v]] = [State(v) EXCEPT !.fail = 0]]
      BY <2>1, CommitEffect
    <3>2. QED
      BY <1>5, <2>1, <3>1 DEF CommitPage, Goto, IInv, TypeOK
  <2>2. CASE FetchPage(v)
    BY <1>5, <2>2 DEF FetchPage, FetchDated, FetchUndated, Save, Goto, IInv, TypeOK
  <2>3. CASE ~CommitPage(v) /\ ~FetchPage(v)
    BY <1>5, <2>3 DEF IInv, TypeOK, Step, Fault, Goto, Close, Save, StartTask, CrawlGuard,
       SeedLookup, SeedInsert, InsertCollides, RetryTask, SelectPass, BeginBlog, EndCrawl,
       PageGuard, PauseCurrent, FetchFails, FetchEmpty, ProcessPage, Recheck, PauseSelect,
       PauseCommit, FinishTask, TaskRaises, Crash, Redeliver, locals
  <2>4. QED
    BY <2>1, <2>2, <2>3
<1>6. ASSUME Step(w) \/ Fault(w), ~BeginBlog(w), ~FetchPage(w), ~CommitPage(w)
      PROVE  pc[w] \in InBlog /\ UNCHANGED <<cur[w], held[w]>>
  <2>1. CASE RetryTask(w) \/ Crash(w) \/ FinishTask(w)
    BY <2>1 DEF RetryTask, Crash, FinishTask, Goto, IInv, TypeOK, InBlog
  <2>2. CASE FetchFails(w) \/ FetchEmpty(w) \/ SelectPass(w) \/ StartTask(w)
             \/ CrawlGuard(w) \/ SeedLookup(w) \/ SeedInsert(w) \/ EndCrawl(w)
             \/ PauseSelect(w) \/ PauseCommit(w)
    BY <2>2 DEF FetchFails, FetchEmpty, SelectPass, StartTask, CrawlGuard, SeedLookup,
       SeedInsert, EndCrawl, PauseSelect, PauseCommit, Goto, IInv, TypeOK, InBlog
  <2>3. CASE PageGuard(w) \/ Recheck(w) \/ ProcessPage(w) \/ Redeliver(w)
    BY <2>3 DEF PageGuard, PauseCurrent, Recheck, ProcessPage, Redeliver, Goto,
       IInv, TypeOK, InBlog, locals
  <2>4. QED
    BY <1>6, <2>1, <2>2, <2>3 DEF Step, Fault, InsertCollides, TaskRaises
<1>7. QED
  BY <1>1, <1>2, <1>3, <1>4, <1>5, <1>6
     DEF Next, vars, EnqueueActive, SeedCrawl, ResetDead, FlagNsfw, locals, FailInv, HandActive

LEMMA NextFailInv == IInv /\ FailInv /\ [Next]_vars => FailInv' /\ CursorsGoBack
BY NextCounts, NextApart, NextActive DEF RowsStep, FailInv

LEMMA InitFailInv == Init => FailInv
BY DEF Init, FailInv, CountsInv, RowCounted, AloneFollows, Follows, Apart, HandActive, InBlog

\* Whatever sessions overlap, with whatever stale copies, and whatever the
\* dashboard resets meanwhile: a blog is given up only after three failed
\* fetches since the last page that a session running alone was given.
THEOREM DeadOnlyByFailures == Spec => []DeadHasFailed
<1>1. FailInv => DeadHasFailed
  BY DEF FailInv, CountsInv, RowCounted, DeadHasFailed
<1>2. Spec => [](IInv /\ FailInv)
  BY InitIInv, NextIInv, InitFailInv, NextFailInv, PTL DEF Spec
<1>3. QED
  BY <1>1, <1>2, PTL

\* No later pass, retry, restart or reset takes a cursor forward again: only
\* a session that has run beside another one does (crawler.py:315-318).
THEOREM CursorsOnlyGoBack == Spec => CursorGoesBack
<1>1. CursorsGoBack => \A b \in Blogs : db[b] # None /\ db[b].cursor # None =>
            \/ db'[b].cursor # None /\ db'[b].cursor <= db[b].cursor
            \/ \E w \in together : pc[w] = "fetch" /\ cur[w] = b
  BY DEF CursorsGoBack
<1>2. QED
  BY <1>1, InitIInv, NextIInv, InitFailInv, NextFailInv, PTL DEF Spec, CursorGoesBack

=============================================================================
