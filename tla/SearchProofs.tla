---------------------------- MODULE SearchProofs ----------------------------
(***************************************************************************)
(* The search endpoint for any posts, lists of hits, boosts, limits, cache  *)
(* times and readers.  The ranking is a permutation of the candidates that  *)
(* does not depend on their common age, and a page is a piece of it.  What  *)
(* the endpoint promises follows by induction on its steps: how long a      *)
(* verdict can stay unseen, and that the pages of a walk are a partition.   *)
(* The other searches rank by weights; that these agree with what they      *)
(* weigh is arithmetic, for every count a column can hold.                  *)
(***************************************************************************)
EXTENDS MCSearch, FiniteSetTheorems, TLAPS

-----------------------------------------------------------------------------
(* Rankings.                                                                *)

\* In a finite strict order B, where B[p] are those before p, the number of
\* those before it is the place of an element, and every place is taken.
LEMMA Ranks ==
    ASSUME NEW S, IsFiniteSet(S), NEW B \in [S -> SUBSET S],
           \A p \in S : p \notin B[p],
           \A p, q \in S : p # q => q \in B[p] \/ p \in B[q],
           \A p, q \in S : q \in B[p] => B[q] \subseteq B[p]
    PROVE  /\ Cardinality(S) \in Nat
           /\ \A p \in S : Cardinality(B[p]) \in 0 .. Cardinality(S) - 1
           /\ \A p, q \in S : Cardinality(B[p]) = Cardinality(B[q]) => p = q
           /\ \A i \in 1 .. Cardinality(S) : \E p \in S : Cardinality(B[p]) = i - 1
<1> DEFINE n == Cardinality(S)
           rank == [p \in S |-> Cardinality(B[p])]
<1>1. n \in Nat
  BY FS_CardinalityType
<1>2. ASSUME NEW p \in S PROVE IsFiniteSet(B[p]) /\ Cardinality(B[p]) \in Nat
  BY FS_Subset, FS_CardinalityType
<1>3. ASSUME NEW p \in S PROVE Cardinality(B[p]) < n
  <2>1. B[p] \in SUBSET S /\ B[p] # S
    OBVIOUS
  <2>2. Cardinality(B[p]) <= n /\ Cardinality(B[p]) # n
    BY <2>1, FS_Subset
  <2>3. QED
    BY <1>1, <1>2, <2>2
<1>4. ASSUME NEW p \in S, NEW q \in B[p] PROVE Cardinality(B[q]) < Cardinality(B[p])
  <2>1. q \in S /\ B[q] \in SUBSET B[p] /\ B[q] # B[p]
    OBVIOUS
  <2>2. Cardinality(B[q]) <= Cardinality(B[p]) /\ Cardinality(B[q]) # Cardinality(B[p])
    BY <1>2, <2>1, FS_Subset
  <2>3. QED
    BY <1>2, <2>1, <2>2
<1>5. ASSUME NEW p \in S, NEW q \in S, Cardinality(B[p]) = Cardinality(B[q])
      PROVE  p = q
  <2>1. q \notin B[p] /\ p \notin B[q]
    BY <1>2, <1>4, <1>5
  <2>2. QED
    BY <2>1
<1>6. rank \in Injection(S, 0 .. n - 1)
  <2>1. rank \in [S -> 0 .. n - 1]
    BY <1>1, <1>2, <1>3
  <2>2. QED
    BY <1>5, <2>1 DEF Injection, IsInjective
<1>7. IsFiniteSet(0 .. n - 1) /\ Cardinality(0 .. n - 1) = n
  BY <1>1, FS_Interval
<1>8. rank \in Surjection(S, 0 .. n - 1)
  BY <1>6, <1>7, FS_Injection
<1>9. ASSUME NEW i \in 1 .. n PROVE \E p \in S : Cardinality(B[p]) = i - 1
  <2>1. i - 1 \in 0 .. n - 1
    BY <1>1
  <2>2. PICK p \in S : rank[p] = i - 1
    BY <1>8, <2>1 DEF Surjection
  <2>3. QED
    BY <2>2
<1>10. QED
  BY <1>1, <1>2, <1>3, <1>5, <1>9

\* Scores of a finite set of posts.
IsScored(score) ==
    /\ DOMAIN score \subseteq Post /\ IsFiniteSet(DOMAIN score)
    /\ \A p \in DOMAIN score : score[p] \in Int

\* The posts before p.
Ahead(score, p) == {q \in DOMAIN score : Before(score, q, p)}

\* `Before' is a strict order, so that all places of the ranking are filled.
LEMMA Places ==
    ASSUME NEW score, IsScored(score)
    PROVE  /\ Cardinality(DOMAIN score) \in Nat
           /\ \A p \in DOMAIN score :
                Cardinality(Ahead(score, p)) \in 0 .. Cardinality(DOMAIN score) - 1
           /\ \A p, q \in DOMAIN score :
                Cardinality(Ahead(score, p)) = Cardinality(Ahead(score, q)) => p = q
           /\ \A i \in 1 .. Cardinality(DOMAIN score) :
                \E p \in DOMAIN score : Cardinality(Ahead(score, p)) = i - 1
<1> DEFINE S == DOMAIN score
           B == [p \in S |-> Ahead(score, p)]
<1>1. \A p \in S : p \in Int /\ score[p] \in Int
  BY SearchAssumption DEF IsScored
<1>2. B \in [S -> SUBSET S]
  BY DEF Ahead
<1>3. \A p \in S : p \notin B[p]
  BY <1>1 DEF Ahead, Before
<1>4. \A p, q \in S : p # q => q \in B[p] \/ p \in B[q]
  BY <1>1 DEF Ahead, Before
<1>5. \A p, q \in S : q \in B[p] => B[q] \subseteq B[p]
  BY <1>1 DEF Ahead, Before
<1>6. IsFiniteSet(S)
  BY DEF IsScored
<1> HIDE DEF S
<1>7. \A p \in S : B[p] = Ahead(score, p)
  OBVIOUS
<1> HIDE DEF B
<1>8. /\ Cardinality(S) \in Nat
      /\ \A p \in S : Cardinality(B[p]) \in 0 .. Cardinality(S) - 1
      /\ \A p, q \in S : Cardinality(B[p]) = Cardinality(B[q]) => p = q
      /\ \A i \in 1 .. Cardinality(S) : \E p \in S : Cardinality(B[p]) = i - 1
  BY <1>2, <1>3, <1>4, <1>5, <1>6, Ranks
<1>9. QED
  BY <1>7, <1>8 DEF S

\* The ranking lists every scored post once.
LEMMA RankingLists ==
    ASSUME NEW score, IsScored(score)
    PROVE  /\ Len(Ranking(score)) = Cardinality(DOMAIN score)
           /\ Cardinality(DOMAIN score) \in Nat
           /\ DOMAIN Ranking(score) = 1 .. Cardinality(DOMAIN score)
           /\ Ranking(score) \in [1 .. Cardinality(DOMAIN score) -> DOMAIN score]
           /\ Ranking(score) \in Seq(DOMAIN score)
           /\ \A i, j \in 1 .. Cardinality(DOMAIN score) :
                Ranking(score)[i] = Ranking(score)[j] => i = j
           /\ \A p \in DOMAIN score :
                \E i \in 1 .. Cardinality(DOMAIN score) : Ranking(score)[i] = p
<1> DEFINE S == DOMAIN score
           n == Cardinality(S)
           R == Ranking(score)
<1>1. /\ n \in Nat
      /\ \A p \in S : Cardinality(Ahead(score, p)) \in 0 .. n - 1
      /\ \A p, q \in S : Cardinality(Ahead(score, p)) = Cardinality(Ahead(score, q)) => p = q
      /\ \A i \in 1 .. n : \E p \in S : Cardinality(Ahead(score, p)) = i - 1
  BY Places
<1>2. R = [i \in 1 .. n |-> CHOOSE p \in S : Cardinality(Ahead(score, p)) = i - 1]
  BY DEF Ranking, Ahead
<1>3. ASSUME NEW i \in 1 .. n
      PROVE  R[i] \in S /\ Cardinality(Ahead(score, R[i])) = i - 1
  <2>1. R[i] = CHOOSE p \in S : Cardinality(Ahead(score, p)) = i - 1
    BY <1>2
  <2>2. \E p \in S : Cardinality(Ahead(score, p)) = i - 1
    BY <1>1
  <2>3. QED
    BY <2>1, <2>2
<1>4. R \in [1 .. n -> S]
  BY <1>2, <1>3
<1> HIDE DEF R, S
<1>5. R \in Seq(S) /\ Len(R) = n /\ DOMAIN R = 1 .. n
  BY <1>1, <1>4
<1>6. \A i, j \in 1 .. n : R[i] = R[j] => i = j
  BY <1>1, <1>3
<1>7. ASSUME NEW p \in S PROVE \E i \in 1 .. n : R[i] = p
  <2>1. Cardinality(Ahead(score, p)) + 1 \in 1 .. n
    BY <1>1
  <2>2. R[Cardinality(Ahead(score, p)) + 1] = p
    BY <1>1, <1>3, <2>1
  <2>3. QED
    BY <2>1, <2>2
<1>8. QED
  BY <1>1, <1>4, <1>5, <1>6, <1>7 DEF R, S

-----------------------------------------------------------------------------
(* Pages.                                                                   *)

\* The place of the last post that the page does not show any more.
Start(ranking, score, cursor) ==
    IF cursor = NoCursor THEN 0 ELSE Skipped(ranking, score, cursor)

Least(a, b) == IF a <= b THEN a ELSE b

\* The posts from place a to place b.
Piece(ranking, a, b) == {ranking[i] : i \in a .. b}

LEMMA StartInRanking ==
    ASSUME NEW score, IsScored(score), NEW cursor
    PROVE  Start(Ranking(score), score, cursor) \in 0 .. Cardinality(DOMAIN score)
<1> DEFINE n == Cardinality(DOMAIN score)
           R == Ranking(score)
<1>1. /\ n \in Nat /\ DOMAIN R = 1 .. n
      /\ \A p \in DOMAIN score : \E i \in 1 .. n : R[i] = p
  BY RankingLists
<1> HIDE DEF R, n
<1>2. CASE cursor = NoCursor
  BY <1>1, <1>2 DEF Start, R, n
<1>3. CASE cursor # NoCursor /\ cursor.id \in DOMAIN score
  <2>1. \E i \in DOMAIN R : R[i] = cursor.id
    BY <1>1, <1>3
  <2>2. (CHOOSE i \in DOMAIN R : R[i] = cursor.id) \in 1 .. n
    BY <1>1, <2>1
  <2>3. Start(R, score, cursor) = CHOOSE i \in DOMAIN R : R[i] = cursor.id
    BY <1>3 DEF Start, Skipped
  <2>4. Start(R, score, cursor) \in 0 .. n
    BY <1>1, <2>2, <2>3
  <2>5. QED
    BY <2>4 DEF R, n
<1>4. CASE cursor # NoCursor /\ cursor.id \notin DOMAIN score
  <2> DEFINE above == {i \in DOMAIN R : score[R[i]] >= cursor.score - Tolerance}
  <2>1. Start(R, score, cursor) = Cardinality(above)
    BY <1>4 DEF Start, Skipped, NotBelow
  <2>2. above \in SUBSET (1 .. n)
    BY <1>1
  <2>3. IsFiniteSet(1 .. n) /\ Cardinality(1 .. n) = n
    BY <1>1, FS_Interval
  <2>4. Cardinality(above) \in Nat /\ Cardinality(above) <= n
    BY <2>2, <2>3, FS_Subset, FS_CardinalityType
  <2>5. Start(R, score, cursor) \in 0 .. n
    BY <1>1, <2>1, <2>4
  <2>6. QED
    BY <2>5 DEF R, n
<1>5. QED
  BY <1>2, <1>3, <1>4

\* The posts of S that the ranking has after the start, up to the limit; the
\* page names its last post if there are more.
ShowsPiece(page, R, score, S, start) ==
    /\ page.posts \in Seq(S)
    /\ Hits(page.posts) = Piece(R, start + 1, Least(start + PageLimit, Len(R)))
    /\ Len(R) <= start + PageLimit => page.next = NoCursor
    /\ Len(R) > start + PageLimit =>
         page.next = Cursor(R[start + PageLimit], score[R[start + PageLimit]])

LEMMA PageShowsPiece ==
    ASSUME NEW S, NEW R \in Seq(S), NEW score, NEW cursor,
           Start(R, score, cursor) \in 0 .. Len(R)
    PROVE  ShowsPiece(Page(R, score, cursor), R, score, S, Start(R, score, cursor))
<1> DEFINE n == Len(R)
           start == Start(R, score, cursor)
           page == Page(R, score, cursor)
           rest == SubSeq(R, start + 1, n)
           shown == IF PageLimit < Len(rest) THEN PageLimit ELSE Len(rest)
<1>1. /\ n \in Nat /\ start \in 0 .. n /\ PageLimit \in Nat \ {0}
      /\ R \in [1 .. n -> S]
  BY SearchAssumption
<1>2. /\ page.posts = SubSeq(rest, 1, shown)
      /\ page.next = IF Len(rest) > PageLimit
                       THEN Cursor(rest[PageLimit], score[rest[PageLimit]])
                       ELSE NoCursor
  BY DEF Page, Start, First
<1> HIDE DEF n, start, page
<1>3. /\ rest = [i \in 1 .. n - start |-> R[start + i]]
      /\ Len(rest) = n - start /\ rest \in Seq(S)
  <2>1. rest = [i \in 1 .. n - start |-> R[start + i]]
    BY <1>1
  <2>2. \A i \in 1 .. n - start : start + i \in 1 .. n
    BY <1>1
  <2>3. \A i \in 1 .. n - start : R[start + i] \in S
    BY <1>1, <2>2
  <2> HIDE DEF rest
  <2>4. rest \in [1 .. n - start -> S] /\ n - start \in Nat
    BY <1>1, <2>1, <2>3
  <2>5. QED
    BY <2>1, <2>4
<1> HIDE DEF rest
<1>4. /\ shown \in 0 .. n - start
      /\ shown = Least(start + PageLimit, n) - start
  BY <1>1, <1>3 DEF Least
<1> HIDE DEF shown
<1>5. page.posts = [i \in 1 .. shown |-> R[start + i]]
  BY <1>1, <1>2, <1>3, <1>4
<1>6. page.posts \in Seq(S)
  <2>1. page.posts \in [1 .. shown -> S] /\ shown \in Nat
    BY <1>1, <1>4, <1>5
  <2>2. QED
    BY <2>1
<1>7. Hits(page.posts) = Piece(R, start + 1, Least(start + PageLimit, n))
  <2>1. Hits(page.posts) = {R[start + i] : i \in 1 .. shown}
    BY <1>5 DEF Hits
  <2>2. ASSUME NEW i \in 1 .. shown
        PROVE  start + i \in start + 1 .. Least(start + PageLimit, n)
    BY <1>1, <1>4 DEF Least
  <2>3. ASSUME NEW i \in start + 1 .. Least(start + PageLimit, n)
        PROVE  i - start \in 1 .. shown /\ i = start + (i - start)
    BY <1>1, <1>4 DEF Least
  <2>4. QED
    BY <2>1, <2>2, <2>3 DEF Piece
<1>8. n <= start + PageLimit => page.next = NoCursor
  BY <1>1, <1>2, <1>3
<1>9. n > start + PageLimit =>
        page.next = Cursor(R[start + PageLimit], score[R[start + PageLimit]])
  BY <1>1, <1>2, <1>3
<1>10. QED
  BY <1>6, <1>7, <1>8, <1>9 DEF ShowsPiece, n, start, page

-----------------------------------------------------------------------------
(* Scores.                                                                  *)

LEMMA Powers == ASSUME NEW n \in Nat PROVE 2 ^ n \in Nat \ {0}
<1>1. IsFiniteSet(1 .. n) /\ Cardinality(1 .. n) = n
  BY FS_Interval
<1>2. IsFiniteSet(SUBSET (1 .. n)) /\ Cardinality(SUBSET (1 .. n)) = 2 ^ n
  BY <1>1, FS_SUBSET
<1>3. Cardinality(SUBSET (1 .. n)) \in Nat /\ Cardinality(SUBSET (1 .. n)) # 0
  <2>1. SUBSET (1 .. n) # {}
    OBVIOUS
  <2>2. QED
    BY <1>2, <2>1, FS_CardinalityType, FS_EmptySet
<1>4. QED
  BY <1>2, <1>3

\* A list of hits, or none yet, has positions 1, 2, ...
IsList(list) == DOMAIN list \subseteq Nat \ {0}

LEMMA FirstIsList == ASSUME NEW list, NEW n PROVE IsList(First(list, n))
BY DEF IsList, First

LEMMA HitsAreLists ==
    ASSUME NEW order, NEW S
    PROVE  IsList(KeywordHits(order, S)) /\ IsList(VectorHits(order, S)) /\ IsList(Pending)
<1>1. IsList(KeywordHits(order, S))
  BY FirstIsList DEF KeywordHits
<1>2. IsList(VectorHits(order, S))
  BY FirstIsList DEF VectorHits
<1>3. IsList(Pending)
  BY DEF IsList, Pending
<1>4. QED
  BY <1>1, <1>2, <1>3

LEMMA ShareIsNat ==
    ASSUME NEW list, IsList(list), NEW p
    PROVE  Share(list, p) \in Nat
<1>1. CASE p \in Hits(list)
  <2> DEFINE r == CHOOSE rank \in DOMAIN list : list[rank] = p
  <2>1. r \in DOMAIN list
    BY <1>1 DEF Hits
  <2>2. RrfK + r \in Nat \ {0} /\ Scale \in Nat
    BY <2>1, SearchAssumption DEF IsList
  <2>3. Share(list, p) = Scale \div (RrfK + r)
    BY <1>1 DEF Share
  <2> HIDE DEF r
  <2>4. QED
    BY <2>2, <2>3
<1>2. CASE p \notin Hits(list)
  BY <1>2 DEF Share
<1>3. QED
  BY <1>1, <1>2

\* The factor of recency.
LEMMA FactorPositive ==
    ASSUME NEW p \in Post, NEW a \in 0 .. MaxAge
    PROVE  2 ^ (MaxAge + 1 - HalfLives(p, a)) \in Nat \ {0}
<1>1. MaxAge \in Nat /\ Lead[p] \in Nat
  BY SearchAssumption
<1>2. HalfLives(p, a) \in Nat /\ HalfLives(p, a) <= MaxAge + 1
  BY <1>1 DEF HalfLives
<1>3. MaxAge + 1 - HalfLives(p, a) \in Nat
  BY <1>1, <1>2
<1>4. QED
  BY <1>3, Powers

LEMMA ScoresScored ==
    ASSUME NEW kw, NEW vec, IsList(kw), IsList(vec),
           NEW found \in SUBSET Post, NEW weight \in [Post -> Nat], NEW a \in 0 .. MaxAge
    PROVE  LET score == Scores(kw, vec, found, weight, a)
           IN  /\ IsScored(score)
               /\ DOMAIN score = (Hits(kw) \cup Hits(vec)) \cap found
               /\ \A p \in DOMAIN score : score[p] \in Nat
<1> DEFINE score == Scores(kw, vec, found, weight, a)
           C == (Hits(kw) \cup Hits(vec)) \cap found
<1>1. score = [p \in C |-> Rerank(Share(kw, p) + Share(vec, p), weight, p, a)]
  BY DEF Scores, Fused
<1>2. ASSUME NEW p \in C PROVE score[p] \in Nat
  <2>1. Share(kw, p) + Share(vec, p) \in Nat
    BY ShareIsNat
  <2> DEFINE rrf == Share(kw, p) + Share(vec, p)
             x == weight[p]
             y == 2 ^ (MaxAge + 1 - HalfLives(p, a))
  <2>2. x \in Nat /\ y \in Nat
    BY FactorPositive
  <2>3. score[p] = rrf * x * y
    BY <1>1 DEF Rerank
  <2> HIDE DEF rrf, x, y
  <2>4. rrf \in Nat
    BY <2>1 DEF rrf
  <2>5. QED
    BY <2>2, <2>3, <2>4
<1>3. IsFiniteSet(C) /\ C \subseteq Post
  <2>1. C \in SUBSET Post /\ IsFiniteSet(Post)
    BY SearchAssumption
  <2>2. QED
    BY <2>1, FS_Subset
<1>4. DOMAIN score = C
  BY <1>1
<1>5. QED
  BY <1>2, <1>3, <1>4 DEF IsScored

-----------------------------------------------------------------------------
(* Types, with what a request and an entry of the cache consist of.         *)

Pages == [posts : Seq(Post), next : Cursors]
Entries == [key : Cursors, page : Pages, ttl : 1 .. Ttl]
KwLists == {Pending} \cup {KeywordHits(o, S) : o \in KwOrders, S \in SUBSET Post}
VecLists == {Pending} \cup {VectorHits(o, S) : o \in VecOrders, S \in SUBSET Post}
Weights == {b \in [Post -> Nat] : \A p \in Post : b[p] \in Boosts[p]}
Requests == [pc : {"closed", "get", "retrieve", "set"}, cursor : Cursors,
             kw : KwLists, vec : VecLists, page : Pages, busy : 0 .. MaxCompute]

DataTypes ==
    /\ rows \in SUBSET Post /\ sfw \in SUBSET rows /\ points \in SUBSET rows
    /\ boost \in Weights /\ kwOrder \in KwOrders /\ vecOrder \in VecOrders
    /\ age \in 0 .. MaxAge /\ edits \in Nat /\ edits + age <= MaxEvents
    /\ faults \in 0 .. MaxFaults
    /\ flagged \in [Post -> 0 .. LongAgo]

\* A key has one entry.
CacheTypes ==
    /\ cache \in SUBSET Entries
    /\ \A e, f \in cache : e.key = f.key => e = f

WalkTypes ==
    /\ req \in [Reader -> Requests]
    /\ seen \in [Reader -> [Post -> 0 .. 2]]

Types == DataTypes /\ CacheTypes /\ WalkTypes

-----------------------------------------------------------------------------
(* Walks over candidates that stand still.                                  *)

\* The two retrievals before anything changes, the posts they bring, and their
\* order.
FirstKw == KeywordHits(KwOrder, Crawled)
FirstVec == VectorHits(VecOrder, Indexed)
ScoresAt(a) == Scores(FirstKw, FirstVec, Crawled, Boost, a)
Candidates == (Hits(FirstKw) \cup Hits(FirstVec)) \cap Crawled
Total == Cardinality(Candidates)
Order == Ranking(ScoresAt(0))

\* The cursor's place in it.
OnWalk(cursor) == cursor = NoCursor \/ cursor.id \in Candidates
Place(cursor) ==
    IF cursor = NoCursor THEN 0 ELSE CHOOSE i \in 1 .. Total : Order[i] = cursor.id

\* The page is the one after the cursor, and goes on where it ends.
IsPageAfter(page, cursor) ==
    /\ Hits(page.posts) = Piece(Order, Place(cursor) + 1, Least(Place(cursor) + PageLimit, Total))
    /\ Total <= Place(cursor) + PageLimit => page.next = NoCursor
    /\ Total > Place(cursor) + PageLimit =>
         /\ page.next # NoCursor
         /\ OnWalk(page.next) /\ Place(page.next) = Place(cursor) + PageLimit

\* The reader has been shown the first k posts, once each.
Shown(r, k) == \A p \in Post : seen[r][p] = IF p \in Piece(Order, 1, k) THEN 1 ELSE 0

AlikeAt(a) == \A p \in Post : HalfLives(p, a) = HalfLives(p, 0) + a
Still == edits = 0 /\ AlikeAt(age)

WalkInv(r) ==
    /\ OnWalk(req[r].cursor)
    /\ req[r].kw \in {Pending, FirstKw} /\ req[r].vec \in {Pending, FirstVec}
    /\ req[r].pc = "set" => IsPageAfter(req[r].page, req[r].cursor)
    /\ req[r].pc = "closed" => req[r] = Closed /\ (Shown(r, 0) \/ Shown(r, Total))
    /\ req[r].pc # "closed" => Shown(r, Place(req[r].cursor))

EntryInv == \A e \in cache : OnWalk(e.key) /\ IsPageAfter(e.page, e.key)

Settled ==
    /\ rows = Crawled /\ sfw = Crawled /\ points = Indexed
    /\ boost = Boost /\ kwOrder = KwOrder /\ vecOrder = VecOrder
    /\ EntryInv
    /\ \A r \in Reader : WalkInv(r)

StillInv == Still => Settled

IInv == Types /\ StaleBound /\ StillInv

-----------------------------------------------------------------------------
(* Types and the age of verdicts.                                           *)

LEMMA Constants ==
    /\ Ttl \in Nat \ {0} /\ MaxCompute \in Nat /\ MaxEvents \in Nat /\ MaxFaults \in Nat
    /\ MaxAge \in Nat /\ PageLimit \in Nat \ {0} /\ LongAgo \in Nat
    /\ LongAgo = Ttl + MaxCompute + 1
    /\ Crawled \in SUBSET Post /\ Indexed \in SUBSET Crawled /\ 0 \notin Post
    /\ Boost \in Weights /\ KwOrder \in KwOrders /\ VecOrder \in VecOrders
BY ApiAssumption, SearchAssumption DEF LongAgo, Weights

LEMMA ClosedIsRequest ==
    /\ NoCursor \in Cursors /\ Empty \in Pages /\ Closed \in Requests
    /\ Closed.pc = "closed" /\ Closed.cursor = NoCursor /\ Closed.busy = 0
    /\ Closed.kw = Pending /\ Closed.vec = Pending
<1>1. NoCursor \in Cursors
  BY DEF Cursors
<1>2. Empty \in Pages
  BY <1>1 DEF Empty, Pages
<1>3. Pending \in KwLists /\ Pending \in VecLists
  BY DEF KwLists, VecLists
<1>4. QED
  BY <1>1, <1>2, <1>3, Constants DEF Closed, Requests

\* Changing the request of one reader.
LEMMA Replace ==
    ASSUME req \in [Reader -> Requests], NEW r \in Reader, NEW q \in Requests,
           req' = [req EXCEPT ![r] = q]
    PROVE  /\ req' \in [Reader -> Requests]
           /\ req'[r] = q
           /\ \A s \in Reader : s # r => req'[s] = req[s]
OBVIOUS

\* A page computed from the two retrievals holds no post but those whose
\* metadata was found.
LEMMA RankedPage ==
    ASSUME NEW kw \in KwLists, NEW vec \in VecLists, NEW found \in SUBSET Post,
           NEW weight \in [Post -> Nat], NEW a \in 0 .. MaxAge, NEW cursor
    PROVE  LET score == Scores(kw, vec, found, weight, a)
               page == Page(Ranking(score), score, cursor)
           IN  page \in Pages /\ Hits(page.posts) \subseteq found
<1> DEFINE score == Scores(kw, vec, found, weight, a)
           S == DOMAIN score
           n == Cardinality(S)
           R == Ranking(score)
           page == Page(R, score, cursor)
           start == Start(R, score, cursor)
<1>1. IsList(kw) /\ IsList(vec)
  BY HitsAreLists DEF KwLists, VecLists
<1>2. IsScored(score) /\ S \subseteq found /\ \A p \in S : score[p] \in Nat
  <2>1. /\ IsScored(score)
        /\ S = (Hits(kw) \cup Hits(vec)) \cap found
        /\ \A p \in S : score[p] \in Nat
    <3> HIDE DEF KwLists
    <3>1. QED
      BY <1>1, ScoresScored, Zenon
  <2>2. QED
    BY <2>1
<1> HIDE DEF score
<1>3. /\ n \in Nat /\ R \in Seq(S) /\ Len(R) = n /\ start \in 0 .. n
  BY <1>2, RankingLists, StartInRanking
<1> HIDE DEF n, R, S
<1>a. start = Start(R, score, cursor) /\ page = Page(R, score, cursor)
  OBVIOUS
<1>5. page = [posts |-> page.posts, next |-> page.next]
  BY DEF Page
<1> HIDE DEF page, start
<1>4. /\ page.posts \in Seq(S)
      /\ Hits(page.posts) = Piece(R, start + 1, Least(start + PageLimit, n))
      /\ n <= start + PageLimit => page.next = NoCursor
      /\ n > start + PageLimit =>
           page.next = Cursor(R[start + PageLimit], score[R[start + PageLimit]])
  <2>1. ShowsPiece(page, R, score, S, start)
    BY <1>3, <1>a, PageShowsPiece
  <2>2. QED
    BY <1>3, <2>1 DEF ShowsPiece
<1>6. page.next \in Cursors
  <2>1. CASE n <= start + PageLimit
    BY <1>4, <2>1, ClosedIsRequest
  <2>2. CASE n > start + PageLimit
    <3>1. start + PageLimit \in 1 .. n
      BY <1>3, <2>2, Constants
    <3>2. R[start + PageLimit] \in S
      BY <1>3, <3>1
    <3>3. R[start + PageLimit] \in Post /\ score[R[start + PageLimit]] \in Nat
      BY <1>2, <3>2
    <3>4. QED
      BY <1>4, <2>2, <3>3 DEF Cursor, Cursors
  <2>3. QED
    BY <1>3, <2>1, <2>2, Constants
<1>7. page.posts \in Seq(Post)
  BY <1>2, <1>4
<1>8. page \in Pages
  BY <1>5, <1>6, <1>7 DEF Pages
<1>9. Hits(page.posts) \subseteq found
  BY <1>2, <1>4 DEF Hits
<1>10. QED
  BY <1>8, <1>9 DEF page, R, score

LEMMA InitTypes == Init => Types /\ StaleBound
<1> SUFFICES ASSUME Init PROVE Types /\ StaleBound
  OBVIOUS
<1>1. DataTypes
  BY Constants DEF Init, DataTypes
<1>2. CacheTypes /\ StaleBound
  BY DEF Init, CacheTypes, StaleBound
<1>3. WalkTypes
  BY ClosedIsRequest DEF Init, WalkTypes
<1>4. QED
  BY <1>1, <1>2, <1>3 DEF Types

\* The answer moves the reader on.
LEMMA Served ==
    ASSUME WalkTypes, NEW r \in Reader, NEW page \in Pages, Serve(r, page)
    PROVE  /\ WalkTypes'
           /\ req'[r].pc \in {"closed", "get"}
           /\ \A s \in Reader : s # r => req'[s] = req[s]
           /\ page.next = NoCursor => req'[r] = Closed
           /\ page.next # NoCursor =>
                req'[r] = [Closed EXCEPT !.pc = "get", !.cursor = page.next]
<1> DEFINE q == IF page.next = NoCursor THEN Closed
                ELSE [Closed EXCEPT !.pc = "get", !.cursor = page.next]
<1>1. page.next \in Cursors
  BY DEF Pages
<1>2. q \in Requests /\ q.pc \in {"closed", "get"}
  BY <1>1, ClosedIsRequest DEF Requests
<1>3. req' = [req EXCEPT ![r] = q]
  BY DEF Serve
<1>4. seen' \in [Reader -> [Post -> 0 .. 2]]
  <2> DEFINE f == [p \in Post |-> IF p \in Hits(page.posts) /\ seen[r][p] < 2
                                    THEN seen[r][p] + 1 ELSE seen[r][p]]
  <2>1. \A p \in Post : seen[r][p] \in 0 .. 2
    BY DEF WalkTypes
  <2>2. f \in [Post -> 0 .. 2]
    BY <2>1
  <2>3. seen' = [seen EXCEPT ![r] = f]
    BY DEF Serve
  <2> HIDE DEF f
  <2>4. QED
    BY <2>2, <2>3 DEF WalkTypes
<1> HIDE DEF q
<1>5. /\ req' \in [Reader -> Requests] /\ req'[r] = q
      /\ \A s \in Reader : s # r => req'[s] = req[s]
  BY <1>2, <1>3, Replace DEF WalkTypes
<1>6. QED
  BY <1>2, <1>4, <1>5 DEF q, WalkTypes

Faults == faults' = faults \/ Fault

LEMMA FaultsTyped ==
    ASSUME DataTypes, UNCHANGED dataVars, Faults
    PROVE  DataTypes'
<1>1. faults' \in 0 .. MaxFaults
  BY Constants DEF Faults, Fault, DataTypes
<1>2. QED
  BY <1>1 DEF DataTypes, dataVars, orderVars

\* A step of a request before its response: only the request changes, and if
\* a page has been computed, it holds no post with a verdict.
LEMMA RequestKeepsTypes ==
    ASSUME Types, StaleBound, NEW r \in Reader, NEW q \in Requests,
           req' = [req EXCEPT ![r] = q], seen' \in [Reader -> [Post -> 0 .. 2]],
           q.pc = "set" => Hits(q.page.posts) \subseteq sfw,
           UNCHANGED <<dataVars, cache>>, Faults
    PROVE  Types' /\ StaleBound'
<1>1. /\ req' \in [Reader -> Requests] /\ req'[r] = q
      /\ \A s \in Reader : s # r => req'[s] = req[s]
  BY Replace DEF Types, WalkTypes
<1>2. DataTypes' /\ CacheTypes' /\ WalkTypes'
  BY <1>1, FaultsTyped DEF Types, CacheTypes, WalkTypes
<1>3. rows' = rows /\ sfw' = sfw /\ flagged' = flagged /\ cache' = cache
  BY DEF dataVars
<1>4. ASSUME NEW p \in rows \ sfw, NEW s \in Reader, req'[s].pc = "set",
             p \in Hits(req'[s].page.posts)
      PROVE  flagged[p] <= req'[s].busy
  <2>1. CASE s = r
    BY <1>1, <1>4, <2>1
  <2>2. CASE s # r
    <3>1. req'[s] = req[s]
      BY <1>1, <2>2
    <3>2. QED
      BY <1>4, <3>1 DEF StaleBound
  <2>3. QED
    BY <2>1, <2>2
<1>5. StaleBound'
  BY <1>3, <1>4 DEF StaleBound
<1>6. QED
  BY <1>2, <1>5 DEF Types

LEMMA OpenKeepsTypes ==
    ASSUME Types, StaleBound, NEW r \in Reader, Open(r)
    PROVE  Types' /\ StaleBound'
<1> DEFINE q == [req[r] EXCEPT !.pc = "get"]
           none == [p \in Post |-> 0]
<1>1. q \in Requests /\ q.pc = "get"
  BY DEF Types, WalkTypes, Requests
<1>2. req' = [req EXCEPT ![r] = q] /\ seen' = [seen EXCEPT ![r] = none]
  BY DEF Open
<1>3. none \in [Post -> 0 .. 2]
  OBVIOUS
<1>4. UNCHANGED <<dataVars, cache>> /\ Faults
  BY DEF Open, Faults
<1> HIDE DEF q, none
<1>5. seen' \in [Reader -> [Post -> 0 .. 2]]
  BY <1>2, <1>3 DEF Types, WalkTypes
<1>6. QED
  BY <1>1, <1>2, <1>4, <1>5, RequestKeepsTypes

LEMMA CacheMissKeepsTypes ==
    ASSUME Types, StaleBound, NEW r \in Reader, CacheMiss(r)
    PROVE  Types' /\ StaleBound'
<1> DEFINE q == [req[r] EXCEPT !.pc = "retrieve"]
<1>1. q \in Requests /\ q.pc = "retrieve"
  BY DEF Types, WalkTypes, Requests
<1>2. req' = [req EXCEPT ![r] = q] /\ seen' = seen
  BY DEF CacheMiss
<1>3. UNCHANGED <<dataVars, cache>> /\ Faults
  BY DEF CacheMiss, Faults
<1> HIDE DEF q
<1>4. seen' \in [Reader -> [Post -> 0 .. 2]]
  BY <1>2 DEF Types, WalkTypes
<1>5. QED
  BY <1>1, <1>2, <1>3, <1>4, RequestKeepsTypes

LEMMA KeywordSearchKeepsTypes ==
    ASSUME Types, StaleBound, NEW r \in Reader, KeywordSearch(r)
    PROVE  Types' /\ StaleBound'
<1> DEFINE hits == KeywordHits(kwOrder, sfw)
           q == [req[r] EXCEPT !.kw = hits]
<1>1. hits \in KwLists
  BY DEF KwLists, Types, DataTypes
<1>2. req' = [req EXCEPT ![r] = q] /\ seen' = seen
  BY DEF KeywordSearch
<1> HIDE DEF hits
<1>3. q \in Requests /\ q.pc = "retrieve"
  BY <1>1 DEF Types, WalkTypes, Requests, KeywordSearch
<1>4. UNCHANGED <<dataVars, cache>> /\ Faults
  BY DEF KeywordSearch, Faults
<1> HIDE DEF q
<1>5. seen' \in [Reader -> [Post -> 0 .. 2]]
  BY <1>2 DEF Types, WalkTypes
<1>6. QED
  BY <1>2, <1>3, <1>4, <1>5, RequestKeepsTypes

LEMMA VectorSearchKeepsTypes ==
    ASSUME Types, StaleBound, NEW r \in Reader, VectorSearch(r)
    PROVE  Types' /\ StaleBound'
<1> DEFINE hits == VectorHits(vecOrder, points)
           q == [req[r] EXCEPT !.vec = hits]
<1>1. hits \in VecLists
  BY DEF VecLists, Types, DataTypes
<1>2. req' = [req EXCEPT ![r] = q] /\ seen' = seen
  BY DEF VectorSearch
<1> HIDE DEF hits
<1>3. q \in Requests /\ q.pc = "retrieve"
  BY <1>1 DEF Types, WalkTypes, Requests, VectorSearch
<1>4. UNCHANGED <<dataVars, cache>> /\ Faults
  BY DEF VectorSearch, Faults
<1> HIDE DEF q
<1>5. seen' \in [Reader -> [Post -> 0 .. 2]]
  BY <1>2 DEF Types, WalkTypes
<1>6. QED
  BY <1>2, <1>3, <1>4, <1>5, RequestKeepsTypes

\* The page that a request computes from what it retrieved.
RankPage(r) ==
    LET score == Scores(req[r].kw, req[r].vec, Found, boost, age)
    IN  Page(Ranking(score), score, req[r].cursor)

LEMMA RankSets ==
    ASSUME NEW r \in Reader, Rank(r)
    PROVE  req' = [req EXCEPT ![r] =
                     [Closed EXCEPT !.pc = "set", !.cursor = req[r].cursor, !.page = RankPage(r)]]
BY DEF Rank, RankPage

LEMMA RankKeepsTypes ==
    ASSUME Types, StaleBound, NEW r \in Reader, Rank(r)
    PROVE  Types' /\ StaleBound'
<1> DEFINE page == RankPage(r)
           q == [Closed EXCEPT !.pc = "set", !.cursor = req[r].cursor, !.page = page]
<1>1. /\ req[r].kw \in KwLists /\ req[r].vec \in VecLists /\ req[r].cursor \in Cursors
      /\ sfw \in SUBSET Post /\ boost \in [Post -> Nat] /\ age \in 0 .. MaxAge
  BY DEF Types, WalkTypes, DataTypes, Requests, Weights
<1>2. page \in Pages /\ Hits(page.posts) \subseteq sfw
  BY <1>1, RankedPage DEF RankPage, Found
<1>3. req' = [req EXCEPT ![r] = q]
  BY RankSets
<1> HIDE DEF page
<1>4. q \in Requests /\ q.page = page
  BY <1>1, <1>2, ClosedIsRequest DEF Requests
<1> HIDE DEF q
<1>5. UNCHANGED <<dataVars, cache>> /\ Faults /\ seen' = seen
  BY DEF Rank, Faults
<1>6. seen' \in [Reader -> [Post -> 0 .. 2]]
  BY <1>5 DEF Types, WalkTypes
<1>7. QED
  BY <1>2, <1>3, <1>4, <1>5, <1>6, RequestKeepsTypes

LEMMA SearchFailsKeepsTypes ==
    ASSUME Types, StaleBound, NEW r \in Reader, SearchFails(r)
    PROVE  Types' /\ StaleBound'
<1> DEFINE q == [Closed EXCEPT !.pc = "get", !.cursor = req[r].cursor]
<1>1. req[r].cursor \in Cursors
  BY DEF Types, WalkTypes, Requests
<1>2. q \in Requests /\ q.pc = "get"
  BY <1>1, ClosedIsRequest DEF Requests
<1>3. req' = [req EXCEPT ![r] = q] /\ seen' = seen
  BY DEF SearchFails
<1>4. UNCHANGED <<dataVars, cache>> /\ Faults
  BY DEF SearchFails, Faults
<1> HIDE DEF q
<1>5. seen' \in [Reader -> [Post -> 0 .. 2]]
  BY <1>3 DEF Types, WalkTypes
<1>6. QED
  BY <1>2, <1>3, <1>4, <1>5, RequestKeepsTypes

\* The response leaves the age of what is on its way as it was.
LEMMA ServedStale ==
    ASSUME WalkTypes, StaleBound, NEW r \in Reader, NEW page \in Pages, Serve(r, page),
           UNCHANGED dataVars,
           \A e \in cache' : \/ e \in cache
                             \/ \A p \in rows \ sfw : p \in Hits(e.page.posts)
                                  => flagged[p] + e.ttl <= Ttl + MaxCompute
    PROVE  StaleBound'
<1>1. rows' = rows /\ sfw' = sfw /\ flagged' = flagged
  BY DEF dataVars
<1>2. req'[r].pc # "set" /\ \A s \in Reader : s # r => req'[s] = req[s]
  BY Served
<1>3. ASSUME NEW p \in rows \ sfw, NEW s \in Reader, req'[s].pc = "set",
             p \in Hits(req'[s].page.posts)
      PROVE  flagged[p] <= req'[s].busy
  BY <1>2, <1>3 DEF StaleBound
<1>4. ASSUME NEW p \in rows \ sfw, NEW e \in cache', p \in Hits(e.page.posts)
      PROVE  flagged[p] + e.ttl <= Ttl + MaxCompute
  BY <1>4 DEF StaleBound
<1>5. QED
  BY <1>1, <1>3, <1>4 DEF StaleBound

LEMMA CacheHitKeepsTypes ==
    ASSUME Types, StaleBound, NEW r \in Reader, CacheHit(r)
    PROVE  Types' /\ StaleBound'
<1>1. PICK e \in cache : Serve(r, e.page)
  BY DEF CacheHit
<1>2. e.page \in Pages
  BY DEF Types, CacheTypes, Entries
<1>3. UNCHANGED dataVars /\ cache' = cache /\ Faults
  BY DEF CacheHit, Faults
<1>4. WalkTypes'
  BY <1>1, <1>2, Served DEF Types
<1>5. StaleBound'
  BY <1>1, <1>2, <1>3, ServedStale DEF Types
<1>6. QED
  BY <1>3, <1>4, <1>5, FaultsTyped DEF Types, CacheTypes

LEMMA CacheSetKeepsTypes ==
    ASSUME Types, StaleBound, NEW r \in Reader, CacheSet(r)
    PROVE  Types' /\ StaleBound'
<1> DEFINE page == req[r].page
           new == [key |-> req[r].cursor, page |-> page, ttl |-> Ttl]
<1>1. page \in Pages /\ req[r].cursor \in Cursors /\ req[r].busy \in 0 .. MaxCompute
  BY DEF Types, WalkTypes, Requests
<1>2. Serve(r, page) /\ UNCHANGED dataVars /\ Faults /\ req[r].pc = "set"
  BY DEF CacheSet, Faults
<1>3. cache' = cache \/ cache' = {e \in cache : e.key # req[r].cursor} \cup {new}
  BY DEF CacheSet, Stored, CacheKey
<1>4. new \in Entries /\ new.key = req[r].cursor /\ new.ttl = Ttl /\ new.page = page
  BY <1>1, Constants DEF Entries
<1>5. ASSUME NEW p \in rows \ sfw, p \in Hits(page.posts)
      PROVE  flagged[p] + Ttl <= Ttl + MaxCompute
  <2>1. flagged[p] <= req[r].busy
    BY <1>2, <1>5 DEF StaleBound
  <2>2. flagged[p] \in Nat
    BY Constants DEF Types, DataTypes
  <2>3. QED
    BY <1>1, <2>1, <2>2, Constants
<1> HIDE DEF page, new
<1>6. CacheTypes'
  <2>1. cache' \in SUBSET Entries
    BY <1>3, <1>4 DEF Types, CacheTypes
  <2>2. \A e, f \in cache' : e.key = f.key => e = f
    BY <1>3, <1>4 DEF Types, CacheTypes
  <2>3. QED
    BY <2>1, <2>2 DEF CacheTypes
<1>7. WalkTypes'
  BY <1>1, <1>2, Served DEF Types
<1>8. \A e \in cache' : \/ e \in cache
                        \/ \A p \in rows \ sfw : p \in Hits(e.page.posts)
                             => flagged[p] + e.ttl <= Ttl + MaxCompute
  BY <1>3, <1>4, <1>5
<1>9. StaleBound'
  BY <1>1, <1>2, <1>8, ServedStale DEF Types
<1>10. QED
  BY <1>2, <1>6, <1>7, <1>9, FaultsTyped DEF Types

\* A step that changes no verdict and asks for nothing.
LEMMA Quiet ==
    ASSUME Types, StaleBound, DataTypes', rows' \ sfw' = rows \ sfw, flagged' = flagged,
           req' = req, seen' = seen, cache' \subseteq cache
    PROVE  Types' /\ StaleBound'
<1>1. CacheTypes' /\ WalkTypes'
  BY DEF Types, CacheTypes, WalkTypes
<1>2. StaleBound'
  BY DEF StaleBound
<1>3. QED
  BY <1>1, <1>2 DEF Types

LEMMA EditKeepsTypes ==
    ASSUME Types, StaleBound,
           \/ \E p \in Post : Store(p) \/ Rewrite(p) \/ Index(p)
           \/ Reorder \/ GrowOlder \/ ClearKey
    PROVE  Types' /\ StaleBound'
<1>1. DataTypes
  BY DEF Types
<1>2. CASE \E p \in Post : Store(p)
  <2>1. PICK p \in Post : Store(p)
    BY <1>2
  <2>2. DataTypes'
    BY <1>1, <2>1, Constants DEF Store, DataTypes, Calm, orderVars, apiVars
  <2>3. rows' \ sfw' = rows \ sfw
    BY <1>1, <2>1 DEF Store, DataTypes
  <2>4. QED
    BY <2>1, <2>2, <2>3, Quiet DEF Store, apiVars
<1>3. CASE \E p \in Post : Rewrite(p)
  <2>0. PICK p \in Post : Rewrite(p)
    BY <1>3
  <2>1. PICK b \in Boosts[p] : boost' = [boost EXCEPT ![p] = b]
    BY <2>0 DEF Rewrite
  <2>2. Boosts[p] \subseteq Nat
    BY ApiAssumption
  <2>3. boost' \in Weights
    BY <1>1, <2>0, <2>1, <2>2 DEF DataTypes, Weights
  <2>4. DataTypes'
    BY <1>1, <2>0, <2>3, Constants DEF Rewrite, DataTypes, Calm, apiVars
  <2>5. QED
    BY <2>0, <2>4, Quiet DEF Rewrite, apiVars
<1>4. CASE \E p \in Post : Index(p)
  <2>1. PICK p \in Post : Index(p)
    BY <1>4
  <2>2. DataTypes'
    BY <1>1, <2>1, Constants DEF Index, DataTypes, Calm, orderVars, apiVars
  <2>3. QED
    BY <2>1, <2>2, Quiet DEF Index, apiVars
<1>5. CASE Reorder
  <2>1. DataTypes'
    BY <1>1, <1>5, Constants DEF Reorder, DataTypes, Calm, apiVars
  <2>2. QED
    BY <1>5, <2>1, Quiet DEF Reorder, apiVars
<1>6. CASE GrowOlder
  <2>1. DataTypes'
    BY <1>1, <1>6, Constants DEF GrowOlder, DataTypes, Calm, orderVars, apiVars
  <2>2. QED
    BY <1>6, <2>1, Quiet DEF GrowOlder, apiVars
<1>7. CASE ClearKey
  <2>1. UNCHANGED dataVars /\ UNCHANGED faults /\ cache' \subseteq cache
    BY <1>7 DEF ClearKey
  <2>2. DataTypes'
    BY <1>1, <2>1 DEF DataTypes, dataVars, orderVars
  <2>3. QED
    BY <1>7, <2>1, <2>2, Quiet DEF ClearKey, dataVars
<1>8. QED
  BY <1>2, <1>3, <1>4, <1>5, <1>6, <1>7

LEMMA VerdictKeepsTypes ==
    ASSUME Types, StaleBound, NEW p \in Post, Verdict(p)
    PROVE  Types' /\ StaleBound'
<1>1. /\ sfw' = sfw \ {p} /\ points' = points /\ age' = age /\ faults' = faults
      /\ rows' = rows /\ boost' = boost /\ kwOrder' = kwOrder /\ vecOrder' = vecOrder
      /\ edits' = edits + 1 /\ edits + age < MaxEvents
      /\ flagged' = [flagged EXCEPT ![p] = 0]
      /\ cache' = cache /\ req' = req /\ seen' = seen
  BY DEF Verdict, Calm, orderVars, apiVars
<1>2. DataTypes'
  <2>1. flagged' \in [Post -> 0 .. LongAgo]
    BY <1>1, Constants DEF Types, DataTypes
  <2>2. QED
    BY <1>1, <2>1, Constants DEF Types, DataTypes
<1>3. CacheTypes' /\ WalkTypes'
  BY <1>1 DEF Types, CacheTypes, WalkTypes
<1>4. \A q \in rows \ sfw' : flagged'[q] = IF q = p THEN 0 ELSE flagged[q]
  BY <1>1 DEF Types, DataTypes
<1>5. ASSUME NEW q \in rows \ sfw', NEW e \in cache, q \in Hits(e.page.posts)
      PROVE  flagged'[q] + e.ttl <= Ttl + MaxCompute
  <2>1. CASE q = p
    <3>1. e.ttl \in 1 .. Ttl
      BY DEF Types, CacheTypes, Entries
    <3>2. QED
      BY <1>4, <2>1, <3>1, Constants
  <2>2. CASE q # p
    BY <1>1, <1>4, <1>5, <2>2 DEF StaleBound
  <2>3. QED
    BY <2>1, <2>2
<1>6. ASSUME NEW q \in rows \ sfw', NEW r \in Reader, req[r].pc = "set",
             q \in Hits(req[r].page.posts)
      PROVE  flagged'[q] <= req[r].busy
  <2>1. CASE q = p
    <3>1. req[r].busy \in 0 .. MaxCompute
      BY DEF Types, WalkTypes, Requests
    <3>2. QED
      BY <1>4, <2>1, <3>1, Constants
  <2>2. CASE q # p
    BY <1>1, <1>4, <1>6, <2>2 DEF StaleBound
  <2>3. QED
    BY <2>1, <2>2
<1>7. StaleBound'
  BY <1>1, <1>5, <1>6 DEF StaleBound
<1>8. QED
  BY <1>2, <1>3, <1>7 DEF Types

\* What a tick does to a request and to an entry.
LEMMA Ticks ==
    ASSUME Types, Tick
    PROVE  /\ \A r \in Reader :
                /\ req'[r] \in Requests
                /\ req'[r].pc = req[r].pc /\ req'[r].cursor = req[r].cursor
                /\ req'[r].kw = req[r].kw /\ req'[r].vec = req[r].vec
                /\ req'[r].page = req[r].page
                /\ req'[r].busy = IF req[r].pc = "set" THEN req[r].busy + 1 ELSE req[r].busy
                /\ req[r] = Closed => req'[r] = Closed
           /\ req' \in [Reader -> Requests]
           /\ \A f \in cache' : \E e \in cache :
                /\ f \in Entries /\ f.key = e.key /\ f.page = e.page
                /\ f.ttl = e.ttl - 1 /\ f = [e EXCEPT !.ttl = e.ttl - 1]
<1>1. ASSUME NEW r \in Reader
      PROVE  /\ req'[r] \in Requests
             /\ req'[r].pc = req[r].pc /\ req'[r].cursor = req[r].cursor
             /\ req'[r].kw = req[r].kw /\ req'[r].vec = req[r].vec
             /\ req'[r].page = req[r].page
             /\ req'[r].busy = IF req[r].pc = "set" THEN req[r].busy + 1 ELSE req[r].busy
             /\ req[r] = Closed => req'[r] = Closed
  <2> DEFINE q == req[r]
  <2>1. q \in Requests
    BY DEF Types, WalkTypes
  <2>2. CASE q.pc = "set"
    <3>1. q.busy < MaxCompute
      BY <2>2 DEF Tick
    <3>2. req'[r] = [q EXCEPT !.busy = q.busy + 1]
      BY <2>2 DEF Tick
    <3>3. q # Closed
      BY <2>2, ClosedIsRequest
    <3> HIDE DEF q
    <3>4. [q EXCEPT !.busy = q.busy + 1] \in Requests
      BY <2>1, <3>1, Constants DEF Requests
    <3>5. QED
      BY <2>1, <2>2, <3>2, <3>3, <3>4 DEF Requests, q
  <2>3. CASE q.pc # "set"
    BY <2>1, <2>3 DEF Tick
  <2>4. QED
    BY <2>2, <2>3
<1>2. req' \in [Reader -> Requests]
  <2>1. req' = [r \in Reader |-> req'[r]]
    BY DEF Tick
  <2>2. QED
    BY <1>1, <2>1
<1>3. ASSUME NEW f \in cache'
      PROVE  \E e \in cache :
                /\ f \in Entries /\ f.key = e.key /\ f.page = e.page
                /\ f.ttl = e.ttl - 1 /\ f = [e EXCEPT !.ttl = e.ttl - 1]
  <2>1. PICK e \in cache : e.ttl > 1 /\ f = [e EXCEPT !.ttl = e.ttl - 1]
    BY DEF Tick
  <2>2. e \in Entries
    BY DEF Types, CacheTypes
  <2>3. f \in Entries /\ f.key = e.key /\ f.page = e.page /\ f.ttl = e.ttl - 1
    BY <2>1, <2>2, Constants DEF Entries
  <2>4. QED
    BY <2>1, <2>3
<1>4. QED
  BY <1>1, <1>2, <1>3

LEMMA TickKeepsTypes ==
    ASSUME Types, StaleBound, Tick
    PROVE  Types' /\ StaleBound'
<1>1. /\ rows' = rows /\ sfw' = sfw /\ points' = points /\ boost' = boost
      /\ kwOrder' = kwOrder /\ vecOrder' = vecOrder /\ age' = age /\ edits' = edits
      /\ seen' = seen /\ faults' = faults
      /\ flagged' = [p \in Post |-> IF p \in sfw \/ flagged[p] = LongAgo
                                      THEN flagged[p] ELSE flagged[p] + 1]
  BY DEF Tick, orderVars
<1>2. ASSUME NEW p \in Post
      PROVE  /\ flagged[p] \in 0 .. LongAgo /\ flagged'[p] \in 0 .. LongAgo
             /\ flagged'[p] <= flagged[p] + 1
  <2>1. flagged[p] \in 0 .. LongAgo
    BY DEF Types, DataTypes
  <2>2. QED
    BY <1>1, <2>1, Constants
<1>3. DataTypes'
  <2>1. flagged' \in [Post -> 0 .. LongAgo]
    BY <1>1, <1>2
  <2>2. QED
    BY <1>1, <2>1 DEF Types, DataTypes
<1>4. WalkTypes'
  BY <1>1, Ticks DEF Types, WalkTypes
<1>5. CacheTypes'
  <2>1. cache' \in SUBSET Entries
    BY Ticks
  <2>2. ASSUME NEW f \in cache', NEW g \in cache', f.key = g.key
        PROVE  f = g
    <3>1. PICK e \in cache : f.key = e.key /\ f = [e EXCEPT !.ttl = e.ttl - 1]
      BY Ticks
    <3>2. PICK h \in cache : g.key = h.key /\ g = [h EXCEPT !.ttl = h.ttl - 1]
      BY Ticks
    <3>3. e = h
      BY <2>2, <3>1, <3>2 DEF Types, CacheTypes
    <3>4. QED
      BY <3>1, <3>2, <3>3
  <2>3. QED
    BY <2>1, <2>2 DEF CacheTypes
<1>6. ASSUME NEW p \in rows \ sfw, NEW f \in cache', p \in Hits(f.page.posts)
      PROVE  flagged'[p] + f.ttl <= Ttl + MaxCompute
  <2>1. PICK e \in cache : f.page = e.page /\ f.ttl = e.ttl - 1
    BY Ticks
  <2>2. flagged[p] + e.ttl <= Ttl + MaxCompute
    BY <1>6, <2>1 DEF StaleBound
  <2>3. e.ttl \in Nat
    BY Constants DEF Types, CacheTypes, Entries
  <2>4. p \in Post
    BY DEF Types, DataTypes
  <2>5. QED
    BY <1>2, <2>1, <2>2, <2>3, <2>4, Constants
<1>7. ASSUME NEW p \in rows \ sfw, NEW r \in Reader, req'[r].pc = "set",
             p \in Hits(req'[r].page.posts)
      PROVE  flagged'[p] <= req'[r].busy
  <2>1. req[r].pc = "set" /\ req'[r].page = req[r].page /\ req'[r].busy = req[r].busy + 1
    BY <1>7, Ticks
  <2>2. flagged[p] <= req[r].busy
    BY <1>7, <2>1 DEF StaleBound
  <2>3. req[r].busy \in Nat
    BY Constants DEF Types, WalkTypes, Requests
  <2>4. p \in Post
    BY DEF Types, DataTypes
  <2>5. QED
    BY <1>2, <2>1, <2>2, <2>3, <2>4, Constants
<1>8. StaleBound'
  BY <1>1, <1>6, <1>7 DEF StaleBound
<1>9. QED
  BY <1>3, <1>4, <1>5, <1>8 DEF Types

LEMMA NextTypes ==
    ASSUME Types, StaleBound, [Next]_vars
    PROVE  Types' /\ StaleBound'
<1>1. ASSUME NEW r \in Reader,
             \/ Open(r) \/ CacheHit(r) \/ CacheMiss(r) \/ KeywordSearch(r)
             \/ VectorSearch(r) \/ Rank(r) \/ CacheSet(r) \/ SearchFails(r)
      PROVE  Types' /\ StaleBound'
  BY <1>1, OpenKeepsTypes, CacheHitKeepsTypes, CacheMissKeepsTypes,
     KeywordSearchKeepsTypes, VectorSearchKeepsTypes, RankKeepsTypes,
     CacheSetKeepsTypes, SearchFailsKeepsTypes
<1>2. CASE \E p \in Post : Store(p) \/ Rewrite(p) \/ Index(p) \/ Verdict(p)
  BY <1>2, EditKeepsTypes, VerdictKeepsTypes
<1>3. CASE Reorder \/ GrowOlder \/ ClearKey \/ Tick
  BY <1>3, EditKeepsTypes, TickKeepsTypes
<1>4. CASE UNCHANGED vars
  <2>1. DataTypes' /\ CacheTypes' /\ WalkTypes'
    BY <1>4 DEF vars, dataVars, orderVars, apiVars, Types, DataTypes, CacheTypes, WalkTypes
  <2>2. StaleBound'
    BY <1>4 DEF vars, dataVars, apiVars, StaleBound
  <2>3. QED
    BY <2>1, <2>2 DEF Types
<1>5. QED
  BY <1>1, <1>2, <1>3, <1>4 DEF Next

-----------------------------------------------------------------------------
(* The order of the candidates, at any age.                                 *)

LEMMA Scored ==
    ASSUME NEW a \in 0 .. MaxAge
    PROVE  IsScored(ScoresAt(a)) /\ DOMAIN ScoresAt(a) = Candidates
<1>1. IsList(FirstKw) /\ IsList(FirstVec)
  BY HitsAreLists DEF FirstKw, FirstVec
<1>2. Crawled \in SUBSET Post /\ Boost \in [Post -> Nat]
  BY Constants DEF Weights
<1> DEFINE score == Scores(FirstKw, FirstVec, Crawled, Boost, a)
<1>3. /\ IsScored(score)
      /\ DOMAIN score = (Hits(FirstKw) \cup Hits(FirstVec)) \cap Crawled
      /\ \A p \in DOMAIN score : score[p] \in Nat
  BY <1>1, <1>2, ScoresScored, Zenon
<1>4. QED
  BY <1>3 DEF ScoresAt, Candidates

\* All candidates are in it, once.
LEMMA Ordered ==
    /\ Total \in Nat /\ Candidates \subseteq Post
    /\ Order \in Seq(Candidates) /\ Len(Order) = Total
    /\ \A i \in 1 .. Total : Order[i] \in Candidates
    /\ \A i, j \in 1 .. Total : Order[i] = Order[j] => i = j
    /\ \A p \in Candidates : \E i \in 1 .. Total : Order[i] = p
<1>1. IsScored(ScoresAt(0)) /\ DOMAIN ScoresAt(0) = Candidates
  BY Scored, Constants
<1>2. /\ Len(Order) = Total /\ Total \in Nat
      /\ Order \in [1 .. Total -> Candidates] /\ Order \in Seq(Candidates)
      /\ \A i, j \in 1 .. Total : Order[i] = Order[j] => i = j
      /\ \A p \in Candidates : \E i \in 1 .. Total : Order[i] = p
  BY <1>1, RankingLists DEF Order, Total
<1>3. Candidates \subseteq Post
  BY Constants DEF Candidates
<1>4. QED
  BY <1>2, <1>3

LEMMA Scaling ==
    ASSUME NEW x \in Nat, NEW y \in Nat, NEW c \in Nat \ {0}
    PROVE  (x * c > y * c <=> x > y) /\ (x * c = y * c <=> x = y)
OBVIOUS

\* Posts that decay alike have decayed by all the time that has passed.
LEMMA AllDecay ==
    ASSUME NEW a \in 0 .. MaxAge, a # 0, AlikeAt(a), NEW p \in Post, NEW b \in 0 .. MaxAge
    PROVE  HalfLives(p, b) = b
<1>1. Lead[p] \in Nat /\ MaxAge \in Nat
  BY SearchAssumption
<1>2. HalfLives(p, a) = HalfLives(p, 0) + a
  BY DEF AlikeAt
<1>3. p \notin Undated /\ Lead[p] = 0
  BY <1>1, <1>2 DEF HalfLives
<1>4. QED
  BY <1>1, <1>3 DEF HalfLives

\* Scores that decay alike stay in their order.
LEMMA OrderStays ==
    ASSUME NEW a \in 0 .. MaxAge, AlikeAt(a)
    PROVE  Ranking(ScoresAt(a)) = Order
<1>1. CASE a = 0
  BY <1>1 DEF Order
<1>2. CASE a # 0
  <2> DEFINE base == [p \in Candidates |-> (Share(FirstKw, p) + Share(FirstVec, p)) * Boost[p]]
             S == ScoresAt(a)
             Z == ScoresAt(0)
  <2>1. IsList(FirstKw) /\ IsList(FirstVec)
    BY HitsAreLists DEF FirstKw, FirstVec
  <2>2. ASSUME NEW p \in Candidates PROVE base[p] \in Nat
    <3>1. Share(FirstKw, p) \in Nat /\ Share(FirstVec, p) \in Nat
      BY <2>1, ShareIsNat
    <3>2. p \in Post
      BY Ordered
    <3>3. Boost[p] \in Nat
      BY <3>2, Constants DEF Weights
    <3> DEFINE rrf == Share(FirstKw, p) + Share(FirstVec, p)
               x == Boost[p]
    <3>4. rrf \in Nat /\ x \in Nat
      BY <3>1, <3>3
    <3> HIDE DEF rrf, x
    <3>5. rrf * x \in Nat
      BY <3>4
    <3>6. QED
      BY <3>5 DEF rrf, x
  <2>3. ASSUME NEW b \in 0 .. MaxAge, NEW p \in Candidates
        PROVE  ScoresAt(b)[p] = base[p] * 2 ^ (MaxAge + 1 - b)
    <3>1. HalfLives(p, b) = b
      BY <1>2, Ordered, AllDecay
    <3>2. QED
      BY <3>1 DEF ScoresAt, Scores, Fused, Candidates, Rerank
  <2>4. 2 ^ (MaxAge + 1 - a) \in Nat \ {0} /\ 2 ^ (MaxAge + 1 - 0) \in Nat \ {0}
    BY Powers, Constants
  <2>5. DOMAIN S = Candidates /\ DOMAIN Z = Candidates
    BY Scored, Constants
  <2>6. ASSUME NEW p \in Candidates, NEW q \in Candidates
        PROVE  Before(S, q, p) <=> Before(Z, q, p)
    <3>1. base[p] \in Nat /\ base[q] \in Nat
      BY <2>2
    <3> DEFINE x == base[p]
               y == base[q]
               c == 2 ^ (MaxAge + 1 - a)
               d == 2 ^ (MaxAge + 1 - 0)
    <3>2. S[p] = x * c /\ S[q] = y * c /\ Z[p] = x * d /\ Z[q] = y * d
      BY <2>3, Constants
    <3>3. c \in Nat \ {0} /\ d \in Nat \ {0} /\ x \in Nat /\ y \in Nat
      BY <2>4, <3>1
    <3> HIDE DEF base, x, y, c, d, S, Z
    <3>4. /\ S[q] > S[p] <=> y > x
          /\ Z[q] > Z[p] <=> y > x
          /\ S[q] = S[p] <=> y = x
          /\ Z[q] = Z[p] <=> y = x
      BY <3>2, <3>3, Scaling
    <3>5. QED
      BY <3>4 DEF Before
  <2> HIDE DEF S, Z, base
  <2>7. \A p \in Candidates : {q \in Candidates : Before(S, q, p)}
                               = {q \in Candidates : Before(Z, q, p)}
    BY <2>6
  <2>8. Ranking(S) = Ranking(Z)
    <3> DEFINE A(i, p) == Cardinality({q \in Candidates : Before(S, q, p)}) = i - 1
               B(i, p) == Cardinality({q \in Candidates : Before(Z, q, p)}) = i - 1
    <3>1. Ranking(S) = [i \in 1 .. Total |-> CHOOSE p \in Candidates : A(i, p)]
      BY <2>5 DEF Ranking, Total
    <3>2. Ranking(Z) = [i \in 1 .. Total |-> CHOOSE p \in Candidates : B(i, p)]
      BY <2>5 DEF Ranking, Total
    <3>3. \A i \in 1 .. Total : \A p \in Candidates : A(i, p) <=> B(i, p)
      BY <2>7
    <3>4. \A i \in 1 .. Total :
            (CHOOSE p \in Candidates : A(i, p)) = (CHOOSE p \in Candidates : B(i, p))
      BY <2>7
    <3> HIDE DEF A, B
    <3>5. QED
      BY <3>1, <3>2, <3>4
  <2>9. QED
    BY <2>8 DEF Order, S, Z
<1>3. QED
  BY <1>1, <1>2

LEMMA PlaceOf ==
    ASSUME NEW cursor, OnWalk(cursor)
    PROVE  /\ Place(cursor) \in 0 .. Total
           /\ cursor = NoCursor => Place(cursor) = 0
           /\ cursor # NoCursor => /\ Place(cursor) \in 1 .. Total
                                   /\ Order[Place(cursor)] = cursor.id
                                   /\ cursor.id \in Candidates
<1>1. CASE cursor = NoCursor
  BY <1>1, Ordered DEF Place
<1>2. CASE cursor # NoCursor
  <2>1. cursor.id \in Candidates
    BY <1>2 DEF OnWalk
  <2>2. \E i \in 1 .. Total : Order[i] = cursor.id
    BY <2>1, Ordered
  <2>3. Place(cursor) = CHOOSE i \in 1 .. Total : Order[i] = cursor.id
    BY <1>2 DEF Place
  <2>4. Place(cursor) \in 1 .. Total /\ Order[Place(cursor)] = cursor.id
    BY <2>2, <2>3
  <2>5. QED
    BY <1>2, <2>1, <2>4, Ordered
<1>3. QED
  BY <1>1, <1>2

\* A page starts at the place of the cursor,
LEMMA StartIsPlace ==
    ASSUME NEW a \in 0 .. MaxAge, NEW cursor, OnWalk(cursor)
    PROVE  Start(Order, ScoresAt(a), cursor) = Place(cursor)
<1>1. CASE cursor = NoCursor
  BY <1>1 DEF Start, Place
<1>2. CASE cursor # NoCursor
  <2>1. cursor.id \in DOMAIN ScoresAt(a)
    BY <1>2, Scored DEF OnWalk
  <2>2. DOMAIN Order = 1 .. Total
    BY Ordered
  <2>3. QED
    BY <1>2, <2>1, <2>2 DEF Start, Skipped, Place
<1>3. QED
  BY <1>1, <1>2

\* and so follows the pages before it, whenever it is computed.
LEMMA PageFollows ==
    ASSUME NEW a \in 0 .. MaxAge, AlikeAt(a), NEW cursor, OnWalk(cursor)
    PROVE  IsPageAfter(Page(Ranking(ScoresAt(a)), ScoresAt(a), cursor), cursor)
<1> DEFINE score == ScoresAt(a)
           page == Page(Order, score, cursor)
           place == Place(cursor)
<1>1. Ranking(score) = Order
  BY OrderStays
<1>2. Start(Order, score, cursor) = place
  BY StartIsPlace
<1>3. place \in 0 .. Total
  BY PlaceOf
<1> HIDE DEF score, place
<1>4. ShowsPiece(page, Order, score, Candidates, place)
  BY <1>2, <1>3, Ordered, PageShowsPiece
<1> HIDE DEF page
<1>5. /\ Hits(page.posts) = Piece(Order, place + 1, Least(place + PageLimit, Total))
      /\ Total <= place + PageLimit => page.next = NoCursor
  BY <1>4, Ordered DEF ShowsPiece
<1>6. ASSUME Total > place + PageLimit
      PROVE  /\ page.next # NoCursor
             /\ OnWalk(page.next) /\ Place(page.next) = place + PageLimit
  <2> DEFINE i == place + PageLimit
  <2>1. i \in 1 .. Total
    BY <1>3, <1>6, Constants, Ordered
  <2>2. page.next = Cursor(Order[i], score[Order[i]])
    BY <1>4, <1>6, Ordered DEF ShowsPiece
  <2> HIDE DEF i
  <2>3. page.next.id = Order[i] /\ Order[i] \in Candidates
    BY <2>1, <2>2, Ordered DEF Cursor
  <2>4. page.next # NoCursor
    BY <2>3, Ordered, Constants DEF NoCursor
  <2>5. OnWalk(page.next)
    BY <2>3 DEF OnWalk
  <2>6. Place(page.next) \in 1 .. Total /\ Order[Place(page.next)] = Order[i]
    BY <2>3, <2>4, <2>5, PlaceOf
  <2>7. Place(page.next) = i
    BY <2>1, <2>6, Ordered
  <2>8. QED
    BY <2>4, <2>5, <2>7 DEF i
<1>7. IsPageAfter(page, cursor)
  BY <1>5, <1>6 DEF IsPageAfter, place
<1>8. QED
  BY <1>1, <1>7 DEF page, score

-----------------------------------------------------------------------------
(* Walks.                                                                   *)

\* A piece after k and the first k posts are apart; together they are the
\* first m.
LEMMA Pieces ==
    ASSUME NEW k \in 0 .. Total, NEW m \in k .. Total
    PROVE  /\ Piece(Order, k + 1, m) \cap Piece(Order, 1, k) = {}
           /\ Piece(Order, 1, m) = Piece(Order, 1, k) \cup Piece(Order, k + 1, m)
           /\ Piece(Order, 1, 0) = {}
           /\ Piece(Order, 1, Total) = Candidates
           /\ Piece(Order, 1, m) \subseteq Candidates
<1>1. Piece(Order, k + 1, m) \cap Piece(Order, 1, k) = {}
  <2> SUFFICES ASSUME NEW i \in k + 1 .. m, NEW j \in 1 .. k, Order[i] = Order[j]
               PROVE  FALSE
    BY DEF Piece
  <2>1. i \in 1 .. Total /\ j \in 1 .. Total /\ i # j
    BY Ordered
  <2>2. QED
    BY <2>1, Ordered
<1>2. Piece(Order, 1, m) = Piece(Order, 1, k) \cup Piece(Order, k + 1, m)
  <2>1. 1 .. m = 1 .. k \cup k + 1 .. m
    BY Ordered
  <2>2. QED
    BY <2>1 DEF Piece
<1>3. Piece(Order, 1, 0) = {}
  BY DEF Piece
<1>4. Piece(Order, 1, Total) = Candidates
  BY Ordered DEF Piece
<1>5. Piece(Order, 1, m) \subseteq Candidates
  BY Ordered DEF Piece
<1>6. QED
  BY <1>1, <1>2, <1>3, <1>4, <1>5

\* The response takes a walk from the first posts to the first posts and the
\* page after them.
LEMMA ServedWalk ==
    ASSUME WalkTypes, NEW r \in Reader, NEW page \in Pages, Serve(r, page),
           OnWalk(req[r].cursor), IsPageAfter(page, req[r].cursor),
           Shown(r, Place(req[r].cursor))
    PROVE  /\ WalkInv(r)'
           /\ \A s \in Reader : s # r => req'[s] = req[s] /\ seen'[s] = seen[s]
<1> DEFINE cursor == req[r].cursor
           k == Place(cursor)
           m == Least(k + PageLimit, Total)
<1>1. k \in 0 .. Total
  BY PlaceOf
<1>2. m \in k .. Total /\ m \in 0 .. Total
  BY <1>1, Ordered, Constants DEF Least
<1>3. Hits(page.posts) = Piece(Order, k + 1, m)
  BY DEF IsPageAfter
<1>4. \A p \in Post : seen[r][p] = IF p \in Piece(Order, 1, k) THEN 1 ELSE 0
  BY DEF Shown
<1>5. ASSUME NEW p \in Post
      PROVE  seen'[r][p] = IF p \in Piece(Order, 1, m) THEN 1 ELSE 0
  <2>1. seen'[r][p] = IF p \in Hits(page.posts) /\ seen[r][p] < 2
                        THEN seen[r][p] + 1 ELSE seen[r][p]
    BY DEF Serve, WalkTypes
  <2> HIDE DEF k, m, cursor
  <2>2. CASE p \in Piece(Order, k + 1, m)
    <3>1. p \notin Piece(Order, 1, k) /\ p \in Piece(Order, 1, m)
      BY <1>1, <1>2, <2>2, Pieces
    <3>2. QED
      BY <1>3, <1>4, <2>1, <2>2, <3>1
  <2>3. CASE p \notin Piece(Order, k + 1, m)
    <3>1. p \in Piece(Order, 1, k) <=> p \in Piece(Order, 1, m)
      BY <1>1, <1>2, <2>3, Pieces
    <3>2. QED
      BY <1>3, <1>4, <2>1, <2>3, <3>1
  <2>4. QED
    BY <2>2, <2>3
<1>6. /\ \A s \in Reader : s # r => req'[s] = req[s] /\ seen'[s] = seen[s]
      /\ page.next = NoCursor => req'[r] = Closed
      /\ page.next # NoCursor =>
           req'[r] = [Closed EXCEPT !.pc = "get", !.cursor = page.next]
  BY Served DEF Serve, WalkTypes
<1>7. WalkInv(r)'
  <2>1. CASE page.next = NoCursor
    <3>1. Total <= k + PageLimit
      BY <1>1, <2>1, Ordered, Constants DEF IsPageAfter
    <3>2. m = Total
      BY <1>1, <3>1, Ordered, Constants DEF Least
    <3>3. Shown(r, Total)'
      BY <1>5, <3>2 DEF Shown
    <3>4. req'[r] = Closed
      BY <1>6, <2>1
    <3>5. QED
      BY <3>3, <3>4, ClosedIsRequest DEF WalkInv, OnWalk
  <2>2. CASE page.next # NoCursor
    <3>1. Total > k + PageLimit
      BY <1>1, <2>2, Ordered, Constants DEF IsPageAfter
    <3>2. OnWalk(page.next) /\ Place(page.next) = m
      BY <1>1, <3>1, Ordered, Constants DEF IsPageAfter, Least
    <3>3. \A p \in Post : seen'[r][p] = IF p \in Piece(Order, 1, Place(page.next)) THEN 1 ELSE 0
      BY <1>5, <3>2
    <3> DEFINE q == [Closed EXCEPT !.pc = "get", !.cursor = page.next]
    <3>4. /\ req'[r] = q /\ q.pc = "get" /\ q.cursor = page.next
          /\ q.kw = Pending /\ q.vec = Pending
      BY <1>6, <2>2, ClosedIsRequest DEF Requests
    <3>5. Shown(r, Place(req[r].cursor))'
      BY <3>3, <3>4 DEF Shown
    <3>6. QED
      BY <3>2, <3>4, <3>5 DEF WalkInv
  <2>3. QED
    BY <2>1, <2>2
<1>8. QED
  BY <1>6, <1>7

LEMMA InitSettled == Init => Settled
<1> SUFFICES ASSUME Init PROVE Settled
  OBVIOUS
<1>1. EntryInv
  BY DEF Init, EntryInv
<1>2. ASSUME NEW r \in Reader PROVE WalkInv(r)
  <2>1. req[r] = Closed /\ \A p \in Post : seen[r][p] = 0
    BY DEF Init
  <2>2. Shown(r, 0)
    BY <2>1 DEF Shown, Piece
  <2>3. QED
    BY <2>1, <2>2, ClosedIsRequest DEF WalkInv, OnWalk
<1>3. QED
  BY <1>1, <1>2 DEF Init, Settled

\* What other readers do is nothing to a walk.
LEMMA WalkStays ==
    ASSUME NEW r \in Reader, WalkInv(r), req'[r] = req[r], seen'[r] = seen[r]
    PROVE  WalkInv(r)'
BY DEF WalkInv, Shown

\* One reader's step.
LEMMA ReaderSettled ==
    ASSUME Settled, NEW r \in Reader, WalkInv(r)', EntryInv', UNCHANGED dataVars,
           \A s \in Reader : s # r => req'[s] = req[s] /\ seen'[s] = seen[s]
    PROVE  Settled'
<1>1. ASSUME NEW s \in Reader PROVE WalkInv(s)'
  <2>1. CASE s = r
    BY <2>1
  <2>2. CASE s # r
    BY <2>2, WalkStays DEF Settled
  <2>3. QED
    BY <2>1, <2>2
<1>2. QED
  BY <1>1 DEF Settled, dataVars, orderVars

LEMMA OpenSettled ==
    ASSUME Types, Settled, NEW r \in Reader, Open(r)
    PROVE  Settled'
<1>1. req[r] = Closed /\ req[r].pc = "closed"
  BY DEF Open, Settled, WalkInv
<1>2. /\ req' = [req EXCEPT ![r] = [Closed EXCEPT !.pc = "get"]]
      /\ seen' = [seen EXCEPT ![r] = [p \in Post |-> 0]]
      /\ UNCHANGED dataVars /\ cache' = cache
  BY <1>1 DEF Open
<1> DEFINE q == [Closed EXCEPT !.pc = "get"]
<1>3. q.pc = "get" /\ q.cursor = NoCursor /\ q.kw = Pending /\ q.vec = Pending
  BY ClosedIsRequest DEF Requests
<1> HIDE DEF q
<1>4. req'[r] = q /\ \A s \in Reader : s # r => req'[s] = req[s] /\ seen'[s] = seen[s]
  BY <1>2 DEF Types, WalkTypes, q
<1>5. \A p \in Post : seen'[r][p] = 0
  BY <1>2 DEF Types, WalkTypes
<1>6. Shown(r, 0)'
  BY <1>5 DEF Shown, Piece
<1>7. Place(NoCursor) = 0
  BY DEF Place
<1>8. WalkInv(r)'
  BY <1>3, <1>4, <1>6, <1>7 DEF WalkInv, OnWalk
<1>9. EntryInv'
  BY <1>2 DEF EntryInv, Settled
<1>10. QED
  BY <1>2, <1>4, <1>8, <1>9, ReaderSettled

\* A request goes on without answering.
LEMMA RequestSettled ==
    ASSUME Types, Settled, NEW r \in Reader, NEW q \in Requests,
           req' = [req EXCEPT ![r] = q], UNCHANGED <<dataVars, cache, seen>>,
           req[r].pc # "closed", q.pc # "closed", q.cursor = req[r].cursor,
           q.kw \in {Pending, FirstKw}, q.vec \in {Pending, FirstVec},
           q.pc = "set" => IsPageAfter(q.page, q.cursor)
    PROVE  Settled'
<1>1. req'[r] = q /\ \A s \in Reader : s # r => req'[s] = req[s]
  BY Replace DEF Types, WalkTypes
<1>2. OnWalk(q.cursor) /\ Shown(r, Place(q.cursor))
  BY DEF Settled, WalkInv
<1>3. WalkInv(r)'
  <2>1. Shown(r, Place(req[r].cursor))'
    BY <1>1, <1>2 DEF Shown
  <2>2. QED
    BY <1>1, <1>2, <2>1 DEF WalkInv
<1>4. EntryInv'
  BY DEF EntryInv, Settled
<1>5. QED
  BY <1>1, <1>3, <1>4, ReaderSettled

LEMMA RetrievalSettled ==
    ASSUME Types, Settled, NEW r \in Reader,
           CacheMiss(r) \/ KeywordSearch(r) \/ VectorSearch(r)
    PROVE  Settled'
<1>1. /\ req[r] \in Requests
      /\ req[r].kw \in {Pending, FirstKw} /\ req[r].vec \in {Pending, FirstVec}
      /\ sfw = Crawled /\ points = Indexed /\ kwOrder = KwOrder /\ vecOrder = VecOrder
  BY DEF Types, WalkTypes, Settled, WalkInv
<1>2. FirstKw \in KwLists /\ FirstVec \in VecLists
  BY Constants DEF FirstKw, FirstVec, KwLists, VecLists
<1>3. CASE CacheMiss(r)
  <2> DEFINE q == [req[r] EXCEPT !.pc = "retrieve"]
  <2>1. /\ q \in Requests /\ q.pc = "retrieve" /\ q.cursor = req[r].cursor
        /\ q.kw = req[r].kw /\ q.vec = req[r].vec
    BY <1>1 DEF Requests
  <2>2. req' = [req EXCEPT ![r] = q] /\ UNCHANGED <<dataVars, cache, seen>> /\ req[r].pc = "get"
    BY <1>3 DEF CacheMiss
  <2> HIDE DEF q
  <2>3. QED
    BY <1>1, <2>1, <2>2, RequestSettled
<1>4. CASE KeywordSearch(r)
  <2> DEFINE q == [req[r] EXCEPT !.kw = FirstKw]
  <2>1. /\ req' = [req EXCEPT ![r] = q] /\ UNCHANGED <<dataVars, cache, seen>>
        /\ req[r].pc = "retrieve"
    BY <1>1, <1>4 DEF KeywordSearch, FirstKw
  <2>2. /\ q \in Requests /\ q.pc = "retrieve" /\ q.cursor = req[r].cursor
        /\ q.kw = FirstKw /\ q.vec = req[r].vec
    BY <1>1, <1>2, <2>1 DEF Requests
  <2> HIDE DEF q
  <2>3. QED
    BY <1>1, <2>1, <2>2, RequestSettled
<1>5. CASE VectorSearch(r)
  <2> DEFINE q == [req[r] EXCEPT !.vec = FirstVec]
  <2>1. /\ req' = [req EXCEPT ![r] = q] /\ UNCHANGED <<dataVars, cache, seen>>
        /\ req[r].pc = "retrieve"
    BY <1>1, <1>5 DEF VectorSearch, FirstVec
  <2>2. /\ q \in Requests /\ q.pc = "retrieve" /\ q.cursor = req[r].cursor
        /\ q.kw = req[r].kw /\ q.vec = FirstVec
    BY <1>1, <1>2, <2>1 DEF Requests
  <2> HIDE DEF q
  <2>3. QED
    BY <1>1, <2>1, <2>2, RequestSettled
<1>6. QED
  BY <1>3, <1>4, <1>5

LEMMA RankSettled ==
    ASSUME Types, StaleBound, Still, Settled, NEW r \in Reader, Rank(r)
    PROVE  Settled'
<1> DEFINE page == RankPage(r)
           q == [Closed EXCEPT !.pc = "set", !.cursor = req[r].cursor, !.page = page]
<1>1. /\ req[r].kw = FirstKw /\ req[r].vec = FirstVec
      /\ OnWalk(req[r].cursor) /\ sfw = Crawled /\ boost = Boost
      /\ req[r].pc = "retrieve" /\ req[r].cursor \in Cursors
  BY DEF Rank, Settled, WalkInv, Types, WalkTypes, Requests
<1>2. age \in 0 .. MaxAge /\ AlikeAt(age)
  BY DEF Types, DataTypes, Still
<1>3. page = Page(Ranking(ScoresAt(age)), ScoresAt(age), req[r].cursor)
  BY <1>1 DEF RankPage, ScoresAt, Found
<1>4. IsPageAfter(page, req[r].cursor)
  BY <1>1, <1>2, <1>3, PageFollows
<1>5. page \in Pages
  <2>1. /\ FirstKw \in KwLists /\ FirstVec \in VecLists /\ Crawled \in SUBSET Post
        /\ Boost \in [Post -> Nat]
    BY Constants DEF FirstKw, FirstVec, KwLists, VecLists, Weights
  <2>2. QED
    BY <1>2, <1>3, <2>1, RankedPage DEF ScoresAt
<1>6. req' = [req EXCEPT ![r] = q]
  BY RankSets
<1> HIDE DEF page
<1>7. /\ q \in Requests /\ q.pc = "set" /\ q.cursor = req[r].cursor
      /\ q.kw = Pending /\ q.vec = Pending /\ q.page = page
  BY <1>1, <1>5, ClosedIsRequest DEF Requests
<1> HIDE DEF q
<1>8. UNCHANGED <<dataVars, cache, seen>>
  BY DEF Rank
<1>9. QED
  BY <1>1, <1>4, <1>6, <1>7, <1>8, RequestSettled

LEMMA SearchFailsSettled ==
    ASSUME Types, Settled, NEW r \in Reader, SearchFails(r)
    PROVE  Settled'
<1> DEFINE q == [Closed EXCEPT !.pc = "get", !.cursor = req[r].cursor]
<1>1. req[r].cursor \in Cursors
  BY DEF Types, WalkTypes, Requests
<1>2. /\ q \in Requests /\ q.pc = "get" /\ q.cursor = req[r].cursor
      /\ q.kw = Pending /\ q.vec = Pending
  BY <1>1, ClosedIsRequest DEF Requests
<1>3. /\ req' = [req EXCEPT ![r] = q] /\ UNCHANGED <<dataVars, cache, seen>>
      /\ req[r].pc = "retrieve"
  BY DEF SearchFails
<1> HIDE DEF q
<1>4. QED
  BY <1>2, <1>3, RequestSettled

LEMMA CacheHitSettled ==
    ASSUME Types, Settled, NEW r \in Reader, CacheHit(r)
    PROVE  Settled'
<1>1. PICK e \in cache : e.key = req[r].cursor /\ Serve(r, e.page)
  BY DEF CacheHit, CacheKey
<1>2. e.page \in Pages /\ IsPageAfter(e.page, req[r].cursor)
  BY <1>1 DEF Types, CacheTypes, Entries, Settled, EntryInv
<1>3. req[r].pc = "get" /\ UNCHANGED dataVars /\ cache' = cache
  BY DEF CacheHit
<1>4. OnWalk(req[r].cursor) /\ Shown(r, Place(req[r].cursor))
  BY <1>3 DEF Settled, WalkInv
<1>5. /\ WalkInv(r)'
      /\ \A s \in Reader : s # r => req'[s] = req[s] /\ seen'[s] = seen[s]
  BY <1>1, <1>2, <1>4, ServedWalk DEF Types
<1>6. EntryInv'
  BY <1>3 DEF EntryInv, Settled
<1>7. QED
  BY <1>3, <1>5, <1>6, ReaderSettled

LEMMA CacheSetSettled ==
    ASSUME Types, Settled, NEW r \in Reader, CacheSet(r)
    PROVE  Settled'
<1> DEFINE page == req[r].page
           new == [key |-> req[r].cursor, page |-> page, ttl |-> Ttl]
<1>1. page \in Pages
  BY DEF Types, WalkTypes, Requests
<1>2. req[r].pc = "set" /\ UNCHANGED dataVars /\ Serve(r, page)
  BY DEF CacheSet
<1>3. /\ OnWalk(req[r].cursor) /\ Shown(r, Place(req[r].cursor))
      /\ IsPageAfter(page, req[r].cursor)
  BY <1>2 DEF Settled, WalkInv
<1>4. /\ WalkInv(r)'
      /\ \A s \in Reader : s # r => req'[s] = req[s] /\ seen'[s] = seen[s]
  BY <1>1, <1>2, <1>3, ServedWalk DEF Types
<1>5. cache' = cache \/ cache' = {e \in cache : e.key # req[r].cursor} \cup {new}
  BY DEF CacheSet, Stored, CacheKey
<1>6. new.key = req[r].cursor /\ new.page = page
  OBVIOUS
<1> HIDE DEF page, new
<1>7. EntryInv'
  BY <1>3, <1>5, <1>6 DEF EntryInv, Settled
<1>8. QED
  BY <1>2, <1>4, <1>7, ReaderSettled

LEMMA TimeSettled ==
    ASSUME Types, Settled, GrowOlder \/ ClearKey \/ Tick
    PROVE  Settled'
<1>1. CASE GrowOlder \/ ClearKey
  <2>1. /\ rows' = rows /\ sfw' = sfw /\ points' = points /\ boost' = boost
        /\ kwOrder' = kwOrder /\ vecOrder' = vecOrder /\ req' = req /\ seen' = seen
        /\ cache' \subseteq cache
    BY <1>1 DEF GrowOlder, ClearKey, dataVars, orderVars, apiVars
  <2>2. \A r \in Reader : WalkInv(r)'
    BY <2>1, WalkStays DEF Settled
  <2>3. EntryInv'
    BY <2>1 DEF EntryInv, Settled
  <2>4. QED
    BY <2>1, <2>2, <2>3 DEF Settled
<1>2. CASE Tick
  <2>1. /\ rows' = rows /\ sfw' = sfw /\ points' = points /\ boost' = boost
        /\ kwOrder' = kwOrder /\ vecOrder' = vecOrder /\ seen' = seen
    BY <1>2 DEF Tick, orderVars
  <2>2. ASSUME NEW r \in Reader PROVE WalkInv(r)'
    <3>1. /\ req'[r].pc = req[r].pc /\ req'[r].cursor = req[r].cursor
          /\ req'[r].kw = req[r].kw /\ req'[r].vec = req[r].vec
          /\ req'[r].page = req[r].page /\ (req[r] = Closed => req'[r] = Closed)
      BY <1>2, Ticks
    <3>2. WalkInv(r)
      BY DEF Settled
    <3>3. \A k : Shown(r, k)' <=> Shown(r, k)
      BY <2>1 DEF Shown
    <3>4. QED
      BY <3>1, <3>2, <3>3 DEF WalkInv
  <2>3. EntryInv'
    BY <1>2, Ticks DEF EntryInv, Settled
  <2>4. QED
    BY <2>1, <2>2, <2>3 DEF Settled
<1>3. QED
  BY <1>1, <1>2

Edit == Reorder \/ \E p \in Post : Store(p) \/ Rewrite(p) \/ Index(p) \/ Verdict(p)

\* Posts that have decayed alike did so before.
LEMMA AlikeBefore ==
    ASSUME NEW a \in Nat, AlikeAt(a + 1)
    PROVE  AlikeAt(a)
<1>1. SUFFICES ASSUME NEW p \in Post PROVE HalfLives(p, a) = HalfLives(p, 0) + a
  BY DEF AlikeAt
<1>2. HalfLives(p, a + 1) = HalfLives(p, 0) + (a + 1)
  BY DEF AlikeAt
<1>3. Lead[p] \in Nat
  BY SearchAssumption
<1>4. QED
  BY <1>2, <1>3 DEF HalfLives

\* Nothing ever makes candidates stand still again.
LEMMA StillBefore ==
    ASSUME Types, [Next]_vars, Still'
    PROVE  Still /\ ~Edit
<1>1. edits \in Nat /\ age \in Nat
  BY Constants DEF Types, DataTypes
<1>2. ASSUME Edit PROVE FALSE
  <2>1. edits' = edits + 1
    BY <1>2 DEF Edit, Reorder, Store, Rewrite, Index, Verdict
  <2>2. QED
    BY <1>1, <2>1 DEF Still
<1>3. ASSUME NEW r \in Reader,
             \/ Open(r) \/ CacheHit(r) \/ CacheMiss(r) \/ KeywordSearch(r)
             \/ VectorSearch(r) \/ Rank(r) \/ CacheSet(r) \/ SearchFails(r)
      PROVE  edits' = edits /\ age' = age
  BY <1>3 DEF Open, CacheHit, CacheMiss, KeywordSearch, VectorSearch, Rank, CacheSet,
              SearchFails, dataVars
<1>4. ASSUME GrowOlder \/ ClearKey \/ Tick \/ UNCHANGED vars
      PROVE  edits' = edits /\ (age' = age \/ age' = age + 1)
  BY <1>4 DEF GrowOlder, ClearKey, Tick, dataVars, vars
<1>5. edits' = edits /\ (age' = age \/ age' = age + 1)
  BY <1>2, <1>3, <1>4 DEF Next, Edit
<1>6. AlikeAt(age)
  <2>1. AlikeAt(age')
    BY DEF Still, AlikeAt
  <2>2. QED
    BY <1>1, <1>5, <2>1, AlikeBefore
<1>7. QED
  BY <1>2, <1>5, <1>6 DEF Still

LEMMA NextIInv == IInv /\ [Next]_vars => IInv'
<1> SUFFICES ASSUME IInv, [Next]_vars PROVE IInv'
  OBVIOUS
<1>1. Types' /\ StaleBound'
  BY NextTypes DEF IInv
<1>2. ASSUME Still' PROVE Settled'
  <2>1. Types /\ StaleBound /\ Still /\ Settled
    BY <1>2, StillBefore DEF IInv, StillInv
  <2>2. ASSUME NEW r \in Reader,
               \/ Open(r) \/ CacheHit(r) \/ CacheMiss(r) \/ KeywordSearch(r)
               \/ VectorSearch(r) \/ Rank(r) \/ CacheSet(r) \/ SearchFails(r)
        PROVE  Settled'
    BY <2>1, <2>2, OpenSettled, CacheHitSettled, RetrievalSettled, RankSettled,
       CacheSetSettled, SearchFailsSettled
  <2>3. CASE UNCHANGED vars
    <3>1. \A r \in Reader : WalkInv(r)'
      BY <2>1, <2>3, WalkStays DEF Settled, vars, apiVars
    <3>2. QED
      BY <2>1, <2>3, <3>1 DEF Settled, EntryInv, vars, dataVars, orderVars, apiVars
  <2>4. CASE GrowOlder \/ ClearKey \/ Tick
    BY <2>1, <2>4, TimeSettled
  <2>5. QED
    BY <1>2, <2>1, <2>2, <2>3, <2>4, StillBefore DEF Next, Edit
<1>3. QED
  BY <1>1, <1>2 DEF IInv, StillInv

\* Types, the age of verdicts and the state of every walk are inductive.
THEOREM Invariance == Spec => []IInv
<1>1. Init => IInv
  BY InitTypes, InitSettled DEF IInv, StillInv
<1>2. QED
  BY <1>1, NextIInv, PTL DEF Spec

\* Pages, cursors, entries of the cache and counters keep their ranges, and a
\* key never has two entries (cache.py:100-142, general.py:405-434).
THEOREM TypeCorrect == Spec => []TypeOK
<1>1. IInv => TypeOK
  <2> SUFFICES ASSUME IInv PROVE TypeOK
    OBVIOUS
  <2>1. edits \in 0 .. MaxEvents
    BY Constants DEF IInv, Types, DataTypes
  <2>2. \A e \in cache : e.key \in Cursors /\ IsPage(e.page) /\ e.ttl \in 1 .. Ttl
    BY DEF IInv, Types, CacheTypes, Entries, Pages, IsPage
  <2>3. \A r \in Reader : /\ req[r].pc \in {"closed", "get", "retrieve", "set"}
                          /\ req[r].cursor \in Cursors /\ IsPage(req[r].page)
                          /\ req[r].busy \in 0 .. MaxCompute
    BY DEF IInv, Types, WalkTypes, Requests, Pages, IsPage
  <2>4. QED
    BY <2>1, <2>2, <2>3 DEF TypeOK, IInv, Types, DataTypes, CacheTypes, WalkTypes, Weights
<1>2. QED
  BY <1>1, Invariance, PTL

\* No answer holds a post longer than Ttl + MaxCompute ticks after its verdict,
\* whatever the caches, the point in Qdrant and the two retrievals still say
\* (search.py:101, cache.py:127-130, general.py:224-225).
THEOREM VerdictsTakeEffect == Spec => []StaleBound
<1>1. IInv => StaleBound
  BY DEF IInv
<1>2. QED
  BY <1>1, Invariance, PTL

\* As long as the stored posts, their boosts and verdicts, the points and the
\* order of equals do not change and all posts decay alike, the pages of a walk
\* overlap nowhere and leave no candidate out, computed or from the cache, at any
\* age (general.py:125-142, 405-434).
THEOREM PagesPartition == Spec => []WalksPartition
<1>1. IInv => WalksPartition
  <2> SUFFICES ASSUME IInv, Still, NEW r \in Reader
               PROVE  /\ \A p \in Post : seen[r][p] <= 1
                      /\ req[r].pc = "closed" /\ (\E p \in Post : seen[r][p] > 0)
                           => \A p \in (Hits(KeywordHits(kwOrder, sfw))
                                         \cup Hits(VectorHits(vecOrder, points))) \cap Found :
                                seen[r][p] = 1
    BY DEF WalksPartition, Still, AlikeAt, DecayAlike
  <2>1. /\ WalkInv(r) /\ sfw = Crawled /\ points = Indexed
        /\ kwOrder = KwOrder /\ vecOrder = VecOrder
    BY DEF IInv, StillInv, Settled
  <2>2. PICK k : Shown(r, k)
    BY <2>1 DEF WalkInv
  <2>3. \A p \in Post : seen[r][p] <= 1
    BY <2>2 DEF Shown
  <2>4. ASSUME req[r].pc = "closed", NEW p \in Post, seen[r][p] > 0, NEW q \in Candidates
        PROVE  seen[r][q] = 1
    <3>1. Piece(Order, 1, 0) = {} /\ Piece(Order, 1, Total) = Candidates
      BY Pieces, Ordered
    <3>2. ~Shown(r, 0)
      BY <2>4, <3>1 DEF Shown
    <3>3. Shown(r, Total)
      BY <2>1, <2>4, <3>2 DEF WalkInv
    <3>4. QED
      BY <3>1, <3>3, Ordered DEF Shown
  <2>5. (Hits(KeywordHits(kwOrder, sfw)) \cup Hits(VectorHits(vecOrder, points))) \cap Found
          = Candidates
    BY <2>1 DEF Candidates, FirstKw, FirstVec, Found
  <2>6. QED
    BY <2>3, <2>4, <2>5
<1>2. QED
  BY <1>1, Invariance, PTL

-----------------------------------------------------------------------------
(* The other searches.                                                      *)

\* A finite order, in which before[p] is what comes before p, has a first element.
LEMMA FirstOfOrder ==
    ASSUME NEW S, IsFiniteSet(S), S # {}, NEW before \in [S -> SUBSET S],
           \A p \in S : p \notin before[p],
           \A p, q \in S : p # q => q \in before[p] \/ p \in before[q],
           \A p, q \in S : q \in before[p] => before[q] \subseteq before[p]
    PROVE  \E p \in S : before[p] = {}
<1>1. Cardinality(S) \in Nat /\ Cardinality(S) # 0
  BY FS_CardinalityType, FS_EmptySet
<1>2. \A i \in 1 .. Cardinality(S) : \E p \in S : Cardinality(before[p]) = i - 1
  BY Ranks
<1>3. PICK p \in S : Cardinality(before[p]) = 0
  BY <1>1, <1>2
<1>4. IsFiniteSet(before[p])
  BY FS_Subset
<1>5. QED
  BY <1>3, <1>4, FS_EmptySet

\* A finite set of integers has the Max and the Min that the model takes.
LEMMA Extremes ==
    ASSUME NEW S, IsFiniteSet(S), S # {}, S \subseteq Int
    PROVE  /\ Max(S) \in S /\ \A x \in S : Max(S) >= x
           /\ Min(S) \in S /\ \A x \in S : Min(S) <= x
<1>3. \E p \in S : \A x \in S : p >= x
  <2> DEFINE B == [p \in S |-> {q \in S : q > p}]
  <2>0. \A p, q \in S : q \in B[p] <=> q > p
    OBVIOUS
  <2>1. B \in [S -> SUBSET S] /\ \A p \in S : p \notin B[p]
    OBVIOUS
  <2>4. \A p \in S : B[p] = {} => \A x \in S : p >= x
    OBVIOUS
  <2> HIDE DEF B
  <2>2. \A p, q \in S : p # q => q \in B[p] \/ p \in B[q]
    BY <2>0
  <2>3. ASSUME NEW p \in S, NEW q \in S, q \in B[p] PROVE B[q] \subseteq B[p]
    <3>1. SUFFICES ASSUME NEW r \in B[q] PROVE r \in B[p]
      OBVIOUS
    <3>2. r \in S /\ p \in Int /\ q \in Int /\ r \in Int
      BY <2>1
    <3>3. q > p /\ r > q
      BY <2>0, <2>3, <3>2
    <3>4. r > p
      BY <3>2, <3>3
    <3>5. QED
      BY <2>0, <3>2, <3>4
  <2>5. \E p \in S : B[p] = {}
    BY <2>1, <2>2, <2>3, FirstOfOrder
  <2>6. QED
    BY <2>4, <2>5
<1>4. \E p \in S : \A x \in S : p <= x
  <2> DEFINE B == [p \in S |-> {q \in S : q < p}]
  <2>0. \A p, q \in S : q \in B[p] <=> q < p
    OBVIOUS
  <2>1. B \in [S -> SUBSET S] /\ \A p \in S : p \notin B[p]
    OBVIOUS
  <2>4. \A p \in S : B[p] = {} => \A x \in S : p <= x
    OBVIOUS
  <2> HIDE DEF B
  <2>2. \A p, q \in S : p # q => q \in B[p] \/ p \in B[q]
    BY <2>0
  <2>3. ASSUME NEW p \in S, NEW q \in S, q \in B[p] PROVE B[q] \subseteq B[p]
    <3>1. SUFFICES ASSUME NEW r \in B[q] PROVE r \in B[p]
      OBVIOUS
    <3>2. r \in S /\ p \in Int /\ q \in Int /\ r \in Int
      BY <2>1
    <3>3. q < p /\ r < q
      BY <2>0, <2>3, <3>2
    <3>4. r < p
      BY <3>2, <3>3
    <3>5. QED
      BY <2>0, <3>2, <3>4
  <2>5. \E p \in S : B[p] = {}
    BY <2>1, <2>2, <2>3, FirstOfOrder
  <2>6. QED
    BY <2>4, <2>5
<1>5. Max(S) \in S /\ \A x \in S : Max(S) >= x
  BY <1>3 DEF Max
<1>6. Min(S) \in S /\ \A x \in S : Min(S) <= x
  BY <1>4, Zenon DEF Min
<1>7. QED
  BY <1>5, <1>6

LEMMA Tried ==
    /\ \A l \in Levels : l \in Nat /\ l <= 31
    /\ \A c \in Cosines : c \in Int /\ -10 <= c /\ c <= 10
    /\ IsFiniteSet(0 .. 31)
    /\ \A S \in SUBSET Cosines : IsFiniteSet(S)
<1>1. Levels \subseteq 0 .. 31 /\ Cosines \subseteq -10 .. 10
  BY ResolversAssumption
<1>2. IsFiniteSet(0 .. 31) /\ IsFiniteSet(-10 .. 10)
  <2>1. -10 \in Int /\ 10 \in Int /\ 0 \in Int /\ 31 \in Int
    OBVIOUS
  <2>2. QED
    BY <2>1, FS_Interval, Zenon
<1>4. ASSUME NEW S \in SUBSET Cosines PROVE IsFiniteSet(S)
  BY <1>1, <1>2, FS_Subset
<1>5. QED
  BY <1>1, <1>2, <1>4

\* An answer of one row is the row that scores above all others.
LEMMA BestOfAll ==
    ASSUME NEW found, IsFiniteSet(found), NEW x \in found, NEW value,
           \A u \in found \ {x} : value[u] < value[x],
           \A u \in found : value[u] \in Int,
           NEW top \in Best(1, value, found)
    PROVE  top = {x}
<1>1. Cardinality(found) \in Nat /\ Cardinality(found) # 0
  BY FS_CardinalityType, FS_EmptySet
<1>2. /\ top \in SUBSET found /\ Cardinality(top) = 1
      /\ \A t \in top, u \in found \ top : value[u] <= value[t]
  BY <1>1 DEF Best
<1>3. PICK z : top = {z}
  BY <1>2, FS_Singleton, FS_Subset
<1>4. ASSUME z # x PROVE FALSE
  <2>1. z \in found \ {x} /\ x \in found \ top
    BY <1>2, <1>3, <1>4
  <2>2. value[x] <= value[z] /\ value[z] < value[x]
    BY <1>2, <1>3, <2>1
  <2>3. QED
    BY <2>1, <2>2
<1>5. QED
  BY <1>3, <1>4

\* The 100 for the name outweighs 60 of similarity and 30 of usage.
LEMMA NameOutweighs ==
    ASSUME NEW m \in Nat \ {0}, NEW l \in Nat, NEW k \in Nat, k <= m,
           NEW c \in Nat, NEW d \in Int, d <= 10
    PROVE  m * (0 + 6 * d) + 30 * k < m * (100 + 6 * c) + 30 * l
<1>1. m * (6 * d) <= m * 60
  <2>1. 6 * d <= 60 /\ 6 * d \in Int
    OBVIOUS
  <2> DEFINE z == 6 * d
  <2> HIDE DEF z
  <2>2. ASSUME z \in Int, z <= 60 PROVE m * z <= m * 60
    BY <2>2
  <2>3. QED
    BY <2>1, <2>2 DEF z
<1>2. m * (100 + 6 * c) >= m * 100
  <2> DEFINE z == 100 + 6 * c
  <2>1. z \in Int /\ z >= 100
    OBVIOUS
  <2> HIDE DEF z
  <2>2. m * z >= m * 100
    BY <2>1
  <2>3. QED
    BY <2>2 DEF z
<1>3. m * (6 * d) \in Int /\ m * (100 + 6 * c) \in Int
  OBVIOUS
<1>4. QED
  BY <1>1, <1>2, <1>3

LEMMA TagFacts ==
    ASSUME NEW q \in TagQueries
    PROVE  /\ q.exact = {1} /\ q.prefix \subseteq 1 .. 3
           /\ q.level \in [1 .. 3 -> Levels]
           /\ DOMAIN q.sem \subseteq 1 .. 3
           /\ \A t \in DOMAIN q.sem : q.sem[t] \in Cosines
<1>1. PICK p \in SUBSET {2, 3}, l \in [1 .. 3 -> Levels],
           s \in UNION {Nearest(held, c) :
                          held \in SUBSET (1 .. 3), c \in [1 .. 3 -> Cosines]} :
        q = [exact |-> {1}, prefix |-> {1} \cup p, level |-> l, sem |-> s]
  BY DEF TagQueries
<1>2. PICK held \in SUBSET (1 .. 3), c \in [1 .. 3 -> Cosines] : s \in Nearest(held, c)
  OBVIOUS
<1>3. PICK hits \in Best(NearestLimit, c, held) : s = [x \in hits |-> c[x]]
  BY <1>2 DEF Nearest
<1>4. hits \subseteq 1 .. 3
  BY <1>3 DEF Best
<1>5. DOMAIN s \subseteq 1 .. 3 /\ \A t \in DOMAIN s : s[t] \in Cosines
  BY <1>3, <1>4
<1>6. p \subseteq 1 .. 3
  OBVIOUS
<1>7. QED
  BY <1>1, <1>5, <1>6

LEMMA Products ==
    ASSUME NEW m \in Int, NEW n \in Int, NEW u \in Nat \ {0}
    PROVE  /\ m * u \in Int
           /\ m >= n => m * u >= n * u
           /\ m > n => m * u > n * u
<1>1. m * u - n * u = (m - n) * u
  OBVIOUS
<1>2. ASSUME NEW d \in Int, d >= 0 PROVE d * u >= 0
  BY <1>2
<1>3. ASSUME NEW d \in Int, d > 0 PROVE d * u > 0
  BY <1>3
<1>4. m - n \in Int /\ m * u \in Int /\ n * u \in Int
  OBVIOUS
<1>5. ASSUME m >= n PROVE m * u >= n * u
  <2>1. m - n >= 0
    BY <1>5
  <2>2. (m - n) * u >= 0
    BY <1>2, <1>4, <2>1
  <2>3. QED
    BY <1>1, <1>4, <2>2
<1>6. ASSUME m > n PROVE m * u > n * u
  <2>1. m - n > 0
    BY <1>6
  <2>2. (m - n) * u > 0
    BY <1>3, <1>4, <2>1
  <2>3. QED
    BY <1>1, <1>4, <2>2
<1>7. QED
  BY <1>4, <1>5, <1>6

\* The tags that were found are few, and their levels and similarities numbers.
LEMMA MergedFacts ==
    ASSUME NEW q \in TagQueries, NEW found \in PrefixRows(q)
    PROVE  /\ q.exact = {1} /\ 1 \in Merged(q, found)
           /\ IsFiniteSet(Merged(q, found)) /\ MaxLevel(q, found) \in Nat \ {0}
           /\ \A t \in Merged(q, found) :
                /\ q.level[t] \in Nat /\ q.level[t] <= MaxLevel(q, found)
                /\ CosineOf(q, t) \in Int /\ CosineOf(q, t) <= 10
                /\ TagScore(q, found, t) \in Int
<1> DEFINE all == Merged(q, found)
           M == MaxLevel(q, found)
           levels == {1} \cup {q.level[t] : t \in all}
<1>2. /\ q.exact = {1} /\ q.prefix \subseteq 1 .. 3
      /\ q.level \in [1 .. 3 -> Levels]
      /\ DOMAIN q.sem \subseteq 1 .. 3
      /\ \A t \in DOMAIN q.sem : q.sem[t] \in Cosines
  BY TagFacts
<1>3. found \subseteq q.prefix
  BY DEF PrefixRows, Best
<1>4. 1 \in all /\ all \subseteq 1 .. 3
  BY <1>2, <1>3 DEF Merged
<1>5. IsFiniteSet(all)
  <2>1. IsFiniteSet(1 .. 3)
    <3>1. 1 \in Int /\ 3 \in Int
      OBVIOUS
    <3>2. QED
      BY <3>1, FS_Interval, Zenon
  <2>2. QED
    BY <1>4, <2>1, FS_Subset
<1>6. \A t \in all : q.level[t] \in Nat
  BY <1>2, <1>4, Tried
<1>7. M \in Nat \ {0} /\ \A t \in all : q.level[t] <= M
  <2>1. levels \subseteq 0 .. 31
    BY <1>2, <1>4, Tried
  <2>2. IsFiniteSet(levels)
    BY <2>1, Tried, FS_Subset
  <2>3. levels # {} /\ levels \subseteq Nat /\ levels \subseteq Int
    BY <1>6
  <2>4. Max(levels) \in levels /\ \A x \in levels : Max(levels) >= x
    BY <2>2, <2>3, Extremes
  <2>5. M = Max(levels)
    BY DEF MaxLevel
  <2>6. M \in Nat /\ M >= 1
    BY <2>3, <2>4, <2>5
  <2>7. QED
    BY <1>6, <2>4, <2>5, <2>6
<1>8. \A t \in all : CosineOf(q, t) \in Int /\ CosineOf(q, t) <= 10
  BY <1>2, Tried DEF CosineOf
<1>10. \A t \in all : TagScore(q, found, t) \in Int
  <2>1. SUFFICES ASSUME NEW t \in all PROVE TagScore(q, found, t) \in Int
    OBVIOUS
  <2> DEFINE e == (IF t \in q.exact THEN 100 ELSE 0) + 6 * CosineOf(q, t)
  <2>2. e \in Int /\ q.level[t] \in Int /\ M \in Int
    BY <1>6, <1>7, <1>8
  <2>3. TagScore(q, found, t) = M * e + 30 * q.level[t]
    BY DEF TagScore
  <2> HIDE DEF e, M
  <2>4. QED
    BY <2>2, <2>3
<1>11. QED
  BY <1>2, <1>4, <1>5, <1>6, <1>7, <1>8, <1>10

(* ExactTagFirst: the tag that is asked for scores above every other.       *)
LEMMA NameComesFirst == ExactTagFirst
<1>1. SUFFICES ASSUME NEW q \in TagQueries, CosineOf(q, 1) >= 0,
                      NEW found \in PrefixRows(q), NEW answer \in TagAnswers(q, found, 1)
               PROVE  answer = {1}
  BY DEF ExactTagFirst
<1> DEFINE all == Merged(q, found)
           M == MaxLevel(q, found)
           score == [t \in all |-> TagScore(q, found, t)]
<1>2. /\ q.exact = {1} /\ 1 \in all /\ IsFiniteSet(all) /\ M \in Nat \ {0}
      /\ \A t \in all : /\ q.level[t] \in Nat /\ q.level[t] <= M
                        /\ CosineOf(q, t) \in Int /\ CosineOf(q, t) <= 10
                        /\ score[t] \in Int
  BY MergedFacts
<1>3. ASSUME NEW t \in all, t # 1 PROVE score[t] < score[1]
  <2>1. score[t] = M * (0 + 6 * CosineOf(q, t)) + 30 * q.level[t]
    BY <1>2, <1>3 DEF TagScore
  <2>2. score[1] = M * (100 + 6 * CosineOf(q, 1)) + 30 * q.level[1]
    BY <1>2 DEF TagScore
  <2>3. CosineOf(q, 1) \in Nat
    BY <1>1, <1>2
  <2> DEFINE c == CosineOf(q, 1)
             d == CosineOf(q, t)
             k == q.level[t]
             l == q.level[1]
  <2>4. c \in Nat /\ d \in Int /\ d <= 10 /\ k \in Nat /\ k <= M /\ l \in Nat
    BY <1>2, <2>3
  <2> HIDE DEF c, d, k, l, M
  <2>5. M * (0 + 6 * d) + 30 * k < M * (100 + 6 * c) + 30 * l
    BY <1>2, <2>4, NameOutweighs
  <2>6. QED
    BY <2>1, <2>2, <2>5 DEF c, d, k, l
<1>4. answer \in Best(1, score, all)
  BY DEF TagAnswers
<1> HIDE DEF all, score, M
<1>5. QED
  BY <1>2, <1>3, <1>4, BestOfAll

(* BetterTagAhead: the score grows with both criteria.                      *)
LEMMA BetterTagComesFirst == BetterTagAhead
<1>1. SUFFICES ASSUME NEW q \in TagQueries, NEW limit \in 1 .. 2, NEW found \in PrefixRows(q),
                      NEW answer \in TagAnswers(q, found, limit),
                      NEW t \in Merged(q, found) \ answer, NEW u \in answer \ q.exact,
                      CosineOf(q, t) >= CosineOf(q, u), q.level[t] >= q.level[u]
               PROVE  TagScore(q, found, t) = TagScore(q, found, u)
  BY DEF BetterTagAhead
<1> DEFINE all == Merged(q, found)
           M == MaxLevel(q, found)
           x == TagScore(q, found, t)
           y == TagScore(q, found, u)
           c == 6 * CosineOf(q, t) + (IF t \in q.exact THEN 100 ELSE 0)
           d == 6 * CosineOf(q, u)
           k == 30 * q.level[t]
           l == 30 * q.level[u]
<1>2. answer \subseteq all /\ y >= x
  BY DEF TagAnswers, Best
<1>3. /\ M \in Nat \ {0} /\ x \in Int /\ y \in Int
      /\ q.level[t] \in Nat /\ q.level[u] \in Nat
      /\ CosineOf(q, t) \in Int /\ CosineOf(q, u) \in Int
  BY <1>2, MergedFacts
<1>4. c \in Int /\ d \in Int /\ c >= d /\ k \in Int /\ l \in Int /\ k >= l
  BY <1>1, <1>3
<1>5. x = M * c + k /\ y = M * d + l
  BY <1>3 DEF TagScore
<1> HIDE DEF M, x, y, c, d, k, l
<1>6. c * M \in Int /\ d * M \in Int /\ c * M >= d * M
  BY <1>3, <1>4, Products
<1>7. M * c = c * M /\ M * d = d * M
  BY <1>3, <1>4
<1>8. x = y
  BY <1>2, <1>3, <1>4, <1>5, <1>6, <1>7
<1>9. QED
  BY <1>8 DEF x, y

(* PostsDoNotOutrank: the bounds of the three classes do not meet, and in a  *)
(* class the order of the answer is that of the similarities.               *)
LEMMA ClassesApart ==
    ASSUME NEW r \in NameRows, NEW s \in NameRows,
           ClassRank[r.class] > ClassRank[s.class]
    PROVE  NameScore(r) > NameScore(s)
<1>2. ASSUME NEW x \in NameRows
      PROVE  /\ x.class \in {"exact", "prefix", "fuzzy"} /\ x.sim \in 0 .. 10
             /\ x.level \in Nat /\ x.level <= 31
             /\ x.class = "exact" => x.sim = 10
  BY Tried DEF NameRows, ClassRank
<1>3. ASSUME NEW p \in Nat, NEW lo \in Nat, NEW hi \in Nat, lo <= p, p <= hi,
             NEW l \in Nat, l <= 31
      PROVE  p * (20 + l) >= lo * 20 /\ p * (20 + l) <= hi * 51 /\ p * (20 + l) \in Int
  <2> DEFINE u == 20 + l
  <2>1. u \in Nat \ {0} /\ u >= 20 /\ u <= 51 /\ u \in Int
    BY <1>3
  <2> HIDE DEF u
  <2>2. p * u >= lo * u /\ hi * u >= p * u
    BY <1>3, <2>1, Products
  <2>3. lo * u >= lo * 20 /\ hi * u <= hi * 51
    BY <2>1
  <2>4. p * u \in Int /\ lo * u \in Int /\ hi * u \in Int
    BY <2>1
  <2>5. p * u >= lo * 20 /\ p * u <= hi * 51
    BY <2>2, <2>3, <2>4
  <2>6. QED
    BY <2>4, <2>5 DEF u
<1>4. ASSUME NEW x \in NameRows, x.class = "exact"
      PROVE  NameScore(x) >= 3200 /\ NameScore(x) \in Int
  <2>1. NameScore(x) = 160 * (20 + x.level)
    BY <1>2, <1>4 DEF NameScore
  <2>2. QED
    BY <1>2, <2>1
<1>5. ASSUME NEW x \in NameRows, x.class = "prefix"
      PROVE  NameScore(x) >= 1000 /\ NameScore(x) <= 3060 /\ NameScore(x) \in Int
  <2> DEFINE p == 50 + x.sim
  <2>1. NameScore(x) = p * (20 + x.level)
    BY <1>5 DEF NameScore
  <2>2. p \in Nat /\ 50 <= p /\ p <= 60
    BY <1>2
  <2> HIDE DEF p
  <2>3. p * (20 + x.level) >= 50 * 20 /\ p * (20 + x.level) <= 60 * 51
        /\ p * (20 + x.level) \in Int
    BY <1>2, <1>3, <2>2
  <2>4. QED
    BY <2>1, <2>3
<1>6. ASSUME NEW x \in NameRows, x.class = "fuzzy"
      PROVE  NameScore(x) <= 510 /\ NameScore(x) \in Int
  <2>1. NameScore(x) = x.sim * (20 + x.level)
    BY <1>2, <1>6 DEF NameScore
  <2>2. x.sim \in Nat /\ 0 <= x.sim /\ x.sim <= 10
    BY <1>2
  <2>3. x.sim * (20 + x.level) <= 10 * 51 /\ x.sim * (20 + x.level) \in Int
    BY <1>2, <1>3, <2>2
  <2>4. QED
    BY <2>1, <2>3
<1>7. \/ r.class = "exact" /\ s.class \in {"prefix", "fuzzy"}
      \/ r.class = "prefix" /\ s.class = "fuzzy"
  BY <1>2 DEF ClassRank
<1>8. QED
  BY <1>4, <1>5, <1>6, <1>7

LEMMA PostsStayBehind == PostsDoNotOutrank
<1>1. SUFFICES ASSUME NEW table \in NameTables, NEW answer \in NameAnswers(table, 1),
                      NEW i \in answer, NEW j \in DOMAIN table \ answer,
                      NameScore(table[j]) > NameScore(table[i])
               PROVE  table[i].class = table[j].class /\ table[i].sim >= table[j].sim
  BY DEF PostsDoNotOutrank
<1> DEFINE order == [x \in DOMAIN table |-> NameOrder(table[x])]
<1>2. DOMAIN table = 1 .. 2 /\ \A x \in 1 .. 2 : table[x] \in NameRows
  BY DEF NameTables
<1>3. answer \subseteq DOMAIN table /\ order[j] <= order[i]
  BY DEF NameAnswers, Best
<1>4. i \in 1 .. 2 /\ j \in 1 .. 2 /\ NameOrder(table[j]) <= NameOrder(table[i])
  BY <1>2, <1>3
<1> DEFINE r == table[i]
           s == table[j]
<1>5. r \in NameRows /\ s \in NameRows
  BY <1>2, <1>4
<1> HIDE DEF r, s
<1>6. ASSUME NEW x \in NameRows
      PROVE  /\ x.class \in {"exact", "prefix", "fuzzy"} /\ x.sim \in 0 .. 10
             /\ NameScore(x) \in Int
  <2>1. x.class \in {"exact", "prefix", "fuzzy"} /\ x.sim \in 0 .. 10 /\ x.level \in Nat
    BY Tried DEF NameRows, ClassRank
  <2> DEFINE m == (IF x.class = "exact" THEN 150 ELSE IF x.class = "prefix" THEN 50 ELSE 0) + x.sim
             n == 20 + x.level
  <2>2. m \in Int /\ n \in Int
    BY <2>1
  <2>3. NameScore(x) = m * n
    BY DEF NameScore
  <2> HIDE DEF m, n
  <2>4. QED
    BY <2>1, <2>2, <2>3
<1>7. NameScore(s) > NameScore(r) /\ NameOrder(s) <= NameOrder(r)
  BY <1>1, <1>4 DEF r, s
<1>8. ~(ClassRank[r.class] > ClassRank[s.class])
  <2>1. NameScore(r) \in Int /\ NameScore(s) \in Int
    BY <1>5, <1>6
  <2>2. ~(NameScore(r) > NameScore(s))
    BY <1>7, <2>1
  <2>3. QED
    BY <1>5, <2>2, ClassesApart
<1>9. r.class = s.class /\ r.sim >= s.sim
  <2>1. /\ r.class \in {"exact", "prefix", "fuzzy"} /\ r.sim \in 0 .. 10
        /\ s.class \in {"exact", "prefix", "fuzzy"} /\ s.sim \in 0 .. 10
    BY <1>5, <1>6
  <2>2. QED
    BY <1>7, <1>8, <2>1 DEF NameOrder, ClassRank
<1>10. QED
  BY <1>9 DEF r, s

\* _normalise keeps the order of the accounts, and its unit is not 0.
LEMMA NormaliseKeepsOrder ==
    ASSUME NEW v \in [1 .. 3 -> Int]
    PROVE  /\ Unit(v) \in Nat \ {0}
           /\ \A x \in 1 .. 3 : Normalised(v, x) \in Int
           /\ \A x, y \in 1 .. 3 : v[x] >= v[y] => Normalised(v, x) >= Normalised(v, y)
           /\ \A x, y \in 1 .. 3 : v[x] > v[y] => Normalised(v, x) > Normalised(v, y)
<1> DEFINE S == {v[x] : x \in DOMAIN v}
           hi == Max(S)
           lo == Min(S)
<1>1. /\ hi \in Int /\ lo \in Int /\ lo <= hi
      /\ \A x \in 1 .. 3 : lo <= v[x] /\ v[x] <= hi
  <2>1. S = {v[1], v[2], v[3]}
    <3>1. DOMAIN v = 1 .. 3 /\ 1 .. 3 = {1, 2, 3}
      OBVIOUS
    <3>2. QED
      BY <3>1
  <2>2. IsFiniteSet(S)
    <3>1. IsFiniteSet({v[1]} \cup {v[2]} \cup {v[3]})
      BY FS_Singleton, FS_Union
    <3>2. S = {v[1]} \cup {v[2]} \cup {v[3]}
      BY <2>1
    <3>3. QED
      BY <3>1, <3>2
  <2>3. S # {} /\ S \subseteq Int /\ \A x \in 1 .. 3 : v[x] \in S
    OBVIOUS
  <2>4. /\ hi \in S /\ \A x \in S : hi >= x
        /\ lo \in S /\ \A x \in S : lo <= x
    BY <2>2, <2>3, Extremes
  <2> HIDE DEF S, hi, lo
  <2>5. hi \in Int /\ lo \in Int
    BY <2>3, <2>4
  <2>6. lo <= hi
    BY <2>4
  <2>7. QED
    BY <2>3, <2>4, <2>5, <2>6
<1>2. Spread(v) = hi - lo /\ Lowest(v) = lo
  BY DEF Spread, Lowest
<1> HIDE DEF S, hi, lo
<1>3. Unit(v) \in Nat \ {0}
  BY <1>1, <1>2 DEF Unit
<1>4. ASSUME Spread(v) = 0, NEW x \in 1 .. 3 PROVE v[x] = lo
  BY <1>1, <1>2, <1>4
<1>5. CASE Spread(v) = 0
  <2>1. \A x \in 1 .. 3 : Normalised(v, x) = 1 /\ v[x] = lo
    BY <1>4, <1>5 DEF Normalised
  <2>2. QED
    BY <1>1, <1>3, <2>1
<1>6. CASE Spread(v) # 0
  <2>1. \A x \in 1 .. 3 : Normalised(v, x) = v[x] - lo
    BY <1>2, <1>6 DEF Normalised
  <2>2. QED
    BY <1>1, <1>3, <2>1
<1>7. QED
  BY <1>5, <1>6

(* BetterAccountAhead: both signals keep their order and are weighed with   *)
(* positive factors.                                                        *)
LEMMA BetterComesFirst == BetterAccountAhead
<1>1. SUFFICES ASSUME NEW a \in [1 .. 3 -> Levels], NEW held \in SUBSET (1 .. 3),
                      NEW c \in [1 .. 3 -> Cosines], NEW hits \in Nearest(held, c)
               PROVE  \E b \in {Filled(hits)} : \A x, y \in 1 .. 3 :
                        a[x] >= a[y] /\ b[x] >= b[y] /\ <<a[x], b[x]>> # <<a[y], b[y]>>
                            => AccountScore(a, b, x) > AccountScore(a, b, y)
  BY DEF BetterAccountAhead
<1> DEFINE b == Filled(hits)
<1>2. a \in [1 .. 3 -> Int]
  BY Tried
<1>3. b \in [1 .. 3 -> Int]
  <2>1. PICK top \in Best(NearestLimit, c, held) : hits = [x \in top |-> c[x]]
    BY DEF Nearest
  <2>2. top \subseteq 1 .. 3
    BY <2>1 DEF Best
  <2>3. \A x \in DOMAIN hits : hits[x] \in Int
    BY <2>1, <2>2, Tried
  <2>4. QED
    BY <2>3 DEF Filled
<1> HIDE DEF b
<1>4. ASSUME NEW x \in 1 .. 3, NEW y \in 1 .. 3,
             a[x] >= a[y], b[x] >= b[y], <<a[x], b[x]>> # <<a[y], b[y]>>
      PROVE  AccountScore(a, b, x) > AccountScore(a, b, y)
  <2> DEFINE ax == Normalised(a, x)
             ay == Normalised(a, y)
             bx == Normalised(b, x)
             by == Normalised(b, y)
             ua == Unit(a)
             ub == Unit(b)
  <2>1. /\ ua \in Nat \ {0} /\ ax \in Int /\ ay \in Int /\ ax >= ay
        /\ a[x] > a[y] => ax > ay
    BY <1>2, <1>4, NormaliseKeepsOrder
  <2>2. /\ ub \in Nat \ {0} /\ bx \in Int /\ by \in Int /\ bx >= by
        /\ b[x] > b[y] => bx > by
    BY <1>3, <1>4, NormaliseKeepsOrder
  <2>3. a[x] > a[y] \/ b[x] > b[y]
    BY <1>2, <1>3, <1>4
  <2>4. ax > ay \/ bx > by
    BY <2>1, <2>2, <2>3
  <2>5. /\ AccountScore(a, b, x) = 6 * ax * ub + 4 * bx * ua
        /\ AccountScore(a, b, y) = 6 * ay * ub + 4 * by * ua
    BY DEF AccountScore
  <2> HIDE DEF ax, ay, bx, by, ua, ub
  <2>6. /\ ax * ub \in Int /\ ay * ub \in Int /\ ax * ub >= ay * ub
        /\ ax > ay => ax * ub > ay * ub
    BY <2>1, <2>2, Products
  <2>7. /\ bx * ua \in Int /\ by * ua \in Int /\ bx * ua >= by * ua
        /\ bx > by => bx * ua > by * ua
    BY <2>1, <2>2, Products
  <2>8. /\ 6 * ax * ub = 6 * (ax * ub) /\ 4 * bx * ua = 4 * (bx * ua)
        /\ 6 * ay * ub = 6 * (ay * ub) /\ 4 * by * ua = 4 * (by * ua)
    BY <2>1, <2>2
  <2>9. 6 * (ax * ub) + 4 * (bx * ua) > 6 * (ay * ub) + 4 * (by * ua)
    BY <2>4, <2>6, <2>7
  <2>10. QED
    BY <2>5, <2>8, <2>9
<1>5. QED
  BY <1>4 DEF b

(* LargerCommunityAhead: the score grows with the size of what is similar.  *)
LEMMA LargerComesFirst == LargerCommunityAhead
<1>1. SUFFICES ASSUME NEW table \in Tables, NEW answer \in CommunityAnswers(table, 1)
               PROVE  /\ Ranked(table) # {} => answer # {}
                      /\ \A i \in Ranked(table) \ answer, j \in answer :
                           table[i].sim >= table[j].sim /\ table[i].level >= table[j].level
                               /\ table[i].sim > 0
                             => CommunityScore(table[i]) = CommunityScore(table[j])
  BY DEF LargerCommunityAhead
<1> DEFINE ranked == Ranked(table)
           score == [i \in ranked |-> CommunityScore(table[i])]
<1>2. /\ answer \in SUBSET ranked
      /\ Cardinality(answer) = IF Cardinality(ranked) < 1 THEN Cardinality(ranked) ELSE 1
      /\ \A t \in answer, u \in ranked \ answer : score[u] <= score[t]
  BY DEF CommunityAnswers, Best
<1>3. IsFiniteSet(ranked)
  <2>1. ranked \subseteq 1 .. 2
    BY DEF Ranked, Tables
  <2>2. IsFiniteSet(1 .. 2)
    <3>1. 1 \in Int /\ 2 \in Int
      OBVIOUS
    <3>2. QED
      BY <3>1, FS_Interval, Zenon
  <2>3. QED
    BY <2>1, <2>2, FS_Subset
<1>4. ASSUME ranked # {} PROVE answer # {}
  <2>1. Cardinality(ranked) \in Nat /\ Cardinality(ranked) # 0
    BY <1>3, <1>4, FS_CardinalityType, FS_EmptySet
  <2>2. Cardinality(answer) = 1
    BY <1>2, <2>1
  <2>3. QED
    BY <2>2, FS_EmptySet
<1>5. ASSUME NEW i \in ranked \ answer, NEW j \in answer,
             table[i].sim >= table[j].sim, table[i].level >= table[j].level,
             table[i].sim > 0
      PROVE  CommunityScore(table[i]) = CommunityScore(table[j])
  <2> DEFINE m == table[i].sim
             n == table[j].sim
             u == 10 + table[i].level
             v == 10 + table[j].level
  <2>1. i \in 1 .. 2 /\ j \in 1 .. 2
    BY <1>2 DEF Ranked, Tables
  <2>2. /\ table[i].sim \in Int /\ table[j].sim \in Int
        /\ table[i].level \in Nat /\ table[j].level \in Nat
    BY <2>1, Tried DEF Tables
  <2>3. m \in Nat \ {0} /\ n \in Int /\ m >= n
    BY <1>5, <2>2
  <2>4. u \in Nat \ {0} /\ v \in Nat \ {0} /\ u \in Int /\ v \in Int /\ u >= v
    BY <1>5, <2>2
  <2>5. CommunityScore(table[i]) = m * u /\ CommunityScore(table[j]) = n * v
    BY DEF CommunityScore
  <2>6. CommunityScore(table[i]) <= CommunityScore(table[j])
    BY <1>2, <1>5
  <2> HIDE DEF m, n, u, v
  <2>7. u * m \in Int /\ u * m >= v * m
    BY <2>3, <2>4, Products
  <2>8. n * v \in Int /\ m * v >= n * v
    BY <2>3, <2>4, Products
  <2>9. u * m = m * u /\ v * m = m * v /\ v * m \in Int
    BY <2>3, <2>4
  <2>10. QED
    BY <2>5, <2>6, <2>7, <2>8, <2>9
<1>6. QED
  BY <1>2, <1>4, <1>5

(* In no search is an answer left out for one that is worse by each of the  *)
(* criteria which that search weighs, and posts do not make up for a class  *)
(* of names.  The run asks it once, of a few values each; here it is shown  *)
(* of every number of levels and tenths that a column and a similarity can  *)
(* have, and for every limit of the searches below (tags.py:55-170,         *)
(* account_name.py:61-99, general.py:269-316, search/communities.py:32-102).*)
THEOREM WorseStaysBehind == WorseBehind /\ (Spec => []WorseNeverAhead)
<1>1. WorseBehind
  BY NameComesFirst, BetterTagComesFirst, PostsStayBehind, BetterComesFirst, LargerComesFirst
     DEF WorseBehind
<1>2. WorseNeverAhead
  BY <1>1 DEF WorseNeverAhead
<1>3. QED
  BY <1>1, <1>2, PTL
=============================================================================
