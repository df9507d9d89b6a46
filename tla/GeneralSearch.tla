--------------------------- MODULE GeneralSearch ---------------------------
(***************************************************************************)
(* The general search: src/mir/search/general.py, as functions of what the  *)
(* database and Qdrant return.  A list of hits is a sequence of posts, best *)
(* first; the scores the stores give are used only for that order, in which *)
(* equal scores come as the store likes.  Scores are integers: Scale stands *)
(* for 1, so that every 1 / (k + rank) that occurs is exact.                *)
(***************************************************************************)
EXTENDS Integers, Sequences, SequencesExt, FiniteSets

CONSTANTS
    Post,       \* ids of the posts
    KwScore,    \* KwScore[p]: ts_rank_cd of a post that matches the query's words
    VecOrders,  \* the orders in which Qdrant may find the posts
    Undated,    \* the posts without published_at
    Lead,       \* Lead[p]: half-lives until published_at, 0 when it is past
    KwLimit,    \* LIMIT of the keyword search: 100
    VecLimit,   \* limit of the vector search: 100
    PageLimit,  \* limit_posts of the request
    RrfK,       \* settings.rrf_k
    Scale,      \* a common multiple of the k + rank that occur
    Tolerance,  \* 1e-9, in the units of the scores
    MaxAge      \* bound: half-lives that pass in a behaviour

Hits(list) == {list[i] : i \in DOMAIN list}
First(list, n) == SubSeq(list, 1, IF n < Len(list) THEN n ELSE Len(list))

\* ORDER BY kw_score DESC: ties in any order.
KwOrders ==
    {order \in SetToSeqs(DOMAIN KwScore) :
        \A i, j \in DOMAIN order : i < j => KwScore[order[i]] >= KwScore[order[j]]}

ASSUME SearchAssumption ==
    /\ Post \subseteq Nat \ {0} /\ IsFiniteSet(Post)
    /\ DOMAIN KwScore \subseteq Post /\ KwScore \in [DOMAIN KwScore -> Nat]
    /\ VecOrders \subseteq SetToSeqs(Post)
    /\ Undated \subseteq Post /\ Lead \in [Post -> Nat]
    /\ {KwLimit, VecLimit, PageLimit, Scale} \subseteq Nat \ {0}
    /\ {RrfK, MaxAge, Tolerance} \subseteq Nat
    /\ \A rank \in 1 .. KwLimit \cup 1 .. VecLimit : Scale % (RrfK + rank) = 0

\* _keyword_search: posts that match and are not NSFW, the first KwLimit.
KeywordHits(order, sfw) == First(SelectSeq(order, LAMBDA p : p \in sfw), KwLimit)

\* QdrantManager.search_posts: the points whose payload says nsfw = false.
VectorHits(order, points) == First(SelectSeq(order, LAMBDA p : p \in points), VecLimit)

\* What a list adds to the fused score of a post: 1 / (k + rank).
Share(list, p) ==
    IF p \in Hits(list)
      THEN Scale \div (RrfK + CHOOSE rank \in DOMAIN list : list[rank] = p)
      ELSE 0

\* reciprocal_rank_fusion of the two lists.
Fused(kw, vec) ==
    [p \in Hits(kw) \cup Hits(vec) |-> Share(kw, p) + Share(vec, p)]

\* The age that rerank_score gives a post: always one half-life without a date,
\* and none before its date.  What a post has decayed at the start is in its boost.
HalfLives(p, age) ==
    IF p \in Undated THEN 1 ELSE IF age > Lead[p] THEN age - Lead[p] ELSE 0

\* rerank_score: the boost of the note_count times recency.
Rerank(rrf, boost, p, age) == rrf * boost[p] * 2 ^ (MaxAge + 1 - HalfLives(p, age))

\* The scores of the candidates whose metadata was found.
Scores(kw, vec, found, boost, age) ==
    LET rrf == Fused(kw, vec) IN
    [p \in DOMAIN rrf \cap found |-> Rerank(rrf[p], boost, p, age)]

\* Descending score, ties by descending id.
Before(score, p, q) == score[p] > score[q] \/ (score[p] = score[q] /\ p > q)
Ranking(score) ==
    [i \in 1 .. Cardinality(DOMAIN score) |->
        CHOOSE p \in DOMAIN score :
            Cardinality({q \in DOMAIN score : Before(score, q, p)}) = i - 1]

-----------------------------------------------------------------------------
(* Pages.  A cursor names the last post of a page and the score it had.     *)

NoCursor == [id |-> 0, score |-> 0]
Cursor(p, s) == [id |-> p, score |-> s]

\* The posts that do not score below the cursor by more than the tolerance.
NotBelow(ranking, score, cursor) ==
    Cardinality({i \in DOMAIN ranking : score[ranking[i]] >= cursor.score - Tolerance})

\* Mutant: the page starts after the posts that score at least the cursor.
SkippedByScore(ranking, score, cursor) == NotBelow(ranking, score, cursor)

\* How many posts of the ranking come before the page: up to the cursor's post,
\* or, when it is gone, all that do not score below the cursor.
Skipped(ranking, score, cursor) ==
    IF cursor.id \in DOMAIN score
      THEN CHOOSE i \in DOMAIN ranking : ranking[i] = cursor.id
      ELSE NotBelow(ranking, score, cursor)

\* The page after the cursor and the cursor of the next page, if there is one.
Page(ranking, score, cursor) ==
    LET start == IF cursor = NoCursor THEN 0 ELSE Skipped(ranking, score, cursor)
        rest == SubSeq(ranking, start + 1, Len(ranking))
    IN [posts |-> First(rest, PageLimit),
        next |-> IF Len(rest) > PageLimit
                   THEN Cursor(rest[PageLimit], score[rest[PageLimit]])
                   ELSE NoCursor]
=============================================================================
