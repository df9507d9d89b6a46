----------------------------- MODULE Resolvers -----------------------------
(***************************************************************************)
(* How the other searches score their answers: tags                         *)
(* (src/mir/search/tags.py), accounts by name (account_name.py), accounts   *)
(* of the general search (general.py) and communities (communities.py).     *)
(* Cosines and similarities are in tenths, log2(1 + n) is a number of       *)
(* levels, and each score is multiplied by what makes it an integer.        *)
(***************************************************************************)
EXTENDS Integers, FiniteSetsExt

CONSTANTS
    PrefixLimit,    \* LIMIT of the prefix search: 20
    NearestLimit,   \* limit of the searches in Qdrant: 30 tags, 50 accounts
    Levels,         \* the values of log2(1 + count) that are tried
    Cosines         \* the similarities that are tried, in tenths

ASSUME ResolversAssumption ==
    /\ {PrefixLimit, NearestLimit} \subseteq Nat \ {0}
    /\ Levels \subseteq 0 .. 31     \* the columns are 32-bit integers
    /\ Cosines \subseteq -10 .. 10

\* What a sort by value, descending, and a cut at n may leave: ties in any order.
Best(n, value, rows) ==
    {top \in SUBSET rows :
        /\ Cardinality(top) = IF Cardinality(rows) < n THEN Cardinality(rows) ELSE n
        /\ \A t \in top, u \in rows \ top : value[u] <= value[t]}

\* search_tags and search_accounts of QdrantManager: the nearest points.
Nearest(points, cosine) ==
    {[x \in hits |-> cosine[x]] : hits \in Best(NearestLimit, cosine, points)}

-----------------------------------------------------------------------------
(* search_tags.  q.exact, q.prefix: the tags whose name is, or begins with, *)
(* the query; q.level: their usage; q.sem: Qdrant's hits.                   *)

\* ORDER BY usage_count DESC LIMIT 20.
PrefixRows(q) == Best(PrefixLimit, q.level, q.prefix)

\* Exact, prefix and semantic hits, each tag once.
Merged(q, rows) == q.exact \cup rows \cup DOMAIN q.sem

\* A tag that Qdrant did not return has similarity 0.
CosineOf(q, t) == IF t \in DOMAIN q.sem THEN q.sem[t] ELSE 0

\* max_log_usage, and 1 instead of 0.
MaxLevel(q, rows) == Max({1} \cup {q.level[t] : t \in Merged(q, rows)})

\* Mutant: the usage is not divided by max_log_usage.
TagScoreRaw(q, rows, t) ==
    MaxLevel(q, rows) * ((IF t \in q.exact THEN 100 ELSE 0) + 6 * CosineOf(q, t) + 30 * q.level[t])

\* 1.0 is_exact + 0.6 cosine_sim + 0.3 log_usage / max_log_usage, times 100 * MaxLevel.
TagScore(q, rows, t) ==
    MaxLevel(q, rows) * ((IF t \in q.exact THEN 100 ELSE 0) + 6 * CosineOf(q, t)) + 30 * q.level[t]

\* results[:limit], for what the prefix search returned.
TagAnswers(q, rows, limit) ==
    Best(limit, [t \in Merged(q, rows) |-> TagScore(q, rows, t)], Merged(q, rows))

\* Three tags, the first with the name that is asked for.
TagQueries ==
    {[exact |-> {1}, prefix |-> {1} \cup p, level |-> l, sem |-> s] :
        p \in SUBSET {2, 3}, l \in [1 .. 3 -> Levels],
        s \in UNION {Nearest(points, c) : points \in SUBSET (1 .. 3), c \in [1 .. 3 -> Cosines]}}

(* The tag whose name was typed is in every answer, even of one tag,        *)
(* however popular or similar others are and whatever the two limits leave  *)
(* out, as long as Qdrant does not hold it to be the opposite of itself     *)
(* (tags.py:55-170).                                                        *)
ExactTagFirst ==
    \A q \in TagQueries : CosineOf(q, 1) >= 0 =>
        \A rows \in PrefixRows(q) : \A answer \in TagAnswers(q, rows, 1) : answer = {1}

(* Of the tags that were found, none is left out for one of a smaller or    *)
(* equal similarity and usage, unless that one has the name or the scores   *)
(* are equal.  The similarity is the one Qdrant returned: a tag beyond its  *)
(* limit counts as dissimilar (tags.py:96-108, 146-152).                    *)
BetterTagAhead ==
    \A q \in TagQueries, limit \in 1 .. 2 :
      \A rows \in PrefixRows(q) : \A answer \in TagAnswers(q, rows, limit) :
        \A t \in Merged(q, rows) \ answer, u \in answer \ q.exact :
            CosineOf(q, t) >= CosineOf(q, u) /\ q.level[t] >= q.level[u]
                => TagScore(q, rows, t) = TagScore(q, rows, u)

-----------------------------------------------------------------------------
(* search_accounts_by_name.                                                 *)

ClassRank == [exact |-> 2, prefix |-> 1, fuzzy |-> 0]

\* The rows the WHERE lets through; the name itself has similarity 1.
NameRows ==
    {r \in [class : DOMAIN ClassRank, sim : 0 .. 10, level : Levels] :
        (r.class = "exact" => r.sim = 10) /\ (r.class = "fuzzy" => r.sim > 3)}

\* ORDER BY is_exact DESC, is_prefix DESC, sim DESC; the name itself is its prefix.
NameOrder(r) == 11 * ClassRank[r.class] + r.sim

\* What LIMIT leaves: the answer, which nothing sorts again.
NameAnswers(table, limit) ==
    Best(limit, [i \in DOMAIN table |-> NameOrder(table[i])], DOMAIN table)

\* The score that is shown: (10 is_exact + 5 is_prefix + sim)
\* (1 + 0.05 log2(1 + total_posts)), times 200.
NameScore(r) ==
    ((IF r.class = "exact" THEN 150 ELSE IF r.class = "prefix" THEN 50 ELSE 0) + r.sim) * (20 + r.level)

\* Two accounts; names are unique.
NameTables == {table \in [1 .. 2 -> NameRows] : \E i \in 1 .. 2 : table[i].class # "exact"}

(* The answer is not in the order of the scores it shows.  An account can   *)
(* be left out for one that scores less, but only for one of its own class  *)
(* that is as similar or more: number of posts never outranks the class, up *)
(* to the largest total_posts that the column can hold, and is not looked   *)
(* at within it (account_name.py:61-99).                                    *)
PostsDoNotOutrank ==
    \A table \in NameTables : \A answer \in NameAnswers(table, 1) :
        \A i \in answer, j \in DOMAIN table \ answer :
            NameScore(table[j]) > NameScore(table[i])
                => table[i].class = table[j].class /\ table[i].sim >= table[j].sim

-----------------------------------------------------------------------------
(* _score_accounts: a from the posts of the accounts, b from their vectors; *)
(* an account without either has 0 there.                                   *)

Lowest(v) == Min({v[x] : x \in DOMAIN v})
Spread(v) == Max({v[x] : x \in DOMAIN v}) - Lowest(v)

\* _normalise, times what makes it an integer: all are 1 when all are equal.
Normalised(v, x) == IF Spread(v) = 0 THEN 1 ELSE v[x] - Lowest(v)
Unit(v) == IF Spread(v) = 0 THEN 1 ELSE Spread(v)

\* 0.6 norm_a + 0.4 norm_b, times 10 and both units.
AccountScore(a, b, x) == 6 * Normalised(a, x) * Unit(b) + 4 * Normalised(b, x) * Unit(a)

\* An account among the nearest has its similarity, any other has 0.
Filled(hits) == [x \in 1 .. 3 |-> IF x \in DOMAIN hits THEN hits[x] ELSE 0]

(* An account that is ahead in one signal and not behind in the other is    *)
(* ahead in the answer (general.py:269-316).                                *)
BetterAccountAhead ==
    \A a \in [1 .. 3 -> Levels], points \in SUBSET (1 .. 3), c \in [1 .. 3 -> Cosines] :
        \A hits \in Nearest(points, c) : \E b \in {Filled(hits)} : \A x, y \in 1 .. 3 :
            a[x] >= a[y] /\ b[x] >= b[y] /\ <<a[x], b[x]>> # <<a[y], b[y]>>
                => AccountScore(a, b, x) > AccountScore(a, b, y)

-----------------------------------------------------------------------------
\* community_score: cosine_sim (1 + 0.1 log2(1 + member_count)), times 100.
CommunityScore(c) == c.sim * (10 + c.level)

\* What search_communities ranks: rows whose centroid is neither NULL nor zero.
Ranked(table) == {i \in DOMAIN table : table[i].centroid = "vector"}

\* scored[:limit].
CommunityAnswers(table, limit) ==
    Best(limit, [i \in Ranked(table) |-> CommunityScore(table[i])], Ranked(table))

Tables ==
    [1 .. 2 -> [centroid : {"NULL", "zero", "vector"}, sim : Cosines, level : Levels]]

(* A community that can be compared with the query is not left out for one  *)
(* that cannot, nor for one that is no larger and no closer, unless both    *)
(* are about the opposite: there the larger one comes last                  *)
(* (search/communities.py:32-39, 68-102).                                   *)
LargerCommunityAhead ==
    \A table \in Tables : \A answer \in CommunityAnswers(table, 1) :
        /\ Ranked(table) # {} => answer # {}
        /\ \A i \in Ranked(table) \ answer, j \in answer :
             table[i].sim >= table[j].sim /\ table[i].level >= table[j].level /\ table[i].sim > 0
                => CommunityScore(table[i]) = CommunityScore(table[j])

(* In no search is an answer left out for one that is worse by each of the  *)
(* criteria which that search weighs; by how much one criterion may make up *)
(* for another is a matter of the weights.  Names of accounts are ordered   *)
(* by class and similarity only, whatever score they show.                  *)
WorseBehind ==
    /\ ExactTagFirst
    /\ BetterTagAhead
    /\ PostsDoNotOutrank
    /\ BetterAccountAhead
    /\ LargerCommunityAhead
=============================================================================
