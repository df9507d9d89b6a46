------------------------------ MODULE MCCrawl ------------------------------
(***************************************************************************)
(* Small instances of Crawl.  Two blogs: a is a seed, z is known only from  *)
(* a reblog.  The values that differ between runs are in the .cfg files.    *)
(***************************************************************************)
EXTENDS Crawl, TLC

CONSTANTS a, z, a1, a2, a3, a4, z1, z2

WorkerSymmetry == Permutations(Workers)

\* One blog of four posts.
BlogOfA == [p \in Posts |-> a]
StampA == [p \in Posts |-> (a1 :> 1 @@ a2 :> 2 @@ a3 :> 3 @@ a4 :> 4)[p]]
SourcesA == [p \in Posts |-> {}]

\* Two blogs; the newest post of each reblogs from the other.
BlogOfAZ == [p \in Posts |-> IF p \in {z1, z2} THEN z ELSE a]
StampAZ == [p \in Posts |-> (a1 :> 1 @@ a2 :> 2 @@ a3 :> 3 @@ z1 :> 1 @@ z2 :> 2)[p]]
\* Two posts of one timestamp, and one of none.
StampTies == [p \in Posts |-> (a1 :> 2 @@ a2 :> 2 @@ a3 :> None @@ z1 :> 1)[p]]
SourcesAZ == [p \in Posts |-> IF p = a2 THEN {z} ELSE IF p = z2 THEN {a} ELSE {}]

=============================================================================
