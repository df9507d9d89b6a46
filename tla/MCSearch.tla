------------------------------ MODULE MCSearch ------------------------------
(***************************************************************************)
(* A small instance of SearchApi.  Posts 2, 1 and 3 score 6, 6 and 4.  When *)
(* the note count of post 1 doubles its score, it comes before post 2, so   *)
(* that a page computed before and one computed after name each other as    *)
(* next.  Post 4, when it is crawled, pushes post 3 out of the keyword      *)
(* hits; posts 2 and 3 rank alike there.  The scores of the other searches  *)
(* are checked with it.                                                     *)
(***************************************************************************)
EXTENDS SearchApi, Resolvers

FourPosts == 1 .. 4
KeywordRanks == (2 :> 1) @@ (3 :> 1) @@ (4 :> 2)
Keywords == <<4, 2, 3>>
Neighbours == <<1, 2, 3, 4>>
OneOrder == {Neighbours}
NoBoosts == <<1, 1, 1, 1>>
BoostsOfOne == <<{1, 2}, {1}, {1}, {1}>>
AllPast == <<0, 0, 0, 0>>
Usage == {0, 4, 31}
Similarities == {-10, 0, 4, 10}

\* TLC evaluates the other searches on all their inputs before the first request.
Untouched == edits = 0 /\ cache = {} /\ seen = [r \in Reader |-> [p \in Post |-> 0]]
                 /\ req = [r \in Reader |-> Closed]

(* In no search is an answer left out for one that is worse by each of the  *)
(* criteria which that search weighs: for tags the name, similarity and     *)
(* usage, for accounts by name class and similarity, but not the posts that *)
(* their score counts, for accounts of the general search both signals, for *)
(* communities similarity and size (tags.py:55-170, account_name.py:61-99,  *)
(* general.py:269-316, search/communities.py:32-102).                       *)
WorseNeverAhead == Untouched => WorseBehind
=============================================================================
