---------------------------- MODULE CrawlBudget ----------------------------
(***************************************************************************)
(* What the threshold guards of the crawler promise, without blogs, rows,   *)
(* cursors or sessions.  settings.target_post_count is a soft cap on the    *)
(* number of SFW posts: a worker looks at the count before it fetches a     *)
(* page and commits the page later, so every worker that was admitted while *)
(* the count was below the target may still add one page to it.  Crawl.tla  *)
(* implements this module (Crawl!BudgetSpec).                               *)
(***************************************************************************)
EXTENDS Integers

CONSTANTS
    Pool,       \* number of processes that run crawl_blog tasks
    Target,     \* settings.target_post_count
    PageSize    \* most posts one API page brings

ASSUME BudgetAssumption ==
    /\ Pool \in Nat
    /\ Target \in Nat \ {0}
    /\ PageSize \in Nat \ {0}

VARIABLES
    count,      \* committed posts with nsfw = false
    admitted    \* workers past the pre-fetch guard, page not yet committed

vars == <<count, admitted>>

Init ==
    /\ count = 0
    /\ admitted = 0

\* Mutant: the guard compares with <=.
AdmitAtTarget ==
    /\ count <= Target
    /\ admitted < Pool
    /\ admitted' = admitted + 1
    /\ UNCHANGED count

\* The pre-fetch guard lets a worker through.
Admit ==
    /\ count < Target
    /\ admitted < Pool
    /\ admitted' = admitted + 1
    /\ UNCHANGED count

\* Mutant: a worker fetches its next page without passing the guard again.
DeliverAndStay ==
    /\ admitted > 0
    /\ \E n \in 0..PageSize : count' = count + n
    /\ count' <= Target + PageSize * Pool
    /\ UNCHANGED admitted

\* A worker commits its page: up to PageSize posts that were not there.
Deliver ==
    /\ admitted > 0
    /\ \E n \in 0..PageSize : count' = count + n
    /\ admitted' = admitted - 1

\* A fetch fails or finds the blog exhausted, or the worker is aborted.
Withdraw ==
    /\ admitted > 0
    /\ admitted' = admitted - 1
    /\ UNCHANGED count

\* Mutant: a post is reclassified twice.
RetractTwice ==
    /\ count > 0
    /\ count' = count - 2
    /\ UNCHANGED admitted

\* The processing pipeline reclassifies a post as NSFW.
Retract ==
    /\ count > 0
    /\ count' = count - 1
    /\ UNCHANGED admitted

Next == Admit \/ Deliver \/ Withdraw \/ Retract

Spec == Init /\ [][Next]_vars

-----------------------------------------------------------------------------

\* The state variables range over what they stand for.
TypeOK ==
    /\ count \in Nat
    /\ admitted \in 0..Pool

\* However many workers race past the threshold guard of crawler.py:260, the
\* number of SFW posts exceeds the target by at most one page per worker,
\* less the one post that was missing when the last guard passed.
BudgetBound == count <= Target - 1 + PageSize * Pool

\* The inductive form: pages still in flight are charged in advance.
BudgetInv == count + PageSize * admitted <= Target - 1 + PageSize * Pool

=============================================================================
