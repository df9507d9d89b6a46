------------------------- MODULE CrawlBudgetProofs -------------------------
(***************************************************************************)
(* The abstract soft cap holds for every pool of workers, target and page   *)
(* size.                                                                    *)
(***************************************************************************)
EXTENDS CrawlBudget, TLAPS

\* Pages are charged one by one.
LEMMA Charge ==
    ASSUME NEW n \in Int
    PROVE  /\ PageSize * n \in Int
           /\ PageSize * (n + 1) = PageSize * n + PageSize
           /\ PageSize * (n - 1) = PageSize * n - PageSize
           /\ n >= 0 => PageSize * n >= 0
           /\ n <= Pool => PageSize * n <= PageSize * Pool
BY BudgetAssumption

LEMMA SumOfBounds ==
    ASSUME NEW a \in Int, NEW b \in Int, NEW c \in Int, NEW d \in Int,
           a <= c - 1, b <= d
    PROVE  a + b <= c - 1 + d
OBVIOUS

BudgetIInv == TypeOK /\ BudgetInv

LEMMA BudgetInit == Init => BudgetIInv
<1>1. PageSize * Pool \in Nat /\ PageSize * 0 = 0
  BY BudgetAssumption
<1>2. QED
  BY <1>1, BudgetAssumption DEF Init, BudgetIInv, TypeOK, BudgetInv

LEMMA BudgetNext == BudgetIInv /\ [Next]_vars => BudgetIInv'
<1> SUFFICES ASSUME BudgetIInv, [Next]_vars PROVE BudgetIInv'
  OBVIOUS
<1> DEFINE x == PageSize * admitted
           y == PageSize * Pool
<1>a. /\ count \in Nat /\ admitted \in Int /\ 0 <= admitted /\ admitted <= Pool
      /\ Pool \in Int /\ Target \in Int /\ PageSize \in Nat
  BY BudgetAssumption DEF BudgetIInv, TypeOK
<1>b. x \in Int /\ y \in Int /\ count + x <= Target - 1 + y
  BY <1>a, Charge DEF BudgetIInv, BudgetInv
<1> HIDE DEF x, y
<1>1. CASE Admit
  <2>1. /\ TypeOK' /\ count' \in Nat /\ count' <= Target - 1
        /\ admitted' = admitted + 1 /\ admitted' <= Pool
    BY <1>a, <1>1 DEF Admit, TypeOK
  <2>2. PageSize * admitted' \in Int /\ PageSize * admitted' <= PageSize * Pool
    <3>1. admitted' \in Int
      BY <1>a, <2>1
    <3>2. QED
      BY <2>1, <3>1, Charge
  <2> DEFINE z == PageSize * admitted'
  <2>3. z \in Int /\ z <= y
    BY <2>2 DEF y
  <2> HIDE DEF z
  <2>4. count' + z <= Target - 1 + y
    <3>1. count' \in Int /\ Target \in Int /\ y \in Int
      BY <1>a, <1>b, <2>1
    <3>2. QED
      BY <2>1, <2>3, <3>1, SumOfBounds
  <2>5. BudgetInv'
    BY <2>4 DEF BudgetInv, y, z
  <2>6. QED
    BY <2>1, <2>5 DEF BudgetIInv
<1>2. CASE Deliver \/ Withdraw
  <2>1. TypeOK' /\ admitted' = admitted - 1
    BY <1>a, <1>2 DEF Deliver, Withdraw, TypeOK
  <2>2. PageSize * admitted' = x - PageSize
    <3>1. PageSize * (admitted - 1) = x - PageSize
      BY <1>a, Charge DEF x
    <3>2. QED
      BY <2>1, <3>1
  <2>3. PICK k \in 0..PageSize : count' = count + k
    BY <1>a, <1>2 DEF Deliver, Withdraw
  <2>4. count' + (x - PageSize) <= Target - 1 + y
    BY <1>a, <1>b, <2>3
  <2>5. BudgetInv'
    BY <2>2, <2>4 DEF BudgetInv, y
  <2>6. QED
    BY <2>1, <2>5 DEF BudgetIInv
<1>3. CASE Retract
  <2>1. TypeOK' /\ count' = count - 1 /\ admitted' = admitted
    BY <1>a, <1>3 DEF Retract, TypeOK, BudgetIInv
  <2>2. count' + x <= Target - 1 + y
    BY <1>a, <1>b, <2>1
  <2>3. BudgetInv'
    BY <2>1, <2>2 DEF BudgetInv, x, y
  <2>4. QED
    BY <2>1, <2>3 DEF BudgetIInv
<1>4. CASE UNCHANGED vars
  BY <1>4 DEF vars, BudgetIInv, BudgetInv, TypeOK
<1>5. QED
  BY <1>1, <1>2, <1>3, <1>4 DEF Next

\* Charging the pages in flight in advance is inductive ...
THEOREM BudgetInvariance == Spec => []BudgetIInv
BY BudgetInit, BudgetNext, PTL DEF Spec

\* so the counts are what they stand for: no more workers are admitted than
\* there are, and a verdict never takes the count below zero (tasks.py:229),
THEOREM BudgetTypes == Spec => []TypeOK
<1>1. BudgetIInv => TypeOK
  BY DEF BudgetIInv
<1>2. QED
  BY <1>1, BudgetInvariance, PTL

\* the pages in flight are always covered by the cap,
THEOREM BudgetCharged == Spec => []BudgetInv
<1>1. BudgetIInv => BudgetInv
  BY DEF BudgetIInv
<1>2. QED
  BY <1>1, BudgetInvariance, PTL

\* ... and bounds what is committed (the soft cap of crawler.py:260 and 330):
\* at most a page for each worker above the target.
THEOREM BudgetHolds == Spec => []BudgetBound
<1>1. BudgetIInv => BudgetBound
  <2> SUFFICES ASSUME BudgetIInv PROVE BudgetBound
    OBVIOUS
  <2>1. PageSize * admitted \in Int /\ PageSize * admitted >= 0
    BY Charge DEF BudgetIInv, TypeOK
  <2>2. PageSize * Pool \in Int
    BY BudgetAssumption
  <2>3. QED
    BY <2>1, <2>2, BudgetAssumption DEF BudgetIInv, BudgetInv, BudgetBound, TypeOK
<1>2. QED
  BY <1>1, BudgetInvariance, PTL

=============================================================================
