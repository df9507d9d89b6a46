-------------------------- MODULE CommunitiesProofs --------------------------
(***************************************************************************)
(* The rebuild of the communities, for every number of workers, points,     *)
(* retries and faults and every labelling: which clusters may stand side by *)
(* side, that no tag is lost between two pages of a scroll, and how many    *)
(* attempts the messages allow.                                             *)
(*                                                                          *)
(* The properties speak of the table; what makes them inductive is what an  *)
(* attempt that has inserted nothing yet knows: the rows it may meet, the   *)
(* attempts under way with it, and the points it has still to scroll.       *)
(***************************************************************************)
EXTENDS Communities, FiniteSetTheorems, WellFoundedInduction, TLAPS

-----------------------------------------------------------------------------
(* The inductive invariant.                                                 *)

Work ==
    [pc : {"idle", "clear", "scroll", "cluster"},
     msg : [id : Nat, retries : Nat],
     run : Nat,
     kind : Kinds,
     got : SUBSET (Tag \cup Account),
     next : Nat,
     owed : SUBSET (Tag \cup Account)]

Row == [kind : Kinds, members : SUBSET (Tag \cup Account), run : Nat, owed : SUBSET (Tag \cup Account)]

Types ==
    /\ points \in [Kinds -> SUBSET (Tag \cup Account)]
    /\ points["tags"] \subseteq Tag /\ points["accounts"] \subseteq Account
    /\ table \subseteq Row
    /\ work \in [Worker -> Work]
    /\ queue \subseteq Messages
    /\ requests \in 0 .. MaxRequests /\ faults \in 0 .. MaxFaults /\ runs \in Nat

\* A worker without a message is as it was.
Idling == \A w \in Worker : Busy(w) \/ work[w] = Idle

\* Every message has one carrier.
Carriers ==
    /\ \A m, n \in queue : m.id = n.id => m = n
    /\ \A w \in Worker : Busy(w) => /\ work[w].msg \in Messages
                                    /\ \A m \in queue : work[w].msg.id # m.id
    /\ \A v, w \in Worker : Busy(v) /\ Busy(w) /\ v # w => work[v].msg.id # work[w].msg.id

\* Attempts have numbers of their own, and two that are under way overlap.
Attempts ==
    /\ \A w \in Worker : Busy(w) => work[w].run \in 1 .. runs
    /\ \A v, w \in Worker : Busy(v) /\ Busy(w) /\ v # w => /\ work[v].run # work[w].run
                                                           /\ {work[v].run, work[w].run} \in overlaps

\* What an attempt has scrolled is there, and what it owes it has or will meet.
ScrollInv(w) ==
    /\ work[w].got \subseteq points[work[w].kind]
    /\ work[w].owed \subseteq points[work[w].kind]
    /\ \A i \in work[w].owed : i \in work[w].got \/ (work[w].pc = "scroll" /\ i >= work[w].next)

\* An attempt finds no rows of its own of the kind it is at, nor, once it has
\* deleted, rows of an attempt it does not overlap.
AttemptInv(w) ==
    /\ work[w].pc = "clear" => /\ work[w].kind = "tags" /\ work[w].next = 1
                               /\ work[w].got = {} /\ work[w].owed = {}
    /\ ScrollInv(w)
    /\ \A r \in table :
         /\ r.run = work[w].run => r.kind = "tags" /\ work[w].kind = "accounts"
         /\ work[w].pc # "clear" /\ r.run # work[w].run => {r.run, work[w].run} \in overlaps

RowInv(r) ==
    /\ r.members # {}
    /\ r.run \in 1 .. runs
    /\ r.kind = "tags" => \A t \in r.owed : \E s \in TagRows(r.run) : t \in s.members
    /\ \A s \in table : r # s /\ r.run = s.run /\ r.kind = s.kind => r.members \cap s.members = {}

Table ==
    /\ \A w \in Worker : Busy(w) => AttemptInv(w)
    /\ DuplicatesOverlap
    /\ \A r \in table : RowInv(r)

\* The attempts that the messages still allow.
Allowed ==
    {p \in (1 .. requests) \X (0 .. MaxRetries) :
        \/ \E m \in queue : p[1] = m.id /\ p[2] >= m.retries
        \/ \E w \in Worker : Busy(w) /\ p[1] = work[w].msg.id /\ p[2] > work[w].msg.retries}

Balance == runs + Cardinality(Allowed) <= requests * (MaxRetries + 1) + faults

IInv ==
    /\ Types
    /\ Idling
    /\ Carriers
    /\ Attempts
    /\ Table
    /\ Balance

-----------------------------------------------------------------------------
(* What the proofs need of numbers and of sets.                             *)

LEMMA Bounds ==
    /\ Tag \cup Account \subseteq Nat
    /\ MaxRetries \in Nat /\ MaxRequests \in Nat /\ MaxFaults \in Nat
BY CommunitiesAssumption

\* A set of numbers has a least one: the offset of the next page.
LEMMA MinIsLeast ==
    ASSUME NEW S, S \subseteq Nat, S # {}
    PROVE  Min(S) \in S /\ \A x \in S : Min(S) <= x
<1> DEFINE Less == {p \in Nat \X Nat : p[1] < p[2]}
<1>1. IsWellFoundedOn(Less, Nat)
  BY NatLessThanWellFounded, Zenon DEF OpToRel
<1> HIDE DEF Less
<1>2. PICK x \in S : \A y \in S : ~ (<<y, x>> \in Less)
  BY <1>1, WFMin
<1>3. ASSUME NEW y \in S
      PROVE  x <= y
  <2>1. <<y, x>> \in Nat \X Nat /\ <<y, x>> \notin Less
    BY <1>2
  <2>2. ~ (y < x)
    BY <2>1 DEF Less
  <2>3. QED
    BY <2>2
<1>4. QED
  BY <1>2, <1>3 DEF Min

\* Exactly one member of a set is counted.
LEMMA CountsOne ==
    ASSUME NEW S, NEW t, NEW s \in S, t \in s.members,
           \A r \in S : t \in r.members => r = s
    PROVE  Cardinality({r \in S : t \in r.members}) = 1
<1>1. {r \in S : t \in r.members} = {s}
  OBVIOUS
<1>2. QED
  BY <1>1, FS_Singleton

\* The workers at what they are, and what idle workers are.
LEMMA WorkTypes ==
    ASSUME Types
    PROVE  /\ Idle \in Work
           /\ \A w \in Worker : work[w] \in Work
           /\ points["tags"] \subseteq Tag /\ points["accounts"] \subseteq Account
           /\ \A w \in Worker : points[work[w].kind] \subseteq Nat /\ points[work[w].kind] \subseteq Tag \cup Account
BY Bounds DEF Types, Idle, Work, Kinds

\* The clusters of a labelling are sets of what was scrolled, disjoint and
\* not empty; together they hold what is not labelled noise.
LEMMA ClustersPart ==
    ASSUME NEW ids, NEW label
    PROVE  /\ \A c \in Clusters(ids, label) : c \subseteq ids /\ c # {}
           /\ \A c, d \in Clusters(ids, label) : c # d => c \cap d = {}
           /\ \A i \in ids : label[i] # 0 => \E c \in Clusters(ids, label) : i \in c
<1>1. \A c : c \in Clusters(ids, label) <=> \E j \in ids : label[j] # 0 /\ c = {i \in ids : label[i] = label[j]}
  BY DEF Clusters
<1>2. ASSUME NEW c \in Clusters(ids, label)
      PROVE  c \subseteq ids /\ c # {}
  BY <1>1
<1>3. ASSUME NEW c \in Clusters(ids, label), NEW d \in Clusters(ids, label), NEW i \in c \cap d
      PROVE  c = d
  <2>1. PICK j \in ids : c = {k \in ids : label[k] = label[j]}
    BY <1>1
  <2>2. PICK l \in ids : d = {k \in ids : label[k] = label[l]}
    BY <1>1
  <2>3. label[i] = label[j] /\ label[i] = label[l]
    BY <1>3, <2>1, <2>2
  <2>4. label[j] = label[l]
    BY <2>3
  <2>5. QED
    BY <2>1, <2>2, <2>4
<1>4. ASSUME NEW i \in ids, label[i] # 0
      PROVE  \E c \in Clusters(ids, label) : i \in c
  <2>1. {k \in ids : label[k] = label[i]} \in Clusters(ids, label)
    BY <1>1, <1>4
  <2>2. QED
    BY <2>1
<1>5. QED
  BY <1>2, <1>3, <1>4

-----------------------------------------------------------------------------
(* Types.                                                                   *)

LEMMA InitTypes == Init => Types
<1> SUFFICES ASSUME Init
             PROVE  Types
  OBVIOUS
<1>1. points \in [Kinds -> SUBSET (Tag \cup Account)]
      /\ points["tags"] \subseteq Tag /\ points["accounts"] \subseteq Account
  BY CommunitiesAssumption DEF Init, Kinds
<1>2. Idle \in Work
  BY DEF Idle, Work, Kinds
<1>3. work \in [Worker -> Work]
  BY <1>2 DEF Init
<1>4. QED
  BY <1>1, <1>3, Bounds DEF Types, Init

\* An exception leaves workers and messages of the right type.
LEMMA RaisesTypes ==
    ASSUME Types, Carriers, NEW w \in Worker, Busy(w), Raises(w), UNCHANGED requests
    PROVE  work' \in [Worker -> Work] /\ queue' \subseteq Messages'
<1>1. work' \in [Worker -> Work]
  BY WorkTypes DEF Raises, Types
<1>2. work[w].msg \in Messages /\ MaxRetries \in Nat
  BY Bounds DEF Carriers
<1>3. work[w].msg.retries < MaxRetries => [work[w].msg EXCEPT !.retries = @ + 1] \in Messages
  BY <1>2 DEF Messages
<1>4. queue' \subseteq Messages
  BY <1>3 DEF Raises, Types
<1>5. QED
  BY <1>1, <1>4 DEF Messages

\* The rows of an attempt.
LEMMA RowsTypes ==
    ASSUME Types, NEW w \in Worker, NEW cs, \A c \in cs : c \subseteq work[w].got
    PROVE  Rows(w, cs) \subseteq Row
<1>1. work[w] \in Work
  BY WorkTypes
<1>2. work[w].kind \in Kinds /\ work[w].got \subseteq Tag \cup Account
      /\ work[w].run \in Nat /\ work[w].owed \subseteq Tag \cup Account
  BY <1>1 DEF Work
<1>3. QED
  BY <1>2 DEF Rows, Row

LEMMA TypesKept == Types /\ Carriers /\ [Next]_vars => Types'
<1> SUFFICES ASSUME Types, Carriers, [Next]_vars
             PROVE  Types'
  OBVIOUS
<1>1. CASE Request
  <2>1. requests' \in 0 .. MaxRequests /\ Messages \subseteq Messages'
        /\ [id |-> requests + 1, retries |-> 0] \in Messages'
    BY <1>1, Bounds DEF Types, Request, Messages
  <2>2. QED
    BY <1>1, <2>1 DEF Types, Request
<1>2. ASSUME NEW w \in Worker, Begin(w)
      PROVE  Types'
  <2>1. PICK m \in queue : /\ queue' = queue \ {m}
                           /\ work' = [work EXCEPT ![w] = [Idle EXCEPT !.pc = "clear", !.msg = m, !.run = runs + 1]]
    BY <1>2 DEF Begin
  <2>2. m \in [id : Nat, retries : Nat] /\ runs' \in Nat
    BY <1>2, Bounds DEF Types, Messages, Begin
  <2>3. [Idle EXCEPT !.pc = "clear", !.msg = m, !.run = runs + 1] \in Work
    BY <2>2, <1>2 DEF Idle, Work, Kinds, Begin
  <2>4. work' \in [Worker -> Work]
    BY <2>1, <2>3 DEF Types
  <2>5. QED
    BY <1>2, <2>1, <2>2, <2>4 DEF Types, Begin, Messages
<1>3. ASSUME NEW w \in Worker, CallFails(w)
      PROVE  Types'
  <2>1. work' \in [Worker -> Work] /\ queue' \subseteq Messages'
    BY <1>3, RaisesTypes DEF CallFails
  <2>2. faults' \in 0 .. MaxFaults
    BY <1>3, Bounds DEF CallFails, Types
  <2>3. QED
    BY <1>3, <2>1, <2>2 DEF Types, CallFails
<1>4. ASSUME NEW w \in Worker, WorkerLost(w)
      PROVE  Types'
  <2>1. work' \in [Worker -> Work] /\ queue' \subseteq Messages'
    BY <1>4, WorkTypes DEF WorkerLost, Types, Carriers, Messages
  <2>2. faults' \in 0 .. MaxFaults
    BY <1>4, Bounds DEF WorkerLost, Types
  <2>3. QED
    BY <1>4, <2>1, <2>2 DEF Types, WorkerLost
<1>5. ASSUME NEW w \in Worker, Clear(w)
      PROVE  Types'
  <2>1. [[work[w] EXCEPT !.pc = "scroll"] EXCEPT !.owed = points["tags"]] \in Work
    BY WorkTypes DEF Work
  <2>2. work' \in [Worker -> Work]
    BY <1>5, <2>1 DEF Types, Clear
  <2>3. QED
    BY <1>5, <2>2 DEF Types, Clear, Messages
<1>6. ASSUME NEW w \in Worker, Scroll(w)
      PROVE  Types'
  <2> DEFINE page == FirstPage(Rest(w))
             left == Rest(w) \ page
  <2>1. page \subseteq points[work[w].kind] /\ left \subseteq points[work[w].kind]
    BY DEF FirstPage, Rest
  <2> HIDE DEF page, left
  <2>2. left # {} => Offset(left) \in Nat
    BY <2>1, WorkTypes, MinIsLeast DEF Offset
  <2>3. work' = [work EXCEPT ![w].got = @ \cup page,
                             ![w].next = IF left = {} THEN @ ELSE Offset(left),
                             ![w].pc = IF left = {} THEN "cluster" ELSE "scroll"]
    BY <1>6 DEF Scroll, page, left
  <2>4. work'[w] \in Work
    BY <2>1, <2>2, <2>3, WorkTypes DEF Work, Types
  <2>5. work' \in [Worker -> Work]
    BY <2>3, <2>4 DEF Types
  <2>6. QED
    BY <1>6, <2>5 DEF Types, Scroll, Messages
<1>7. ASSUME NEW w \in Worker, ClusterTags(w)
      PROVE  Types'
  <2>1. [work[w] EXCEPT !.pc = "scroll", !.kind = "accounts", !.got = {}, !.next = 1,
                        !.owed = points["accounts"]] \in Work
    BY WorkTypes DEF Work, Kinds
  <2>2. work' \in [Worker -> Work]
    BY <1>7, <2>1, WorkTypes DEF Types, ClusterTags, Proceed
  <2>3. table' \subseteq Row
    BY <1>7, RowsTypes, ClustersPart DEF Types, ClusterTags
  <2>4. QED
    BY <1>7, <2>2, <2>3 DEF Types, ClusterTags, Messages
<1>8. ASSUME NEW w \in Worker, SilhouetteRaises(w)
      PROVE  Types'
  <2>1. work' \in [Worker -> Work] /\ queue' \subseteq Messages'
    BY <1>8, RaisesTypes DEF SilhouetteRaises, Busy
  <2>2. QED
    BY <1>8, <2>1 DEF Types, SilhouetteRaises
<1>9. ASSUME NEW w \in Worker, ClusterAccounts(w)
      PROVE  Types'
  <2>1. work' \in [Worker -> Work]
    BY <1>9, WorkTypes DEF Types, ClusterAccounts
  <2>2. \A cs : (\A c \in cs : c \subseteq work[w].got) => Rows(w, cs) \subseteq Row
    BY RowsTypes
  <2>3. \A label : \A c \in {d \in Clusters(work[w].got, label) : Cardinality(d) >= MinCluster} :
            c \subseteq work[w].got
    BY ClustersPart
  <2>4. table' \subseteq Row
    BY <1>9, <2>2, <2>3 DEF Types, ClusterAccounts
  <2>5. QED
    BY <1>9, <2>1, <2>4 DEF Types, ClusterAccounts, Messages
<1>10. CASE \E i \in Tag : Index("tags", i)
  BY <1>10 DEF Types, Index, Kinds, Messages
<1>11. CASE \E i \in Account : Index("accounts", i)
  BY <1>11 DEF Types, Index, Kinds, Messages
<1>12. CASE UNCHANGED vars
  BY <1>12 DEF Types, vars, Messages
<1>13. QED
  BY <1>1, <1>2, <1>3, <1>4, <1>5, <1>6, <1>7, <1>8, <1>9, <1>10, <1>11, <1>12 DEF Next

-----------------------------------------------------------------------------
(* Messages.                                                                *)

\* A step that starts no attempt: every worker goes on with its attempt, or
\* has ended it.
GoesOn(w) == Busy(w)' => Busy(w) /\ work'[w].msg = work[w].msg /\ work'[w].run = work[w].run

LEMMA OnlyBeginStarts ==
    ASSUME Types, [Next]_vars
    PROVE  (\E w \in Worker : Begin(w)) \/ (\A w \in Worker : GoesOn(w))
<1>1. Idle.pc = "idle" /\ work \in [Worker -> Work]
  BY DEF Idle, Types
<1>2. CASE Request \/ (\E i \in Tag : Index("tags", i)) \/ (\E i \in Account : Index("accounts", i)) \/ UNCHANGED vars
  BY <1>2 DEF Request, Index, vars, GoesOn, Busy
<1>3. ASSUME NEW w \in Worker, Raises(w) \/ WorkerLost(w) \/ ClusterAccounts(w)
      PROVE  \A v \in Worker : GoesOn(v)
  BY <1>1, <1>3 DEF Raises, WorkerLost, ClusterAccounts, GoesOn, Busy
<1>4. ASSUME NEW w \in Worker, Clear(w) \/ Scroll(w) \/ ClusterTags(w)
      PROVE  \A v \in Worker : GoesOn(v)
  <2>1. work[w].pc # "idle"
    BY <1>4 DEF Clear, Scroll, ClusterTags
  <2>2. \A v \in Worker : v # w => work'[v] = work[v]
    BY <1>1, <1>4 DEF Clear, Scroll, ClusterTags, Proceed
  <2>3. GoesOn(w)
    <3>1. work[w] \in Work
      BY <1>1
    <3>2. CASE Clear(w)
      BY <2>1, <3>1, <3>2, <1>1 DEF Clear, GoesOn, Busy, Work
    <3>3. CASE Scroll(w)
      BY <2>1, <3>1, <3>3, <1>1 DEF Scroll, GoesOn, Busy, Work
    <3>4. CASE ClusterTags(w)
      BY <2>1, <3>1, <3>4, <1>1 DEF ClusterTags, Proceed, GoesOn, Busy, Work
    <3>5. QED
      BY <1>4, <3>2, <3>3, <3>4
  <2>4. QED
    BY <2>2, <2>3 DEF GoesOn, Busy
<1>5. QED
  BY <1>2, <1>3, <1>4 DEF Next, CallFails, SilhouetteRaises

LEMMA InitCarriers == Init => Carriers
BY DEF Init, Carriers, Busy, Idle

\* No message is added.
LEMMA CarriersAlone ==
    ASSUME Carriers, \A w \in Worker : GoesOn(w), queue' = queue, requests' = requests
    PROVE  Carriers'
BY DEF Carriers, GoesOn, Busy, Messages

\* A message that comes back, with another count of its retries or the same,
\* had the worker for its carrier.
LEMMA CarriersBack ==
    ASSUME Types, Carriers, NEW w \in Worker, Busy(w),
           NEW m \in Messages, m.id = work[w].msg.id,
           queue' \subseteq queue \cup {m}, work' = [work EXCEPT ![w] = Idle], requests' = requests
    PROVE  Carriers'
<1>1. ~ Busy(w)' /\ \A v \in Worker : v # w => work'[v] = work[v]
  BY DEF Types, Idle, Busy
<1>2. \A n \in queue : n.id # m.id
  BY DEF Carriers
<1>3. \A v \in Worker : Busy(v)' => /\ Busy(v) /\ v # w /\ work'[v] = work[v]
                                    /\ work[v].msg.id # m.id
  BY <1>1 DEF Carriers, Busy
<1>4. \A n, o \in queue' : n.id = o.id => n = o
  BY <1>2 DEF Carriers
<1>5. \A v \in Worker : Busy(v)' => /\ work'[v].msg \in Messages
                                    /\ \A n \in queue' : work'[v].msg.id # n.id
  BY <1>3 DEF Carriers
<1>6. \A v, u \in Worker : Busy(v)' /\ Busy(u)' /\ v # u => work'[v].msg.id # work'[u].msg.id
  BY <1>3 DEF Carriers
<1>7. QED
  BY <1>4, <1>5, <1>6 DEF Carriers, Messages, Busy

LEMMA RaisesCarriers ==
    ASSUME Types, Carriers, NEW w \in Worker, Busy(w), Raises(w), requests' = requests
    PROVE  Carriers'
<1>1. work[w].msg \in Messages /\ MaxRetries \in Nat
  BY Bounds DEF Carriers
<1>2. CASE work[w].msg.retries < MaxRetries
  <2> DEFINE m == [work[w].msg EXCEPT !.retries = @ + 1]
  <2>1. m \in Messages /\ m.id = work[w].msg.id
    BY <1>1, <1>2 DEF Messages
  <2>2. queue' = queue \cup {m} /\ work' = [work EXCEPT ![w] = Idle]
    BY <1>2 DEF Raises
  <2>3. QED
    BY <2>1, <2>2, CarriersBack
<1>3. CASE ~ (work[w].msg.retries < MaxRetries)
  BY <1>1, <1>3, CarriersBack DEF Raises
<1>4. QED
  BY <1>2, <1>3

LEMMA CarriersKept == Types /\ Carriers /\ [Next]_vars => Carriers'
<1> SUFFICES ASSUME Types, Carriers, [Next]_vars
             PROVE  Carriers'
  OBVIOUS
<1>1. CASE Request
  <2> DEFINE new == [id |-> requests + 1, retries |-> 0]
  <2>1. queue' = queue \cup {new} /\ work' = work /\ requests' = requests + 1
    BY <1>1 DEF Request
  <2>2. Messages \subseteq Messages' /\ \A m \in Messages : m.id # new.id
    BY <2>1, Bounds DEF Types, Messages
  <2>3. QED
    BY <2>1, <2>2 DEF Carriers, Types, Busy
<1>2. ASSUME NEW w \in Worker, Begin(w)
      PROVE  Carriers'
  <2>1. PICK m \in queue : /\ queue' = queue \ {m}
                           /\ work' = [work EXCEPT ![w] = [Idle EXCEPT !.pc = "clear", !.msg = m, !.run = runs + 1]]
    BY <1>2 DEF Begin
  <2>2. work'[w].msg = m /\ \A v \in Worker : v # w => work'[v] = work[v]
    BY <2>1 DEF Types, Idle
  <2>3. \A n \in queue' : n \in queue /\ n.id # m.id
    BY <2>1 DEF Carriers
  <2>4. \A v \in Worker : v # w /\ Busy(v)' => /\ Busy(v) /\ work'[v].msg = work[v].msg
                                               /\ work[v].msg.id # m.id
    BY <2>2 DEF Carriers, Busy
  <2>5. m \in Messages /\ requests' = requests
    BY <1>2 DEF Begin, Types
  <2>6. \A v \in Worker : Busy(v)' => /\ work'[v].msg \in Messages
                                      /\ \A n \in queue' : work'[v].msg.id # n.id
    BY <2>2, <2>3, <2>4, <2>5 DEF Carriers
  <2>7. \A v, u \in Worker : Busy(v)' /\ Busy(u)' /\ v # u => work'[v].msg.id # work'[u].msg.id
    BY <2>2, <2>4 DEF Carriers
  <2>8. \A n, o \in queue' : n.id = o.id => n = o
    BY <2>3 DEF Carriers
  <2>9. QED
    BY <2>5, <2>6, <2>7, <2>8 DEF Carriers, Messages, Busy
<1>3. ASSUME NEW w \in Worker, CallFails(w) \/ SilhouetteRaises(w)
      PROVE  Carriers'
  BY <1>3, RaisesCarriers DEF CallFails, SilhouetteRaises, Busy
<1>4. ASSUME NEW w \in Worker, WorkerLost(w)
      PROVE  Carriers'
  <2>1. work[w].msg \in Messages
    BY <1>4 DEF Carriers, WorkerLost
  <2>2. QED
    BY <1>4, <2>1, CarriersBack DEF WorkerLost
<1>5. ASSUME NEW w \in Worker, Clear(w) \/ Scroll(w) \/ ClusterTags(w) \/ ClusterAccounts(w)
      PROVE  Carriers'
  <2>1. queue' = queue /\ requests' = requests
    BY <1>5 DEF Clear, Scroll, ClusterTags, ClusterAccounts
  <2>2. CASE \A v \in Worker : GoesOn(v)
    BY <2>1, <2>2, CarriersAlone
  <2>3. QED
    BY <1>2, <2>2, OnlyBeginStarts
<1>6. CASE (\E i \in Tag : Index("tags", i)) \/ (\E i \in Account : Index("accounts", i)) \/ UNCHANGED vars
  <2>1. queue' = queue /\ requests' = requests /\ work' = work
    BY <1>6 DEF Index, vars
  <2>2. QED
    BY <2>1, CarriersAlone DEF GoesOn, Busy
<1>7. QED
  BY <1>1, <1>2, <1>3, <1>4, <1>5, <1>6 DEF Next

-----------------------------------------------------------------------------
(* Attempts.                                                                *)

LEMMA InitAttempts == Init => Attempts
BY DEF Init, Attempts, Busy, Idle

\* What an attempt that begins knows.
LEMMA Begins ==
    ASSUME Types, NEW w \in Worker, Begin(w)
    PROVE  /\ ~ Busy(w) /\ runs' = runs + 1 /\ runs \in Nat
           /\ overlaps' = overlaps \cup {{runs + 1, work[v].run} : v \in {u \in Worker : Busy(u)}}
           /\ \A v \in Worker : v # w => work'[v] = work[v]
           /\ work'[w].pc = "clear" /\ work'[w].run = runs + 1 /\ work'[w].kind = "tags"
           /\ work'[w].got = {} /\ work'[w].owed = {} /\ work'[w].next = 1
           /\ UNCHANGED <<points, table, requests, faults>>
<1>1. PICK m \in queue : work' = [work EXCEPT ![w] = [Idle EXCEPT !.pc = "clear", !.msg = m, !.run = runs + 1]]
  BY DEF Begin
<1>2. QED
  BY <1>1 DEF Types, Idle, Begin

\* Only Begin changes the numbers of the attempts.
LEMMA RunsAlone ==
    ASSUME [Next]_vars
    PROVE  (\E w \in Worker : Begin(w)) \/ (runs' = runs /\ overlaps' = overlaps)
BY DEF Next, vars, Request, CallFails, WorkerLost, Clear, Scroll, ClusterTags, SilhouetteRaises, ClusterAccounts, Index

LEMMA AttemptsKept == Types /\ Attempts /\ [Next]_vars => Attempts'
<1> SUFFICES ASSUME Types, Attempts, [Next]_vars
             PROVE  Attempts'
  OBVIOUS
<1>1. ASSUME NEW w \in Worker, Begin(w)
      PROVE  Attempts'
  <2>1. \A v \in Worker : v # w /\ Busy(v)' => /\ Busy(v) /\ work'[v].run = work[v].run
                                               /\ work[v].run \in 1 .. runs
                                               /\ {runs + 1, work[v].run} \in overlaps'
    BY <1>1, Begins DEF Attempts, Busy
  <2>2. \A v \in Worker : Busy(v)' => work'[v].run \in 1 .. runs'
    <3>1. runs \in Nat /\ runs' = runs + 1 /\ work'[w].run = runs + 1
      BY <1>1, Begins
    <3>2. work'[w].run \in 1 .. runs' /\ 1 .. runs \subseteq 1 .. runs'
      BY <3>1
    <3>3. QED
      BY <2>1, <3>2
  <2>3. \A v \in Worker : v # w /\ Busy(v)' => /\ work'[v].run # work'[w].run
                                               /\ {work'[v].run, work'[w].run} \in overlaps'
                                               /\ {work'[w].run, work'[v].run} \in overlaps'
    <3>1. \A v : {work[v].run, runs + 1} = {runs + 1, work[v].run}
      OBVIOUS
    <3>2. \A v \in Worker : work[v].run \in 1 .. runs => work[v].run # runs + 1
      BY <1>1, Begins
    <3>3. QED
      BY <1>1, <2>1, <3>1, <3>2, Begins
  <2>4. \A v, u \in Worker : v # w /\ u # w /\ v # u /\ Busy(v)' /\ Busy(u)' =>
            /\ work'[v].run # work'[u].run
            /\ {work'[v].run, work'[u].run} \in overlaps'
    <3>1. overlaps \subseteq overlaps'
      BY <1>1, Begins
    <3>2. QED
      BY <2>1, <3>1 DEF Attempts
  <2>5. \A v, u \in Worker : Busy(v)' /\ Busy(u)' /\ v # u =>
            /\ work'[v].run # work'[u].run
            /\ {work'[v].run, work'[u].run} \in overlaps'
    BY <2>3, <2>4
  <2>6. QED
    BY <2>2, <2>5 DEF Attempts, Busy
<1>2. CASE (\A w \in Worker : GoesOn(w)) /\ runs' = runs /\ overlaps' = overlaps
  BY <1>2 DEF Attempts, GoesOn, Busy
<1>3. QED
  BY <1>1, <1>2, OnlyBeginStarts, RunsAlone

-----------------------------------------------------------------------------
(* The number of attempts.                                                  *)

LEMMA AllowedFinite ==
    ASSUME Types
    PROVE  IsFiniteSet(Allowed) /\ Cardinality(Allowed) \in Nat
<1>1. requests \in Int /\ MaxRetries \in Int
  BY Bounds DEF Types
<1>2. IsFiniteSet(1 .. requests) /\ IsFiniteSet(0 .. MaxRetries)
  BY <1>1, FS_Interval
<1>3. IsFiniteSet((1 .. requests) \X (0 .. MaxRetries))
  BY <1>2, FS_Product
<1>4. Allowed \in SUBSET ((1 .. requests) \X (0 .. MaxRetries))
  BY DEF Allowed
<1>5. QED
  BY <1>3, <1>4, FS_Subset, FS_CardinalityType

\* The attempts that one message or one worker allows.
Queued(q, p) == \E m \in q : p[1] = m.id /\ p[2] >= m.retries
Retried(w, p) == Busy(w) /\ p[1] = work[w].msg.id /\ p[2] > work[w].msg.retries

LEMMA AllowedDef ==
    Allowed = {p \in (1 .. requests) \X (0 .. MaxRetries) :
                   Queued(queue, p) \/ \E w \in Worker : Retried(w, p)}
BY DEF Allowed, Queued, Retried

\* No more attempts are allowed than before, or one more for a fault.
LEMMA BalanceShrinks ==
    ASSUME Types, Types', Balance, runs' = runs, requests' = requests,
           \/ Allowed' \subseteq Allowed /\ faults' >= faults
           \/ \E p : Allowed' \subseteq Allowed \cup {p} /\ faults' = faults + 1
    PROVE  Balance'
<1>1. runs \in Nat /\ requests \in Nat /\ MaxRetries \in Nat /\ faults \in Nat /\ faults' \in Nat
  BY Bounds DEF Types
<1>2. IsFiniteSet(Allowed) /\ Cardinality(Allowed) \in Nat /\ Cardinality(Allowed') \in Nat
  <2>1. IsFiniteSet(Allowed) /\ Cardinality(Allowed) \in Nat
    BY AllowedFinite
  <2>2. (IsFiniteSet(Allowed) /\ Cardinality(Allowed) \in Nat)'
    BY AllowedFinite, PTL
  <2>3. QED
    BY <2>1, <2>2
<1> DEFINE bound == requests * (MaxRetries + 1)
<1>3. bound \in Nat /\ runs + Cardinality(Allowed) <= bound + faults
  BY <1>1 DEF Balance
<1>4. CASE Allowed' \subseteq Allowed /\ faults' >= faults
  <2>1. Cardinality(Allowed') <= Cardinality(Allowed)
    BY <1>2, <1>4, FS_Subset
  <2> HIDE DEF bound
  <2>2. runs' + Cardinality(Allowed') <= bound + faults'
    BY <1>1, <1>2, <1>3, <1>4, <2>1
  <2>3. QED
    BY <2>2 DEF Balance, bound
<1>5. CASE \E p : Allowed' \subseteq Allowed \cup {p} /\ faults' = faults + 1
  <2>1. PICK p : Allowed' \subseteq Allowed \cup {p} /\ faults' = faults + 1
    BY <1>5
  <2>2. IsFiniteSet(Allowed \cup {p}) /\ Cardinality(Allowed \cup {p}) <= Cardinality(Allowed) + 1
        /\ Cardinality(Allowed \cup {p}) \in Nat
    BY <1>2, FS_AddElement
  <2>3. Cardinality(Allowed') <= Cardinality(Allowed \cup {p})
    BY <2>1, <2>2, FS_Subset
  <2> HIDE DEF bound
  <2>4. runs' + Cardinality(Allowed') <= bound + faults'
    BY <1>1, <1>2, <1>3, <2>1, <2>2, <2>3
  <2>5. QED
    BY <2>4 DEF Balance, bound
<1>6. QED
  BY <1>4, <1>5

\* Attempts under way that go on allow what they allowed.
LEMMA RetriedGoesOn ==
    ASSUME NEW w \in Worker, GoesOn(w), NEW p, Retried(w, p)'
    PROVE  Retried(w, p)
BY DEF GoesOn, Retried, Busy

\* What comes back after an exception allows the retries that the attempt did.
LEMMA RaisesAllowed ==
    ASSUME Types, Carriers, NEW w \in Worker, Busy(w), Raises(w), requests' = requests
    PROVE  Allowed' \subseteq Allowed
<1>1. work[w].msg \in Messages /\ MaxRetries \in Nat
  BY Bounds DEF Carriers
<1>2. ~ Busy(w)' /\ \A v \in Worker : v # w => work'[v] = work[v]
  BY DEF Raises, Types, Idle, Busy
<1>3. ASSUME NEW p \in (1 .. requests) \X (0 .. MaxRetries), Queued(queue', p)
      PROVE  Queued(queue, p) \/ Retried(w, p)
  <2>1. PICK m \in queue' : p[1] = m.id /\ p[2] >= m.retries
    BY <1>3 DEF Queued
  <2>2. CASE m \in queue
    BY <2>1, <2>2 DEF Queued
  <2>3. CASE m \notin queue
    <3>1. m.id = work[w].msg.id /\ m.retries = work[w].msg.retries + 1
      BY <2>3, <1>1 DEF Raises, Messages
    <3>2. work[w].msg.retries \in Nat /\ p[2] \in Nat
      BY <1>1 DEF Messages
    <3>3. QED
      BY <2>1, <3>1, <3>2 DEF Retried
  <2>4. QED
    BY <2>2, <2>3
<1>4. ASSUME NEW v \in Worker, NEW p, Retried(v, p)'
      PROVE  Retried(v, p)
  BY <1>2, <1>4 DEF Retried, Busy
<1>5. QED
  <2>1. ASSUME NEW p \in (1 .. requests) \X (0 .. MaxRetries),
               Queued(queue', p) \/ \E v \in Worker : Retried(v, p)'
        PROVE  Queued(queue, p) \/ \E v \in Worker : Retried(v, p)
    BY <1>3, <1>4, <2>1
  <2>2. Allowed' = {p \in (1 .. requests') \X (0 .. MaxRetries) :
                        Queued(queue', p) \/ \E v \in Worker : Retried(v, p)'}
    BY DEF Allowed, Queued, Retried
  <2>3. QED
    BY <2>1, <2>2, AllowedDef

\* The message of a lost worker allows the attempt once more.
LEMMA LostAllowed ==
    ASSUME Types, Carriers, NEW w \in Worker, WorkerLost(w)
    PROVE  Allowed' \subseteq Allowed \cup {<<work[w].msg.id, work[w].msg.retries>>}
<1>1. work[w].msg \in Messages /\ MaxRetries \in Nat
  BY Bounds DEF Carriers, WorkerLost
<1>2. ~ Busy(w)' /\ \A v \in Worker : v # w => work'[v] = work[v]
  BY DEF WorkerLost, Types, Idle, Busy
<1>3. ASSUME NEW p \in (1 .. requests) \X (0 .. MaxRetries), Queued(queue', p)
      PROVE  Queued(queue, p) \/ Retried(w, p) \/ p = <<work[w].msg.id, work[w].msg.retries>>
  <2>1. PICK m \in queue' : p[1] = m.id /\ p[2] >= m.retries
    BY <1>3 DEF Queued
  <2>2. CASE m \in queue
    BY <2>1, <2>2 DEF Queued
  <2>3. CASE m = work[w].msg
    <3>1. work[w].msg.retries \in Nat /\ p[2] \in Nat /\ p = <<p[1], p[2]>>
      BY <1>1 DEF Messages
    <3>2. CASE p[2] = m.retries
      BY <2>1, <2>3, <3>1, <3>2
    <3>3. CASE p[2] > m.retries
      BY <2>1, <2>3, <3>3 DEF Retried, WorkerLost
    <3>4. QED
      BY <2>1, <2>3, <3>1, <3>2, <3>3
  <2>4. QED
    BY <2>2, <2>3 DEF WorkerLost
<1>4. ASSUME NEW v \in Worker, NEW p, Retried(v, p)'
      PROVE  Retried(v, p)
  BY <1>2, <1>4 DEF Retried, Busy
<1>5. QED
  <2>1. ASSUME NEW p \in (1 .. requests) \X (0 .. MaxRetries),
               Queued(queue', p) \/ \E v \in Worker : Retried(v, p)'
        PROVE  \/ Queued(queue, p) \/ \E v \in Worker : Retried(v, p)
               \/ p = <<work[w].msg.id, work[w].msg.retries>>
    BY <1>3, <1>4, <2>1
  <2>2. Allowed' = {p \in (1 .. requests) \X (0 .. MaxRetries) :
                        Queued(queue', p) \/ \E v \in Worker : Retried(v, p)'}
    BY DEF Allowed, Queued, Retried, WorkerLost
  <2>3. QED
    BY <2>1, <2>2, AllowedDef

\* An attempt that begins is one the message allowed, and nobody else carries
\* the message.
LEMMA BeginAllowed ==
    ASSUME Types, Carriers, NEW w \in Worker, Begin(w)
    PROVE  \E p \in Allowed : Allowed' \subseteq Allowed \ {p}
<1>1. PICK m \in queue : /\ queue' = queue \ {m}
                         /\ work' = [work EXCEPT ![w] = [Idle EXCEPT !.pc = "clear", !.msg = m, !.run = runs + 1]]
  BY DEF Begin
<1>2. /\ work'[w].msg = m /\ \A v \in Worker : v # w => work'[v] = work[v]
      /\ \A v \in Worker : Busy(v) => work[v].msg.id # m.id
      /\ \A n \in queue' : n \in queue /\ n.id # m.id
  BY <1>1 DEF Types, Idle, Carriers
<1>3. m \in Messages /\ MaxRetries \in Nat /\ requests' = requests
  BY Bounds DEF Types, Begin
<1> DEFINE p == <<m.id, m.retries>>
<1>4. p \in (1 .. requests) \X (0 .. MaxRetries) /\ Queued(queue, p)
  BY <1>3 DEF Messages, Queued
<1>5. p \in Allowed
  BY <1>4, AllowedDef
<1>6. ASSUME NEW o \in (1 .. requests) \X (0 .. MaxRetries),
             Queued(queue', o) \/ \E v \in Worker : Retried(v, o)'
      PROVE  (Queued(queue, o) \/ \E v \in Worker : Retried(v, o)) /\ o # p
  <2>1. CASE Queued(queue', o)
    BY <1>2, <2>1 DEF Queued
  <2>2. CASE Retried(w, o)'
    <3>1. o[1] = m.id /\ o[2] > m.retries /\ m.retries \in Nat /\ o[2] \in Nat
      BY <1>2, <1>3, <2>2 DEF Retried, Messages
    <3>2. QED
      BY <3>1 DEF Queued
  <2>3. ASSUME NEW v \in Worker, v # w, Retried(v, o)'
        PROVE  Retried(v, o) /\ o # p
    BY <1>2, <2>3 DEF Retried, Busy
  <2>4. QED
    BY <1>6, <2>1, <2>2, <2>3
<1>7. Allowed' = {o \in (1 .. requests) \X (0 .. MaxRetries) :
                      Queued(queue', o) \/ \E v \in Worker : Retried(v, o)'}
  BY <1>3 DEF Allowed, Queued, Retried
<1>8. Allowed' \subseteq Allowed \ {p}
  BY <1>6, <1>7, AllowedDef
<1>9. QED
  BY <1>5, <1>8

\* A request allows one attempt and the retries.
LEMMA RequestAllowed ==
    ASSUME Types, Carriers, Request
    PROVE  Allowed' \subseteq Allowed \cup ({requests + 1} \X (0 .. MaxRetries))
<1>1. requests \in Nat /\ requests' = requests + 1 /\ work' = work /\ MaxRetries \in Nat
      /\ queue' = queue \cup {[id |-> requests + 1, retries |-> 0]}
  BY Bounds DEF Request, Types
<1>2. ASSUME NEW o \in (1 .. requests') \X (0 .. MaxRetries),
             Queued(queue', o) \/ \E v \in Worker : Retried(v, o)'
      PROVE  o \in Allowed \cup ({requests + 1} \X (0 .. MaxRetries))
  <2>1. o[1] \in 1 .. requests + 1 /\ o[2] \in 0 .. MaxRetries /\ o = <<o[1], o[2]>>
    BY <1>1
  <2>2. CASE o[1] = requests + 1
    BY <2>1, <2>2
  <2>3. CASE o[1] # requests + 1
    <3>1. o \in (1 .. requests) \X (0 .. MaxRetries)
      BY <1>1, <2>1, <2>3
    <3>2. Queued(queue', o) => Queued(queue, o)
      BY <1>1, <2>3 DEF Queued
    <3>3. \A v \in Worker : Retried(v, o)' => Retried(v, o)
      BY <1>1 DEF Retried, Busy
    <3>4. QED
      BY <1>2, <3>1, <3>2, <3>3, AllowedDef
  <2>4. QED
    BY <2>2, <2>3
<1>3. Allowed' = {o \in (1 .. requests') \X (0 .. MaxRetries) :
                      Queued(queue', o) \/ \E v \in Worker : Retried(v, o)'}
  BY DEF Allowed, Queued, Retried
<1>4. QED
  BY <1>2, <1>3

LEMMA BalanceKept == Types /\ Types' /\ Carriers /\ Balance /\ [Next]_vars => Balance'
<1> SUFFICES ASSUME Types, Types', Carriers, Balance, [Next]_vars
             PROVE  Balance'
  OBVIOUS
<1>1. runs \in Nat /\ requests \in Nat /\ MaxRetries \in Nat /\ faults \in Nat
  BY Bounds DEF Types
<1>2. IsFiniteSet(Allowed) /\ Cardinality(Allowed) \in Nat
  BY AllowedFinite
<1>3. (IsFiniteSet(Allowed) /\ Cardinality(Allowed) \in Nat)'
  BY AllowedFinite, PTL
<1>4. CASE Request
  <2> DEFINE new == {requests + 1} \X (0 .. MaxRetries)
  <2>1. IsFiniteSet(new) /\ Cardinality(new) = MaxRetries + 1
    <3>1. IsFiniteSet({requests + 1}) /\ Cardinality({requests + 1}) = 1
      BY FS_Singleton
    <3>2. IsFiniteSet(0 .. MaxRetries) /\ Cardinality(0 .. MaxRetries) = MaxRetries + 1
      BY <1>1, FS_Interval
    <3>3. IsFiniteSet(new) /\ Cardinality(new) = 1 * Cardinality(0 .. MaxRetries)
      BY <3>1, <3>2, FS_Product
    <3>4. QED
      BY <1>1, <3>2, <3>3
  <2> HIDE DEF new
  <2>2. /\ IsFiniteSet(Allowed \cup new)
        /\ Cardinality(Allowed \cup new) <= Cardinality(Allowed) + MaxRetries + 1
        /\ Cardinality(Allowed \cup new) \in Nat
    <3>1. Cardinality(Allowed \cap new) \in Nat
      BY <1>2, FS_Intersection, FS_CardinalityType
    <3>2. IsFiniteSet(Allowed \cup new)
          /\ Cardinality(Allowed \cup new) = Cardinality(Allowed) + Cardinality(new) - Cardinality(Allowed \cap new)
      BY <1>2, <2>1, FS_Union
    <3>3. Cardinality(Allowed \cup new) \in Nat
      BY <3>2, FS_CardinalityType
    <3>4. QED
      BY <1>1, <1>2, <2>1, <3>1, <3>2, <3>3
  <2>3. Cardinality(Allowed') <= Cardinality(Allowed \cup new)
    BY <1>4, <2>2, RequestAllowed, FS_Subset DEF new
  <2>4. requests' = requests + 1 /\ runs' = runs /\ faults' = faults
    BY <1>4 DEF Request
  <2>5. (requests + 1) * (MaxRetries + 1) = requests * (MaxRetries + 1) + MaxRetries + 1
    BY <1>1
  <2> DEFINE bound == requests * (MaxRetries + 1)
  <2>6. bound \in Nat /\ requests' * (MaxRetries + 1) = bound + MaxRetries + 1
    BY <1>1, <2>4, <2>5
  <2>7. runs + Cardinality(Allowed) <= bound + faults
    BY DEF Balance
  <2> HIDE DEF bound
  <2>8. runs' + Cardinality(Allowed') <= requests' * (MaxRetries + 1) + faults'
    BY <1>1, <1>2, <1>3, <2>2, <2>3, <2>4, <2>6, <2>7
  <2>9. QED
    BY <2>8 DEF Balance
<1>5. ASSUME NEW w \in Worker, Begin(w)
      PROVE  Balance'
  <2>1. PICK p \in Allowed : Allowed' \subseteq Allowed \ {p}
    BY <1>5, BeginAllowed
  <2>2. IsFiniteSet(Allowed \ {p}) /\ Cardinality(Allowed \ {p}) = Cardinality(Allowed) - 1
    BY <1>2, <2>1, FS_RemoveElement
  <2>3. Cardinality(Allowed') <= Cardinality(Allowed) - 1
    BY <2>1, <2>2, FS_Subset
  <2>4. requests' = requests /\ faults' = faults /\ runs' = runs + 1
    BY <1>5, Begins
  <2> DEFINE bound == requests * (MaxRetries + 1)
  <2>5. bound \in Nat /\ runs + Cardinality(Allowed) <= bound + faults
    BY <1>1 DEF Balance
  <2> HIDE DEF bound
  <2>6. runs' + Cardinality(Allowed') <= bound + faults'
    BY <1>1, <1>2, <1>3, <2>3, <2>4, <2>5
  <2>7. QED
    BY <2>4, <2>6 DEF Balance, bound
<1>6. ASSUME NEW w \in Worker, CallFails(w) \/ SilhouetteRaises(w)
      PROVE  Balance'
  <2>1. Busy(w) /\ Raises(w) /\ requests' = requests /\ runs' = runs
    BY <1>6 DEF CallFails, SilhouetteRaises, Busy
  <2>2. Allowed' \subseteq Allowed
    BY <2>1, RaisesAllowed
  <2>3. faults' >= faults
    BY <1>1, <1>6 DEF CallFails, SilhouetteRaises
  <2>4. QED
    BY <2>1, <2>2, <2>3, BalanceShrinks
<1>7. ASSUME NEW w \in Worker, WorkerLost(w)
      PROVE  Balance'
  <2>1. requests' = requests /\ runs' = runs /\ faults' = faults + 1
    BY <1>7 DEF WorkerLost
  <2>2. QED
    BY <1>7, <2>1, LostAllowed, BalanceShrinks
<1>8. CASE queue' = queue /\ requests' = requests /\ runs' = runs /\ faults' = faults
           /\ \A w \in Worker : GoesOn(w)
  <2>1. \A w \in Worker : \A p : Retried(w, p)' => Retried(w, p)
    BY <1>8, RetriedGoesOn
  <2>2. Allowed' = {p \in (1 .. requests) \X (0 .. MaxRetries) :
                        Queued(queue, p) \/ \E w \in Worker : Retried(w, p)'}
    BY <1>8 DEF Allowed, Queued, Retried
  <2>3. Allowed' \subseteq Allowed
    BY <2>1, <2>2, AllowedDef
  <2>4. QED
    BY <1>1, <1>8, <2>3, BalanceShrinks
<1>9. ASSUME NEW w \in Worker, Clear(w) \/ Scroll(w) \/ ClusterTags(w) \/ ClusterAccounts(w)
      PROVE  Balance'
  <2>1. queue' = queue /\ requests' = requests /\ runs' = runs /\ faults' = faults
    BY <1>9 DEF Clear, Scroll, ClusterTags, ClusterAccounts
  <2>2. QED
    BY <2>1, <1>5, <1>8, OnlyBeginStarts
<1>10. CASE (\E i \in Tag : Index("tags", i)) \/ (\E i \in Account : Index("accounts", i)) \/ UNCHANGED vars
  <2>1. queue' = queue /\ requests' = requests /\ runs' = runs /\ faults' = faults /\ work' = work
    BY <1>10 DEF Index, vars
  <2>2. QED
    BY <2>1, <1>8 DEF GoesOn, Busy
<1>11. QED
  BY <1>4, <1>5, <1>6, <1>7, <1>9, <1>10 DEF Next

LEMMA InitBalance == Init => Balance
<1> SUFFICES ASSUME Init
             PROVE  Balance
  OBVIOUS
<1>1. Allowed = {}
  BY DEF Allowed, Init, Busy, Idle
<1>2. QED
  BY <1>1, FS_EmptySet, Bounds DEF Balance, Init

-----------------------------------------------------------------------------
(* The table and what the attempts know of it.                              *)

LEMMA InitTable == Init => Table
BY DEF Init, Table, Busy, Idle, DuplicatesOverlap

\* An attempt that is left alone, while rows are deleted and points are added.
LEMMA AttemptAlone ==
    ASSUME Types, NEW w \in Worker, Busy(w) => AttemptInv(w), work'[w] = work[w],
           table' \subseteq table, overlaps \subseteq overlaps',
           \A k \in Kinds : points[k] \subseteq points'[k]
    PROVE  Busy(w)' => AttemptInv(w)'
<1>1. work[w].kind \in Kinds
  BY WorkTypes DEF Work
<1>2. QED
  BY <1>1 DEF AttemptInv, ScrollInv, Busy

\* The table is left alone.
LEMMA RowsAlone ==
    ASSUME Types, DuplicatesOverlap, \A r \in table : RowInv(r),
           table' = table, overlaps \subseteq overlaps', runs' \in Nat, runs' >= runs
    PROVE  DuplicatesOverlap' /\ \A r \in table' : RowInv(r)'
<1>1. \A r \in table : r.run \in 1 .. runs => r.run \in 1 .. runs'
  BY DEF Types
<1>2. QED
  BY <1>1 DEF DuplicatesOverlap, RowInv, TagRows

\* The rows of an attempt are inserted next to those it overlaps.
LEMMA InsertedRows ==
    ASSUME Types, Attempts, Table, NEW v \in Worker, work[v].pc = "cluster",
           NEW cs, table' = table \cup Rows(v, cs), runs' = runs, overlaps' = overlaps,
           \A c \in cs : c # {},
           \A c, d \in cs : c # d => c \cap d = {},
           work[v].kind = "tags" /\ cs # {} => \A i \in work[v].got : \E c \in cs : i \in c
    PROVE  DuplicatesOverlap' /\ \A r \in table' : RowInv(r)'
<1>1. /\ Busy(v) /\ AttemptInv(v) /\ work[v].run \in 1 .. runs
      /\ work[v].owed \subseteq work[v].got
      /\ \A r \in table : /\ r.run = work[v].run => r.kind = "tags" /\ work[v].kind = "accounts"
                          /\ r.run # work[v].run => {r.run, work[v].run} \in overlaps
  BY DEF Busy, Table, AttemptInv, ScrollInv, Attempts
<1>2. \A r \in Rows(v, cs) : /\ r.kind = work[v].kind /\ r.run = work[v].run /\ r.owed = work[v].owed
                             /\ r.members \in cs
  BY DEF Rows
<1>3. \A r, s \in Rows(v, cs) : r # s => r.members # s.members
  BY DEF Rows
<1>4. ASSUME NEW c \in cs
      PROVE  \E s \in Rows(v, cs) : s.members = c
  <2>1. [kind |-> work[v].kind, members |-> c, run |-> work[v].run, owed |-> work[v].owed] \in Rows(v, cs)
    BY DEF Rows
  <2>2. QED
    BY <2>1
<1>5. DuplicatesOverlap'
  <2>1. ASSUME NEW r \in table, NEW s \in Rows(v, cs), r.run # s.run
        PROVE  {r.run, s.run} \in overlaps /\ {s.run, r.run} \in overlaps
    <3>1. {r.run, s.run} = {s.run, r.run}
      OBVIOUS
    <3>2. QED
      BY <1>1, <1>2, <2>1, <3>1
  <2>2. QED
    BY <1>2, <2>1 DEF DuplicatesOverlap, Table
<1>6. ASSUME NEW r \in table
      PROVE  RowInv(r)'
  <2>1. RowInv(r)
    BY DEF Table
  <2>2. TagRows(r.run) \subseteq TagRows(r.run)'
    BY DEF TagRows
  <2>3. \A s \in Rows(v, cs) : r.run = s.run => r.kind # s.kind
    BY <1>1, <1>2
  <2>4. QED
    BY <2>1, <2>2, <2>3 DEF RowInv
<1>7. ASSUME NEW r \in Rows(v, cs)
      PROVE  RowInv(r)'
  <2>1. r.members # {} /\ r.run \in 1 .. runs'
    BY <1>1, <1>2
  <2>2. ASSUME r.kind = "tags", NEW t \in r.owed
        PROVE  \E s \in TagRows(r.run)' : t \in s.members
    <3>1. PICK c \in cs : t \in c
      BY <1>1, <1>2, <2>2
    <3>2. PICK s \in Rows(v, cs) : s.members = c
      BY <1>4
    <3>3. s \in TagRows(r.run)'
      BY <1>2, <2>2, <3>2 DEF TagRows
    <3>4. QED
      BY <3>1, <3>2, <3>3
  <2>3. ASSUME NEW s \in table', r # s, r.run = s.run, r.kind = s.kind
        PROVE  r.members \cap s.members = {}
    <3>1. s \in Rows(v, cs)
      BY <1>1, <1>2, <2>3
    <3>2. QED
      BY <1>2, <1>3, <2>3, <3>1
  <2>4. QED
    BY <2>1, <2>2, <2>3 DEF RowInv
<1>8. QED
  BY <1>5, <1>6, <1>7

\* The other attempts overlap the one that inserts.
LEMMA InsertedOthers ==
    ASSUME Types, Attempts, Table, NEW v \in Worker, work[v].pc = "cluster",
           NEW cs, table' = table \cup Rows(v, cs), overlaps' = overlaps, points' = points,
           NEW w \in Worker, w # v, work'[w] = work[w], Busy(w)
    PROVE  AttemptInv(w)'
<1>1. AttemptInv(w) /\ work[v].run # work[w].run /\ {work[v].run, work[w].run} \in overlaps
  BY DEF Table, Attempts, Busy
<1>2. \A r \in Rows(v, cs) : r.run = work[v].run
  BY DEF Rows
<1>3. \A r \in table' : /\ r.run = work[w].run => r.kind = "tags" /\ work[w].kind = "accounts"
                        /\ work[w].pc # "clear" /\ r.run # work[w].run => {r.run, work[w].run} \in overlaps
  BY <1>1, <1>2 DEF AttemptInv
<1>4. QED
  BY <1>1, <1>3 DEF AttemptInv, ScrollInv

\* A page takes what is owed up to the offset of the next.
LEMMA ScrollKeeps ==
    ASSUME Types, NEW w \in Worker, AttemptInv(w), Scroll(w)
    PROVE  AttemptInv(w)'
<1> DEFINE page == FirstPage(Rest(w))
           left == Rest(w) \ page
<1>1. page \subseteq Rest(w) /\ Rest(w) \subseteq points[work[w].kind]
      /\ points[work[w].kind] \subseteq Nat /\ work[w] \in Work
  BY WorkTypes DEF FirstPage, Rest
<1>2. \A i \in points[work[w].kind] : i >= work[w].next => i \in page \/ i \in left
  BY DEF Rest
<1>3. left # {} => \A i \in left : i >= Offset(left)
  BY <1>1, MinIsLeast DEF Offset
<1>4. work' = [work EXCEPT ![w].got = @ \cup page,
                           ![w].next = IF left = {} THEN @ ELSE Offset(left),
                           ![w].pc = IF left = {} THEN "cluster" ELSE "scroll"]
      /\ work[w].pc = "scroll" /\ UNCHANGED <<points, table, overlaps>>
  BY DEF Scroll
<1> HIDE DEF page, left
<1>5. /\ work'[w].got = work[w].got \cup page
      /\ work'[w].next = IF left = {} THEN work[w].next ELSE Offset(left)
      /\ work'[w].pc = IF left = {} THEN "cluster" ELSE "scroll"
      /\ work'[w].kind = work[w].kind /\ work'[w].run = work[w].run /\ work'[w].owed = work[w].owed
  BY <1>1, <1>4 DEF Types, Work
<1>6. work'[w].got \subseteq points'[work'[w].kind] /\ work'[w].owed \subseteq points'[work'[w].kind]
  BY <1>1, <1>4, <1>5 DEF AttemptInv, ScrollInv
<1>7. ASSUME NEW i \in work'[w].owed
      PROVE  i \in work'[w].got \/ (work'[w].pc = "scroll" /\ i >= work'[w].next)
  <2>1. i \in points[work[w].kind] /\ (i \in work[w].got \/ i >= work[w].next)
    BY <1>5, <1>7 DEF AttemptInv, ScrollInv
  <2>2. CASE i \in work[w].got \/ i \in page
    BY <1>5, <2>2
  <2>3. CASE i \in left
    BY <1>3, <1>5, <2>3
  <2>4. QED
    BY <1>2, <2>1, <2>2, <2>3
<1>8. \A r \in table' : /\ r.run = work'[w].run => r.kind = "tags" /\ work'[w].kind = "accounts"
                        /\ r.run # work'[w].run => {r.run, work'[w].run} \in overlaps'
  <2>1. \A r \in table : /\ r.run = work[w].run => r.kind = "tags" /\ work[w].kind = "accounts"
                         /\ r.run # work[w].run => {r.run, work[w].run} \in overlaps
    BY <1>4 DEF AttemptInv
  <2>2. table' = table /\ overlaps' = overlaps
    BY <1>4
  <2>3. QED
    BY <1>5, <2>1, <2>2
<1>9. work'[w].pc # "clear"
  BY <1>5
<1>10. QED
  BY <1>6, <1>7, <1>8, <1>9 DEF AttemptInv, ScrollInv

\* An attempt that has deleted every cluster begins to scroll the tags.
LEMMA ClearKeeps ==
    ASSUME Types, NEW w \in Worker, AttemptInv(w), Clear(w)
    PROVE  AttemptInv(w)'
<1>1. work[w] \in Work /\ work \in [Worker -> Work] /\ points["tags"] \subseteq Nat
  BY WorkTypes, Bounds DEF Types
<1>2. /\ work'[w].pc = "scroll" /\ work'[w].kind = "tags" /\ work'[w].next = 1
      /\ work'[w].got = {} /\ work'[w].owed = points["tags"] /\ table' = {} /\ points' = points
  BY <1>1 DEF Clear, AttemptInv, Work
<1>3. \A i \in points["tags"] : i >= 1
  BY CommunitiesAssumption DEF Types
<1>4. QED
  BY <1>2, <1>3 DEF AttemptInv, ScrollInv

\* With the tags' clusters committed the accounts are scrolled.
LEMMA ProceedKeeps ==
    ASSUME Types, NEW w \in Worker, AttemptInv(w), work[w].kind = "tags", work[w].pc = "cluster",
           Proceed(w), Hdbscan, NEW cs, table' = table \cup Rows(w, cs),
           overlaps' = overlaps, points' = points
    PROVE  AttemptInv(w)'
<1>1. work[w] \in Work /\ work \in [Worker -> Work]
  BY WorkTypes DEF Types
<1>2. /\ work'[w].pc = "scroll" /\ work'[w].kind = "accounts" /\ work'[w].next = 1
      /\ work'[w].got = {} /\ work'[w].owed = points["accounts"] /\ work'[w].run = work[w].run
  BY <1>1 DEF Proceed, Work
<1>3. \A i \in points["accounts"] : i >= 1
  BY CommunitiesAssumption DEF Types
<1>4. \A r \in Rows(w, cs) : r.run = work[w].run /\ r.kind = "tags"
  BY DEF Rows
<1>5. \A r \in table' : /\ r.run = work'[w].run => r.kind = "tags" /\ work'[w].kind = "accounts"
                        /\ r.run # work'[w].run => {r.run, work'[w].run} \in overlaps'
  BY <1>2, <1>4 DEF AttemptInv
<1>6. QED
  BY <1>2, <1>3, <1>5 DEF AttemptInv, ScrollInv

\* Of the clusters of a labelling without noise one holds what was scrolled.
LEMMA TagClusters ==
    ASSUME Types, NEW w \in Worker, AttemptInv(w), work[w].kind = "tags", NEW label \in TagLabels
    PROVE  \A i \in work[w].got : \E c \in Clusters(work[w].got, label) : i \in c
<1>1. \A i \in work[w].got : i \in Tag
  BY WorkTypes DEF AttemptInv, ScrollInv
<1>2. \A i \in work[w].got : label[i] # 0
  BY <1>1, CommunitiesAssumption
<1>3. QED
  BY <1>2, ClustersPart

LEMMA TableKept == Types /\ Types' /\ Attempts /\ Table /\ [Next]_vars => Table'
<1> SUFFICES ASSUME Types, Types', Attempts, Table, [Next]_vars
             PROVE  Table'
  OBVIOUS
<1>1. work \in [Worker -> Work] /\ ~ (Idle.pc # "idle") /\ runs \in Nat /\ runs' \in Nat
  BY DEF Types, Idle
<1>2. CASE /\ table' = table /\ overlaps \subseteq overlaps' /\ runs' >= runs
           /\ \A w \in Worker : Busy(w)' => AttemptInv(w)'
  BY <1>1, <1>2, RowsAlone DEF Table
<1>3. ASSUME NEW w \in Worker, Begin(w)
      PROVE  Table'
  <2>1. table' = table /\ points' = points /\ overlaps \subseteq overlaps' /\ runs' >= runs
    BY <1>3, Begins
  <2>2. \A v \in Worker : v # w => (Busy(v)' => AttemptInv(v)')
    BY <1>3, <2>1, Begins, AttemptAlone DEF Table
  <2>3. \A r \in table' : r.run # work'[w].run
    BY <1>3, <2>1, Begins DEF Table, RowInv
  <2>4. AttemptInv(w)'
    BY <1>3, <2>3, Begins DEF AttemptInv, ScrollInv
  <2>5. QED
    BY <1>2, <2>1, <2>2, <2>4
<1>4. ASSUME NEW w \in Worker, work' = [work EXCEPT ![w] = Idle], UNCHANGED <<points, table, runs, overlaps>>
      PROVE  Table'
  <2>1. ~ Busy(w)' /\ \A v \in Worker : v # w => work'[v] = work[v]
    BY <1>1, <1>4 DEF Busy
  <2>2. \A v \in Worker : v # w => (Busy(v)' => AttemptInv(v)')
    BY <1>4, <2>1, AttemptAlone DEF Table
  <2>3. QED
    BY <1>1, <1>2, <1>4, <2>1, <2>2
<1>5. ASSUME NEW w \in Worker, CallFails(w) \/ WorkerLost(w) \/ SilhouetteRaises(w)
      PROVE  Table'
  BY <1>4, <1>5 DEF CallFails, WorkerLost, SilhouetteRaises, Raises
<1>6. ASSUME NEW w \in Worker, Clear(w)
      PROVE  Table'
  <2>1. Busy(w) /\ table' = {} /\ UNCHANGED <<points, runs, overlaps>>
        /\ \A v \in Worker : v # w => work'[v] = work[v]
    BY <1>1, <1>6 DEF Clear, Busy
  <2>2. \A v \in Worker : v # w => (Busy(v)' => AttemptInv(v)')
    BY <2>1, AttemptAlone DEF Table
  <2>3. AttemptInv(w)'
    BY <1>6, <2>1, ClearKeeps DEF Table
  <2>4. QED
    BY <2>1, <2>2, <2>3 DEF Table, DuplicatesOverlap
<1>7. ASSUME NEW w \in Worker, Scroll(w)
      PROVE  Table'
  <2>1. Busy(w) /\ UNCHANGED <<points, table, runs, overlaps>>
        /\ \A v \in Worker : v # w => work'[v] = work[v]
    BY <1>1, <1>7 DEF Scroll, Busy
  <2>2. \A v \in Worker : v # w => (Busy(v)' => AttemptInv(v)')
    BY <2>1, AttemptAlone DEF Table
  <2>3. AttemptInv(w)'
    BY <1>7, <2>1, ScrollKeeps DEF Table
  <2>4. QED
    BY <1>1, <1>2, <2>1, <2>2, <2>3
<1>8. ASSUME NEW w \in Worker, ClusterTags(w)
      PROVE  Table'
  <2>1. /\ Busy(w) /\ AttemptInv(w) /\ UNCHANGED <<points, runs, overlaps>>
        /\ \A v \in Worker : v # w => work'[v] = work[v]
        /\ work[w].kind = "tags" /\ work[w].pc = "cluster" /\ Proceed(w)
    BY <1>1, <1>8 DEF ClusterTags, Proceed, Busy, Table
  <2>2. \E cs : /\ table' = table \cup Rows(w, cs)
                /\ \A c \in cs : c # {}
                /\ \A c, d \in cs : c # d => c \cap d = {}
                /\ cs # {} => \A i \in work[w].got : \E c \in cs : i \in c
    <3>1. CASE UNCHANGED table
      <4>1. Rows(w, {}) = {}
        BY DEF Rows
      <4>2. table' = table \cup Rows(w, {})
        BY <3>1, <4>1
      <4>3. QED
        BY <4>2
    <3>2. CASE \E label \in TagLabels : table' = table \cup Rows(w, Clusters(work[w].got, label))
      <4>1. PICK label \in TagLabels : table' = table \cup Rows(w, Clusters(work[w].got, label))
        BY <3>2
      <4> DEFINE cs == Clusters(work[w].got, label)
      <4>2. table' = table \cup Rows(w, cs) /\ \A i \in work[w].got : \E c \in cs : i \in c
        BY <2>1, <4>1, TagClusters
      <4>3. (\A c \in cs : c # {}) /\ (\A c, d \in cs : c # d => c \cap d = {})
        BY ClustersPart
      <4> HIDE DEF cs
      <4>4. QED
        BY <4>2, <4>3
    <3>3. QED
      BY <1>8, <3>1, <3>2 DEF ClusterTags
  <2>3. PICK cs : /\ table' = table \cup Rows(w, cs)
                  /\ \A c \in cs : c # {}
                  /\ \A c, d \in cs : c # d => c \cap d = {}
                  /\ cs # {} => \A i \in work[w].got : \E c \in cs : i \in c
    BY <2>2
  <2>4. DuplicatesOverlap' /\ \A r \in table' : RowInv(r)'
    BY <2>1, <2>3, InsertedRows
  <2>5. \A v \in Worker : v # w => (Busy(v)' => AttemptInv(v)')
    BY <2>1, <2>3, InsertedOthers DEF Busy
  <2>6. Busy(w)' => AttemptInv(w)'
    <3>1. CASE Hdbscan
      BY <2>1, <2>3, <3>1, ProceedKeeps
    <3>2. CASE ~ Hdbscan
      BY <1>1, <2>1, <3>2 DEF Proceed, Busy
    <3>3. QED
      BY <3>1, <3>2
  <2>7. QED
    BY <2>4, <2>5, <2>6 DEF Table
<1>9. ASSUME NEW w \in Worker, ClusterAccounts(w)
      PROVE  Table'
  <2>1. /\ Busy(w) /\ UNCHANGED <<points, runs, overlaps>>
        /\ \A v \in Worker : v # w => work'[v] = work[v]
        /\ work[w].kind = "accounts" /\ work[w].pc = "cluster" /\ ~ Busy(w)'
    BY <1>1, <1>9 DEF ClusterAccounts, Busy
  <2>2. \E cs : /\ table' = table \cup Rows(w, cs)
                /\ \A c \in cs : c # {}
                /\ \A c, d \in cs : c # d => c \cap d = {}
    <3>1. CASE UNCHANGED table
      <4>1. Rows(w, {}) = {}
        BY DEF Rows
      <4>2. table' = table \cup Rows(w, {})
        BY <3>1, <4>1
      <4>3. QED
        BY <4>2
    <3>2. CASE \E label \in AccountLabels :
                   table' = table \cup Rows(w, {c \in Clusters(work[w].got, label) : Cardinality(c) >= MinCluster})
      <4>1. PICK label \in AccountLabels :
                   table' = table \cup Rows(w, {c \in Clusters(work[w].got, label) : Cardinality(c) >= MinCluster})
        BY <3>2
      <4> DEFINE cs == {c \in Clusters(work[w].got, label) : Cardinality(c) >= MinCluster}
      <4>2. cs \subseteq Clusters(work[w].got, label) /\ table' = table \cup Rows(w, cs)
        BY <4>1
      <4> HIDE DEF cs
      <4>3. (\A c \in cs : c # {}) /\ (\A c, d \in cs : c # d => c \cap d = {})
        BY <4>2, ClustersPart
      <4>4. QED
        BY <4>2, <4>3
    <3>3. QED
      BY <1>9, <3>1, <3>2 DEF ClusterAccounts
  <2>3. PICK cs : /\ table' = table \cup Rows(w, cs)
                  /\ \A c \in cs : c # {}
                  /\ \A c, d \in cs : c # d => c \cap d = {}
    BY <2>2
  <2>4. DuplicatesOverlap' /\ \A r \in table' : RowInv(r)'
    BY <2>1, <2>3, InsertedRows
  <2>5. \A v \in Worker : v # w => (Busy(v)' => AttemptInv(v)')
    BY <2>1, <2>3, InsertedOthers DEF Busy
  <2>6. QED
    BY <2>1, <2>4, <2>5 DEF Table
<1>10. ASSUME work' = work, UNCHANGED <<table, runs, overlaps>>, \A k \in Kinds : points[k] \subseteq points'[k]
       PROVE  Table'
  <2>1. \A v \in Worker : Busy(v)' => AttemptInv(v)'
    BY <1>10, AttemptAlone DEF Table
  <2>2. QED
    BY <1>1, <1>2, <1>10, <2>1
<1>11. CASE Request \/ (\E i \in Tag : Index("tags", i)) \/ (\E i \in Account : Index("accounts", i))
            \/ UNCHANGED vars
  <2>1. \A k \in Kinds : points[k] \subseteq points'[k]
    BY <1>11 DEF Request, Index, vars, Types
  <2>2. QED
    BY <1>10, <1>11, <2>1 DEF Request, Index, vars
<1>12. QED
  BY <1>3, <1>5, <1>6, <1>7, <1>8, <1>9, <1>11 DEF Next

-----------------------------------------------------------------------------
(* The theorems.                                                            *)

LEMMA IdlingKept == Types /\ Idling /\ [Next]_vars => Idling'
<1> SUFFICES ASSUME Types, Idling, [Next]_vars
             PROVE  Idling'
  OBVIOUS
<1>1. work \in [Worker -> Work] /\ Idle.pc = "idle"
  BY DEF Types, Idle
<1>2. ASSUME NEW w \in Worker, \A v \in Worker : v # w => work'[v] = work[v],
             Busy(w)' \/ work'[w] = Idle
      PROVE  Idling'
  BY <1>2 DEF Idling, Busy
<1>3. ASSUME NEW w \in Worker, Begin(w)
      PROVE  Idling'
  BY <1>2, <1>3, Begins DEF Busy
<1>4. ASSUME NEW w \in Worker, Raises(w) \/ WorkerLost(w) \/ ClusterAccounts(w)
      PROVE  Idling'
  BY <1>1, <1>2, <1>4 DEF Raises, WorkerLost, ClusterAccounts
<1>5. ASSUME NEW w \in Worker, Clear(w) \/ Scroll(w)
      PROVE  Idling'
  <2>1. work[w] \in Work /\ \A v \in Worker : v # w => work'[v] = work[v]
    BY <1>1, <1>5 DEF Clear, Scroll
  <2>2. work'[w].pc \in {"scroll", "cluster"}
    <3>1. CASE Clear(w)
      BY <1>1, <2>1, <3>1 DEF Clear, Work
    <3>2. CASE Scroll(w)
      BY <1>1, <2>1, <3>2 DEF Scroll, Work
    <3>3. QED
      BY <1>5, <3>1, <3>2
  <2>3. QED
    BY <1>2, <2>1, <2>2 DEF Busy
<1>6. ASSUME NEW w \in Worker, ClusterTags(w)
      PROVE  Idling'
  <2>1. work[w] \in Work /\ \A v \in Worker : v # w => work'[v] = work[v]
    BY <1>1, <1>6 DEF ClusterTags, Proceed
  <2>2. work'[w].pc = "scroll" \/ work'[w] = Idle
    BY <1>1, <1>6, <2>1 DEF ClusterTags, Proceed, Work
  <2>3. QED
    BY <1>2, <2>1, <2>2 DEF Busy
<1>7. CASE Request \/ (\E i \in Tag : Index("tags", i)) \/ (\E i \in Account : Index("accounts", i)) \/ UNCHANGED vars
  BY <1>7 DEF Request, Index, vars, Idling, Busy
<1>8. QED
  BY <1>3, <1>4, <1>5, <1>6, <1>7 DEF Next, CallFails, SilhouetteRaises

LEMMA Invariance == Spec => []IInv
<1>1. Init => IInv
  BY InitTypes, InitCarriers, InitAttempts, InitTable, InitBalance DEF IInv, Init, Idling
<1>2. IInv /\ [Next]_vars => IInv'
  <2> SUFFICES ASSUME IInv, [Next]_vars
               PROVE  IInv'
    OBVIOUS
  <2>1. Types'
    BY TypesKept DEF IInv
  <2>2. Idling' /\ Carriers' /\ Attempts'
    BY IdlingKept, CarriersKept, AttemptsKept DEF IInv
  <2>3. Table' /\ Balance'
    BY <2>1, TableKept, BalanceKept DEF IInv
  <2>4. QED
    BY <2>1, <2>2, <2>3 DEF IInv
<1>3. QED
  BY <1>1, <1>2, PTL DEF Spec

(* Every message of a rebuild has one carrier, the queue or one worker, and *)
(* a rebuild is attempted no oftener than its retries and the workers lost  *)
(* with it allow (tasks.py:284-291).                                        *)
THEOREM TypeCorrect == Spec => []TypeOK
<1>1. IInv => TypeOK
  <2> SUFFICES ASSUME IInv
               PROVE  TypeOK
    OBVIOUS
  <2>1. \A row \in table : row.kind \in Kinds /\ row.members # {} /\ row.run \in 1 .. runs
    BY DEF IInv, Table, RowInv, Types, Row
  <2>2. \A w \in Worker : Busy(w) => /\ work[w].msg \in Messages
                                     /\ work[w].got \subseteq points[work[w].kind]
    BY DEF IInv, Table, AttemptInv, ScrollInv, Carriers
  <2>3. ASSUME NEW v \in Worker, NEW w \in Worker, Busy(v), v # w
        PROVE  work[v].msg.id # work[w].msg.id
    <3>1. CASE Busy(w)
      BY <2>3, <3>1 DEF IInv, Carriers
    <3>2. CASE ~ Busy(w)
      <4>1. work[w].msg.id = 0
        BY <3>2 DEF IInv, Idling, Idle
      <4>2. work[v].msg.id \in 1 .. requests
        BY <2>2, <2>3 DEF Messages
      <4>3. QED
        BY <4>1, <4>2 DEF IInv, Types
    <3>3. QED
      BY <3>1, <3>2
  <2>4. runs <= requests * (MaxRetries + 1) + faults
    <3>1. Cardinality(Allowed) \in Nat
      BY AllowedFinite DEF IInv
    <3>2. requests * (MaxRetries + 1) + faults \in Nat /\ runs \in Nat
      BY Bounds DEF IInv, Types
    <3> DEFINE bound == requests * (MaxRetries + 1) + faults
    <3>3. runs + Cardinality(Allowed) <= bound
      BY DEF IInv, Balance
    <3> HIDE DEF bound
    <3>4. runs <= bound
      BY <3>1, <3>2, <3>3 DEF bound
    <3>5. QED
      BY <3>4 DEF bound
  <2>5. QED
    BY <2>1, <2>2, <2>3, <2>4 DEF TypeOK, IInv, Types, Carriers
<1>2. QED
  BY <1>1, Invariance, PTL

(* Whatever fails, dies and is delivered again, clusters of two attempts    *)
(* stand side by side only if the attempts were under way together          *)
(* (communities.py:43, 47-50).                                              *)
THEOREM DuplicatesHaveOverlapped == Spec => []DuplicatesOverlap
<1>1. IInv => DuplicatesOverlap
  BY DEF IInv, Table
<1>2. QED
  BY <1>1, Invariance, PTL

(* The clusters of an attempt hold every tag there was when its scroll      *)
(* began in exactly one cluster, for every size of the pages and however    *)
(* many points come between them (communities.py:206-230).                  *)
THEOREM ScrollsAreComplete == Spec => []ScrollComplete
<1>1. IInv => ScrollComplete
  <2> SUFFICES ASSUME IInv, NEW r \in table
               PROVE  /\ r.kind = "tags" => \A t \in r.owed :
                             Quantify(TagRows(r.run), LAMBDA row : t \in row.members) = 1
                      /\ \A s \in table : r # s /\ r.run = s.run /\ r.kind = s.kind
                                             => r.members \cap s.members = {}
    BY DEF ScrollComplete
  <2>1. \A s \in table : RowInv(s)
    BY DEF IInv, Table
  <2>2. ASSUME r.kind = "tags", NEW t \in r.owed
        PROVE  Quantify(TagRows(r.run), LAMBDA row : t \in row.members) = 1
    <3>1. PICK s \in TagRows(r.run) : t \in s.members
      BY <2>1, <2>2 DEF RowInv
    <3>2. \A q \in TagRows(r.run) : t \in q.members => q = s
      BY <2>1, <3>1 DEF RowInv, TagRows
    <3>3. Cardinality({row \in TagRows(r.run) : t \in row.members}) = 1
      BY <3>1, <3>2, CountsOne
    <3>4. QED
      BY <3>3 DEF Quantify
  <2>3. QED
    BY <2>1, <2>2 DEF RowInv
<1>2. QED
  BY <1>1, Invariance, PTL

==============================================================================
