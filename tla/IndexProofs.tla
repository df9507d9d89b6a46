---------------------------- MODULE IndexProofs ----------------------------
(***************************************************************************)
(* The index, for every number of processes, indexers, posts and accounts   *)
(* and every window: of the processes of the API that start together one    *)
(* gets through, the embedding of an account is the window of its posts     *)
(* after a job that ran alone, and the vector of a post misses no token of  *)
(* a long text, and no readable image.                                      *)
(*                                                                          *)
(* The inductive invariant has a half for VectorStore, which holds while    *)
(* nothing has failed, and a half for the posts, which says for each place  *)
(* a job may be at what it has in its hands.                                *)
(***************************************************************************)
EXTENDS MCIndex, FiniteSetTheorems, SequenceTheorems, WellFoundedInduction, TLAPS

-----------------------------------------------------------------------------
(* The inductive invariant.                                                 *)

Names == {"posts", "accounts", "tags"}

StoreTypes ==
    /\ coll \in [Names -> {"absent", "bare", "part", "indexed"}]
    /\ api \in [Api -> [pc : {"down", "create", "index", "up", "blind"},
                        at : 1 .. 4, saw : SUBSET Names]]
    /\ \A a \in Api : api[a].pc = "index" => api[a].at <= 3
    /\ upsets \in 0 .. MaxUpsets

\* The collections before the k-th.
Past(k) == {Collections[j] : j \in 1 .. k - 1}

\* Whom nothing that exists can stop any more: it has seen it, or is past it.
Leads(a) ==
    \/ api[a].pc = "up"
    \/ api[a].pc = "create" /\ Present \subseteq api[a].saw \cup Past(api[a].at)
    \/ api[a].pc = "index" /\ Present \subseteq api[a].saw \cup Past(api[a].at + 1)

\* Collections come into being in their order, one after the other.
InOrder ==
    /\ \A i, j \in 1 .. 3 : i < j /\ Collections[j] \in Present => Collections[i] \in Present
    /\ \A a \in Api :
         /\ api[a].saw \subseteq Present
         /\ api[a].pc \in {"create", "index", "up"} => Past(api[a].at) \subseteq Present
         /\ api[a].pc = "index" => Current(a) \in Present
         /\ api[a].pc = "up" => api[a].at = 4

RaceInv ==
    /\ InOrder
    /\ \A c \in Names : coll[c] \in {"bare", "part"} => \E a \in Api : api[a].pc = "index" /\ Current(a) = c
    /\ (\E a \in Api : api[a].pc # "down") => \E a \in Api : Leads(a)

StoreIInv == StoreTypes /\ (upsets = 0 => RaceInv)

\* A window of an account.
Windows(a) == {w \in SUBSET {p \in Post : Owner[p] = a} : Cardinality(w) <= Window}

PostTypes ==
    /\ sfw \subseteq Post
    /\ point \in [Post -> {"none", "dated", "iso"}]
    /\ vector \in [Account -> SUBSET Post] /\ embedding \in [Account -> SUBSET Post]
    /\ job \in [Indexer -> [pc : {"free", "upsert", "scroll", "vector", "row", "tags"},
                            post : Post \cup {0}, got : SUBSET Post]]
    /\ \A i \in Indexer : job[i].pc # "free" => job[i].post \in Post
    /\ jobs \in 0 .. MaxJobs
    /\ blurred \in [Account -> BOOLEAN]

\* What an indexer is about to write, and what has been written.
WindowInv ==
    /\ \A a \in Account : /\ vector[a] \in Windows(a) /\ embedding[a] \in Windows(a)
                          /\ vector[a] = {} => embedding[a] = {}
    /\ \A i \in Indexer :
         /\ job[i].pc \in {"vector", "row"} => job[i].got # {} /\ job[i].got \in Windows(Owner[job[i].post])
         /\ job[i].pc = "row" => vector[Owner[job[i].post]] # {}

Fresh(a) == vector[a] = MostRecent(Dated(a)) /\ embedding[a] = vector[a]

\* A job that is the only one of its account and that no other step crossed.
QuietJob(i, a) ==
    /\ Busy(a) = {i}
    /\ job[i].pc = "scroll" => point[job[i].post] = "dated"
    /\ job[i].pc \in {"vector", "row"} => job[i].got = MostRecent(Dated(a))
    /\ job[i].pc = "row" => vector[a] = job[i].got
    /\ job[i].pc = "tags" => Fresh(a)

Quiet(a) ==
    ~ blurred[a] => /\ Busy(a) = {} => Fresh(a)
                    /\ \A i \in Busy(a) : QuietJob(i, a)

IInv == StoreIInv /\ PostTypes /\ WindowInv /\ \A a \in Account : Quiet(a)

-----------------------------------------------------------------------------
(* The three collections and their order.                                   *)

LEMMA Three ==
    /\ Len(Collections) = 3
    /\ Collections[1] = "posts" /\ Collections[2] = "accounts" /\ Collections[3] = "tags"
    /\ \A k \in 1 .. 3 : Collections[k] \in Names
    /\ \A c \in Names : \E k \in 1 .. 3 : Collections[k] = c
    /\ \A j, k \in 1 .. 3 : Collections[j] = Collections[k] => j = k
<1>1. Len(Collections) = 3 /\ Collections[1] = "posts" /\ Collections[2] = "accounts" /\ Collections[3] = "tags"
  BY DEF Collections
<1>2. 1 .. 3 = {1, 2, 3}
  OBVIOUS
<1>3. QED
  BY <1>1, <1>2 DEF Names

LEMMA PastSteps ==
    /\ Past(1) = {}
    /\ Past(4) = Names
    /\ \A k \in 1 .. 3 : Past(k + 1) = Past(k) \cup {Collections[k]}
<1>1. Past(1) = {}
  BY DEF Past
<1>2. \A k \in 1 .. 3 : Past(k + 1) = Past(k) \cup {Collections[k]}
  <2>1. \A k \in 1 .. 3 : 1 .. (k + 1) - 1 = (1 .. k - 1) \cup {k}
    OBVIOUS
  <2>2. QED
    BY <2>1 DEF Past
<1>3. Past(4) = Names
  <2>1. 1 .. 4 - 1 = 1 .. 3
    OBVIOUS
  <2>2. QED
    BY <2>1, Three DEF Past
<1>4. QED
  BY <1>1, <1>2, <1>3

LEMMA PresentNames ==
    ASSUME StoreTypes
    PROVE  Present \subseteq Names /\ DOMAIN coll = Names /\ Present = {c \in Names : coll[c] # "absent"}
BY DEF StoreTypes, Present

\* What is missing is not behind anything that is there.
LEMMA MissingIsLast ==
    ASSUME StoreTypes, InOrder, NEW k \in 1 .. 3, Collections[k] \notin Present
    PROVE  Present \subseteq Past(k)
<1>1. ASSUME NEW c \in Present
      PROVE  c \in Past(k)
  <2>1. PICK j \in 1 .. 3 : Collections[j] = c
    BY PresentNames, Three
  <2>2. j < k
    BY <2>1 DEF InOrder
  <2>3. j \in 1 .. k - 1
    BY <2>2
  <2>4. QED
    BY <2>1, <2>3 DEF Past
<1>2. QED
  BY <1>1

-----------------------------------------------------------------------------
(* The race of the processes.                                               *)

LEMMA StoreTypesKept ==
    ASSUME StoreTypes, StoreStep \/ EnsureBare
    PROVE  StoreTypes'
<1>1. Len(Collections) = 3 /\ \A k \in 1 .. 3 : Collections[k] \in Names
  BY Three
<1>2. Present \subseteq Names /\ MaxUpsets \in Nat
  BY PresentNames, VectorStoreAssumption
<1>3. ASSUME NEW a \in Api, Start(a) \/ GoUp(a) \/ SkipPresent(a) \/ CreateCollides(a)
      PROVE  StoreTypes'
  <2>1. api[a] \in [pc : {"down", "create", "index", "up", "blind"}, at : 1 .. 4, saw : SUBSET Names]
    BY DEF StoreTypes
  <2>2. coll' = coll /\ upsets' = upsets /\ api' \in [Api -> [pc : {"down", "create", "index", "up", "blind"},
                                                             at : 1 .. 4, saw : SUBSET Names]]
    BY <1>1, <1>2, <1>3, <2>1 DEF StoreTypes, Start, GoUp, SkipPresent, CreateCollides
  <2>3. api'[a].pc # "index" /\ \A b \in Api : b # a => api'[b] = api[b]
    BY <1>3, <2>1 DEF StoreTypes, Start, GoUp, SkipPresent, CreateCollides
  <2>4. QED
    BY <2>2, <2>3 DEF StoreTypes
<1>4. ASSUME NEW a \in Api, Create(a) \/ IndexFirst(a) \/ IndexPayload(a)
      PROVE  StoreTypes'
  <2>1. /\ api[a] \in [pc : {"down", "create", "index", "up", "blind"}, at : 1 .. 4, saw : SUBSET Names]
        /\ api[a].at <= 3
    BY <1>1, <1>4 DEF StoreTypes, Create, IndexFirst, IndexPayload
  <2>2. coll' \in [Names -> {"absent", "bare", "part", "indexed"}] /\ upsets' = upsets
    BY <1>4 DEF StoreTypes, Create, IndexFirst, IndexPayload
  <2>3. api' \in [Api -> [pc : {"down", "create", "index", "up", "blind"}, at : 1 .. 4, saw : SUBSET Names]]
    <3>1. CASE Create(a)
      BY <2>1, <3>1 DEF StoreTypes, Create
    <3>2. CASE IndexFirst(a) \/ IndexPayload(a)
      BY <2>1, <3>2 DEF StoreTypes, IndexFirst, IndexPayload
    <3>3. QED
      BY <1>4, <3>1, <3>2
  <2>4. api'[a].pc = "index" => api'[a].at <= 3
    <3>1. CASE Create(a)
      BY <2>1, <3>1 DEF StoreTypes, Create
    <3>2. CASE IndexFirst(a) \/ IndexPayload(a)
      BY <2>1, <3>2 DEF StoreTypes, IndexFirst, IndexPayload
    <3>3. QED
      BY <1>4, <3>1, <3>2
  <2>5. \A b \in Api : b # a => api'[b] = api[b]
    BY <1>4 DEF StoreTypes, Create, IndexFirst, IndexPayload
  <2>6. QED
    BY <2>2, <2>3, <2>4, <2>5 DEF StoreTypes
<1>5. ASSUME NEW a \in Api, StartFails(a) \/ Stop(a)
      PROVE  StoreTypes'
  <2>1. /\ api[a] \in [pc : {"down", "create", "index", "up", "blind"}, at : 1 .. 4, saw : SUBSET Names]
        /\ Down \in [pc : {"down", "create", "index", "up", "blind"}, at : 1 .. 4, saw : SUBSET Names]
    BY DEF StoreTypes, Down
  <2>2. coll' = coll /\ upsets' \in 0 .. MaxUpsets
    BY <1>2, <1>5 DEF StoreTypes, StartFails, Stop
  <2>3. api' \in [Api -> [pc : {"down", "create", "index", "up", "blind"}, at : 1 .. 4, saw : SUBSET Names]]
    BY <1>5, <2>1 DEF StoreTypes, StartFails, Stop
  <2>4. api'[a].pc # "index" /\ \A b \in Api : b # a => api'[b] = api[b]
    BY <1>5, <2>1 DEF StoreTypes, StartFails, Stop, Down
  <2>5. QED
    BY <2>2, <2>3, <2>4 DEF StoreTypes
<1>6. CASE EnsureBare
  BY <1>2, <1>6 DEF StoreTypes, EnsureBare
<1>7. QED
  BY <1>3, <1>4, <1>5, <1>6 DEF StoreStep

\* A process that is at the k-th collection, and what is there.
LEMMA RaceTypes ==
    ASSUME StoreTypes, NEW a \in Api
    PROVE  /\ api[a].at \in 1 .. 4 /\ api[a].saw \subseteq Names
           /\ api[a].pc = "create" /\ api[a].at <= Len(Collections) => api[a].at \in 1 .. 3
           /\ api[a].pc = "index" => api[a].at \in 1 .. 3
BY Three DEF StoreTypes

LEMMA OthersWait ==
    ASSUME StoreTypes, NEW a \in Api,
           Start(a) \/ GoUp(a) \/ SkipPresent(a) \/ Create(a) \/ CreateCollides(a)
           \/ IndexFirst(a) \/ IndexPayload(a)
    PROVE  \A b \in Api : b # a => api'[b] = api[b]
BY DEF StoreTypes, Start, GoUp, SkipPresent, Create, CreateCollides, IndexFirst, IndexPayload

\* A collection that is created is the first that was missing.
LEMMA CreateKeeps ==
    ASSUME StoreTypes, RaceInv, NEW a \in Api, Create(a)
    PROVE  RaceInv'
<1> DEFINE k == api[a].at
<1>1. k \in 1 .. 3 /\ Collections[k] \in Names /\ Collections[k] \notin Present /\ Current(a) = Collections[k]
  BY RaceTypes, Three DEF Create, Current
<1>2. /\ api'[a].pc = "index" /\ api'[a].at = k /\ api'[a].saw = api[a].saw
      /\ \A b \in Api : b # a => api'[b] = api[b]
  BY OthersWait DEF Create, StoreTypes
<1>3. coll' = [coll EXCEPT ![Collections[k]] = "bare"] /\ coll \in [Names -> {"absent", "bare", "part", "indexed"}]
  BY <1>1 DEF Create, StoreTypes
<1>4. Present' = Present \cup {Collections[k]}
  BY <1>1, <1>3 DEF Present
<1>5. Present \subseteq Past(k) /\ Past(k) \subseteq Present
  BY <1>1, MissingIsLast DEF RaceInv, InOrder, Create
<1>6. Past(k + 1) = Past(k) \cup {Collections[k]}
  BY <1>1, PastSteps
<1> HIDE DEF k
<1>7. InOrder'
  <2>1. ASSUME NEW i \in 1 .. 3, NEW j \in 1 .. 3, i < j, Collections[j] \in Present'
        PROVE  Collections[i] \in Present'
    <3>1. CASE Collections[j] \in Present
      BY <1>4, <2>1, <3>1 DEF RaceInv, InOrder
    <3>2. CASE Collections[j] = Collections[k]
      <4>1. j = k
        BY <1>1, <3>2, Three
      <4>2. i \in 1 .. k - 1
        BY <1>1, <2>1, <4>1
      <4>3. Collections[i] \in Past(k)
        BY <4>2 DEF Past
      <4>4. QED
        BY <1>4, <1>5, <4>3
    <3>3. QED
      BY <1>4, <2>1, <3>1, <3>2
  <2>2. ASSUME NEW b \in Api
        PROVE  /\ api'[b].saw \subseteq Present'
               /\ api'[b].pc \in {"create", "index", "up"} => Past(api'[b].at) \subseteq Present'
               /\ api'[b].pc = "index" => Collections[api'[b].at] \in Present'
               /\ api'[b].pc = "up" => api'[b].at = 4
    <3>1. CASE b = a
      BY <1>2, <1>4, <1>5, <3>1 DEF RaceInv, InOrder
    <3>2. CASE b # a
      BY <1>2, <1>4, <3>2 DEF RaceInv, InOrder, Current
    <3>3. QED
      BY <3>1, <3>2
  <2>3. QED
    BY <2>1, <2>2 DEF InOrder, Current, Past
<1>8. \A c \in Names : coll'[c] \in {"bare", "part"} => \E b \in Api : api'[b].pc = "index" /\ Collections[api'[b].at] = c
  <2>1. ASSUME NEW c \in Names, coll'[c] \in {"bare", "part"}, c # Collections[k]
        PROVE  \E b \in Api : api'[b].pc = "index" /\ Collections[api'[b].at] = c
    <3>1. coll[c] \in {"bare", "part"}
      BY <1>3, <2>1
    <3>2. PICK b \in Api : api[b].pc = "index" /\ Collections[api[b].at] = c
      BY <3>1 DEF RaceInv, Current
    <3>3. b # a
      BY <3>2 DEF Create
    <3>4. QED
      BY <1>2, <3>2, <3>3
  <2>2. QED
    BY <1>2, <2>1
<1>9. Leads(a)'
  <2>1. Present' \subseteq Past(k + 1)
    BY <1>4, <1>5, <1>6
  <2>2. api'[a].pc = "index" /\ Present' \subseteq api'[a].saw \cup Past(api'[a].at + 1)
    BY <1>2, <2>1
  <2>3. QED
    BY <2>2 DEF Leads, Past
<1>10. QED
  BY <1>7, <1>8, <1>9 DEF RaceInv, Current

\* The other steps: what is there stays what it is, one process moves.
LEMMA MoveKeeps ==
    ASSUME StoreTypes, RaceInv, NEW a \in Api,
           \A b \in Api : b # a => api'[b] = api[b],
           Present' = Present, api'[a].pc \in {"create", "up", "blind"},
           api'[a].saw \subseteq Present,
           api'[a].pc # "blind" => Past(api'[a].at) \subseteq Present,
           api'[a].pc = "up" => api'[a].at = 4,
           \A c \in Names : coll'[c] \in {"bare", "part"} =>
             coll[c] \in {"bare", "part"} /\ (api[a].pc = "index" => c # Current(a)),
           Leads(a) => Leads(a)',
           (\E b \in Api : Leads(b)) \/ Leads(a)'
    PROVE  RaceInv'
<1>1. InOrder'
  <2>1. \A i, j \in 1 .. 3 : i < j /\ Collections[j] \in Present' => Collections[i] \in Present'
    BY DEF RaceInv, InOrder
  <2>2. ASSUME NEW b \in Api
        PROVE  /\ api'[b].saw \subseteq Present'
               /\ api'[b].pc \in {"create", "index", "up"} => Past(api'[b].at) \subseteq Present'
               /\ api'[b].pc = "index" => Collections[api'[b].at] \in Present'
               /\ api'[b].pc = "up" => api'[b].at = 4
    <3>1. CASE b = a
      BY <3>1
    <3>2. CASE b # a
      BY <3>2 DEF RaceInv, InOrder, Current
    <3>3. QED
      BY <3>1, <3>2
  <2>3. QED
    BY <2>1, <2>2 DEF InOrder, Current, Past
<1>2. ASSUME NEW c \in Names, coll'[c] \in {"bare", "part"}
      PROVE  \E b \in Api : api'[b].pc = "index" /\ Collections[api'[b].at] = c
  <2>1. PICK b \in Api : api[b].pc = "index" /\ Collections[api[b].at] = c
    BY <1>2 DEF RaceInv, Current
  <2>2. b # a
    BY <1>2, <2>1 DEF Current
  <2>3. QED
    BY <2>1, <2>2
<1>3. \A b \in Api : b # a /\ Leads(b) => Leads(b)'
  BY DEF Leads, Past
<1>4. \E b \in Api : Leads(b)'
  BY <1>3
<1>5. QED
  BY <1>1, <1>2, <1>4 DEF RaceInv, Current

LEMMA RaceKept ==
    ASSUME StoreTypes, RaceInv, NEW a \in Api,
           Start(a) \/ GoUp(a) \/ SkipPresent(a) \/ Create(a) \/ CreateCollides(a)
           \/ IndexFirst(a) \/ IndexPayload(a)
    PROVE  RaceInv'
<1> DEFINE k == api[a].at
<1>1. \A b \in Api : b # a => api'[b] = api[b]
  BY OthersWait
<1>2. api[a] \in [pc : {"down", "create", "index", "up", "blind"}, at : 1 .. 4, saw : SUBSET Names]
      /\ api \in [Api -> [pc : {"down", "create", "index", "up", "blind"}, at : 1 .. 4, saw : SUBSET Names]]
  BY DEF StoreTypes
<1>3. /\ api[a].saw \subseteq Present
      /\ api[a].pc \in {"create", "index", "up"} => Past(k) \subseteq Present
      /\ api[a].pc # "down" => \E b \in Api : Leads(b)
  BY DEF RaceInv, InOrder
<1>4. coll' = coll => Present' = Present
  BY DEF Present
<1>5. CASE Start(a)
  <2>1. coll' = coll /\ api'[a].pc = "create" /\ api'[a].at = 1 /\ api'[a].saw = Present /\ api[a].pc = "down"
    BY <1>2, <1>5 DEF Start
  <2>2. Leads(a)'
    BY <1>4, <2>1 DEF Leads
  <2>3. QED
    BY <1>1, <1>4, <2>1, <2>2, PastSteps, MoveKeeps
<1>6. CASE GoUp(a)
  <2>1. k = 4
    BY <1>2, <1>6, Three DEF GoUp
  <2>2. /\ coll' = coll /\ api'[a].pc = "up" /\ api'[a].at = k /\ api'[a].saw = api[a].saw
        /\ api[a].pc = "create"
    BY <1>2, <1>6 DEF GoUp
  <2>3. Leads(a)'
    BY <2>2 DEF Leads
  <2>4. QED
    BY <1>1, <1>3, <1>4, <2>1, <2>2, <2>3, MoveKeeps
<1>7. CASE SkipPresent(a)
  <2>1. k \in 1 .. 3 /\ Current(a) = Collections[k] /\ Collections[k] \in api[a].saw
    BY <1>7, RaceTypes DEF SkipPresent, Current
  <2>2. /\ coll' = coll /\ api'[a].pc = "create" /\ api'[a].at = k + 1 /\ api'[a].saw = api[a].saw
        /\ api[a].pc = "create"
    BY <1>2, <1>7 DEF SkipPresent
  <2>3. Past(k + 1) = Past(k) \cup {Collections[k]}
    BY <2>1, PastSteps
  <2>4. Past(k + 1) \subseteq Present
    BY <1>3, <2>1, <2>2, <2>3
  <2>5. Leads(a) => Leads(a)'
    BY <1>4, <2>2, <2>3 DEF Leads, Past
  <2>6. QED
    BY <1>1, <1>3, <1>4, <2>2, <2>4, <2>5, MoveKeeps
<1>8. CASE Create(a)
  BY <1>8, CreateKeeps
<1>9. CASE CreateCollides(a)
  <2>1. k \in 1 .. 3 /\ Collections[k] \in Present /\ Collections[k] \notin api[a].saw
    BY <1>9, RaceTypes DEF CreateCollides, Current
  <2>2. /\ coll' = coll /\ api'[a].pc = "blind" /\ api'[a].at = k /\ api'[a].saw = api[a].saw
        /\ api[a].pc = "create"
    BY <1>2, <1>9 DEF CreateCollides
  <2>3. Collections[k] \notin Past(k)
    BY <2>1, Three DEF Past
  <2>4. ~ Leads(a)
    BY <2>1, <2>2, <2>3 DEF Leads
  <2>5. QED
    BY <1>1, <1>3, <1>4, <2>2, <2>4, MoveKeeps
<1>10. CASE IndexPayload(a)
  <2>1. k \in 1 .. 3 /\ Current(a) = Collections[k] /\ Collections[k] \in Present
    BY <1>10, RaceTypes DEF IndexPayload, Current, RaceInv, InOrder
  <2>2. /\ api'[a].pc = "create" /\ api'[a].at = k + 1 /\ api'[a].saw = api[a].saw
        /\ api[a].pc = "index" /\ coll' = [coll EXCEPT ![Collections[k]] = "indexed"]
    BY <1>2, <1>10, <2>1 DEF IndexPayload
  <2>3. coll \in [Names -> {"absent", "bare", "part", "indexed"}]
    BY DEF StoreTypes
  <2>4. Present' = Present
    BY <2>1, <2>2, <2>3 DEF Present
  <2>5. \A c \in Names : coll'[c] \in {"bare", "part"} => coll[c] \in {"bare", "part"} /\ c # Current(a)
    BY <2>1, <2>2, <2>3
  <2>6. Past(k + 1) = Past(k) \cup {Collections[k]}
    BY <2>1, PastSteps
  <2>7. Past(k + 1) \subseteq Present
    BY <1>3, <2>1, <2>2, <2>6
  <2>8. Leads(a) => Leads(a)'
    BY <2>2, <2>4 DEF Leads, Past
  <2>9. QED
    BY <1>1, <1>3, <2>2, <2>4, <2>5, <2>7, <2>8, MoveKeeps
<1>11. CASE IndexFirst(a)
  <2>1. Collections[k] \in Present /\ Current(a) = Collections[k]
    BY <1>11 DEF IndexFirst, Current, RaceInv, InOrder
  <2>2. api' = api /\ coll' = [coll EXCEPT ![Collections[k]] = "part"] /\ api[a].pc = "index"
    BY <1>11, <2>1 DEF IndexFirst
  <2>3. coll \in [Names -> {"absent", "bare", "part", "indexed"}]
    BY DEF StoreTypes
  <2>4. Present' = Present
    BY <2>1, <2>2, <2>3 DEF Present
  <2>5. \A c \in Names : coll'[c] \in {"bare", "part"} => \E b \in Api : api[b].pc = "index" /\ Current(b) = c
    <3>1. \A c \in Names : c # Collections[k] => coll'[c] = coll[c]
      BY <2>2, <2>3
    <3>2. QED
      BY <2>1, <2>2, <3>1 DEF RaceInv
  <2>6. QED
    BY <2>2, <2>4, <2>5 DEF RaceInv, InOrder, Leads, Past, Current
<1>12. QED
  BY <1>5, <1>6, <1>7, <1>8, <1>9, <1>10, <1>11

LEMMA InitStore == StoreInit => StoreIInv
<1> SUFFICES ASSUME StoreInit
             PROVE  StoreIInv
  OBVIOUS
<1>1. Present = {} /\ \A a \in Api : api[a] = Down
  BY DEF StoreInit, Present
<1>2. StoreTypes
  BY VectorStoreAssumption DEF StoreInit, StoreTypes, Names, Down
<1>3. InOrder
  BY <1>1 DEF InOrder, Down
<1>4. RaceInv
  BY <1>1, <1>3 DEF RaceInv, StoreInit, Down, Names
<1>5. QED
  BY <1>2, <1>4 DEF StoreIInv

LEMMA StoreKept == StoreIInv /\ (StoreStep \/ EnsureBare) => StoreIInv'
<1> SUFFICES ASSUME StoreIInv, StoreStep \/ EnsureBare
             PROVE  StoreIInv'
  OBVIOUS
<1>1. StoreTypes'
  BY StoreTypesKept DEF StoreIInv
<1>2. ASSUME upsets' = 0
      PROVE  RaceInv'
  <2>1. upsets \in Nat
    BY VectorStoreAssumption DEF StoreIInv, StoreTypes
  <2>2. ~ EnsureBare /\ \A a \in Api : ~ StartFails(a) /\ ~ Stop(a)
    BY <1>2, <2>1 DEF EnsureBare, StartFails, Stop
  <2>3. PICK a \in Api : Start(a) \/ GoUp(a) \/ SkipPresent(a) \/ Create(a) \/ CreateCollides(a)
           \/ IndexFirst(a) \/ IndexPayload(a)
    BY <2>2 DEF StoreStep
  <2>4. upsets = 0
    BY <1>2, <2>3 DEF Start, GoUp, SkipPresent, Create, CreateCollides, IndexFirst, IndexPayload
  <2>5. QED
    BY <2>3, <2>4, RaceKept DEF StoreIInv
<1>3. QED
  BY <1>1, <1>2 DEF StoreIInv

\* The steps of the indexers count as upsets or leave the store alone.
LEMMA StoreAlone ==
    ASSUME StoreIInv, coll' = coll, api' = api, upsets' \in 0 .. MaxUpsets, upsets' # upsets => upsets' # 0
    PROVE  StoreIInv'
BY DEF StoreIInv, StoreTypes, RaceInv, InOrder, Leads, Present, Past, Current

\* Once everyone has settled, the leader is up and everything is indexed.
LEMMA WinnerIsUp == StoreIInv => RaceHasWinner
<1> SUFFICES ASSUME StoreIInv, upsets = 0,
                    \A a \in Api : api[a].pc \in {"down", "up", "blind"},
                    \E a \in Api : api[a].pc # "down"
             PROVE  /\ \A c \in DOMAIN coll : coll[c] = "indexed"
                    /\ \E a \in Api : api[a].pc = "up"
  BY DEF RaceHasWinner
<1>1. RaceInv /\ StoreTypes
  BY DEF StoreIInv
<1>2. PICK a \in Api : Leads(a)
  BY <1>1 DEF RaceInv
<1>3. api[a].pc = "up"
  BY <1>2 DEF Leads
<1>4. Past(4) \subseteq Present
  BY <1>1, <1>3 DEF RaceInv, InOrder
<1>5. \A c \in Names : coll[c] \in {"bare", "part", "indexed"}
  BY <1>1, <1>4, PastSteps, PresentNames DEF StoreTypes
<1>6. \A c \in Names : coll[c] \notin {"bare", "part"}
  BY <1>1 DEF RaceInv
<1>7. QED
  BY <1>1, <1>3, <1>5, <1>6, PresentNames

-----------------------------------------------------------------------------
(* Windows of posts.                                                        *)

LEMMA PostBounds ==
    /\ Post \subseteq Nat /\ IsFiniteSet(Post) /\ Window \in Nat /\ Window >= 1 /\ MaxJobs \in Nat
    /\ \A p \in Post : Owner[p] \in Account
    /\ MaxUpsets \in Nat
BY IndexerAssumption, VectorStoreAssumption

LEMMA LeastNumber ==
    ASSUME NEW S, S \subseteq Nat, S # {}
    PROVE  \E x \in S : \A y \in S : x <= y
<1> DEFINE Less == {p \in Nat \X Nat : p[1] < p[2]}
<1>1. IsWellFoundedOn(Less, Nat)
  BY NatLessThanWellFounded, Zenon DEF OpToRel
<1> HIDE DEF Less
<1>2. PICK x \in S : \A y \in S : ~ (<<y, x>> \in Less)
  BY <1>1, WFMin
<1>3. ASSUME NEW y \in S
      PROVE  x <= y
  <2>1. <<y, x>> \in Nat \X Nat /\ <<y, x>> \notin Less
    BY <1>2
  <2>2. ~ (y < x)
    BY <2>1 DEF Less
  <2>3. QED
    BY <2>2
<1>4. QED
  BY <1>3

Later(posts, p) == {q \in posts : q > p}

LEMMA LaterFinite ==
    ASSUME NEW posts \in SUBSET Post, NEW p \in posts
    PROVE  IsFiniteSet(Later(posts, p)) /\ Cardinality(Later(posts, p)) \in Nat
<1>1. IsFiniteSet(posts)
  BY PostBounds, FS_Subset
<1>2. Later(posts, p) \in SUBSET posts
  BY DEF Later
<1>3. QED
  BY <1>1, <1>2, FS_Subset, FS_CardinalityType

\* The window holds no more posts than it may: all of them but the first come
\* after the first, which fewer than Window do.
LEMMA WindowBound ==
    ASSUME NEW posts \in SUBSET Post
    PROVE  /\ MostRecent(posts) \subseteq posts
           /\ IsFiniteSet(MostRecent(posts)) /\ Cardinality(MostRecent(posts)) <= Window
<1> DEFINE recent == MostRecent(posts)
<1>1. recent = {p \in posts : Cardinality(Later(posts, p)) < Window}
  BY DEF MostRecent, Later
<1> HIDE DEF recent
<1>2. IsFiniteSet(recent)
  BY <1>1, PostBounds, FS_Subset
<1>3. CASE recent = {}
  BY <1>1, <1>2, <1>3, FS_EmptySet, PostBounds DEF recent
<1>4. CASE recent # {}
  <2>1. recent \subseteq Nat
    BY <1>1, PostBounds
  <2>2. PICK m \in recent : \A q \in recent : m <= q
    BY <1>4, <2>1, LeastNumber
  <2>3. recent \ {m} \subseteq Later(posts, m)
    BY <1>1, <2>1, <2>2 DEF Later
  <2>4. IsFiniteSet(Later(posts, m)) /\ Cardinality(Later(posts, m)) \in Nat
    BY <1>1, <2>2, LaterFinite
  <2>5. Cardinality(recent \ {m}) <= Cardinality(Later(posts, m))
    BY <2>3, <2>4, FS_Subset
  <2>6. Cardinality(recent \ {m}) = Cardinality(recent) - 1 /\ Cardinality(recent) \in Nat
    BY <1>2, FS_RemoveElement, FS_CardinalityType
  <2>7. Cardinality(Later(posts, m)) < Window
    BY <1>1, <2>2
  <2>8. Cardinality(recent) <= Window
    BY <2>4, <2>5, <2>6, <2>7, PostBounds
  <2>9. QED
    BY <1>1, <1>2, <2>8 DEF recent
<1>5. QED
  BY <1>3, <1>4

\* The latest post has none after it and is in the window.
LEMMA WindowNonempty ==
    ASSUME NEW posts \in SUBSET Post, posts # {}
    PROVE  MostRecent(posts) # {}
<1> DEFINE counts == {Cardinality(Later(posts, p)) : p \in posts}
<1>1. counts \subseteq Nat /\ counts # {}
  BY LaterFinite
<1>2. PICK n \in counts : \A m \in counts : n <= m
  BY <1>1, LeastNumber
<1>3. PICK p \in posts : n = Cardinality(Later(posts, p))
  BY <1>2
<1>4. \A q \in posts : Cardinality(Later(posts, p)) <= Cardinality(Later(posts, q))
  BY <1>2, <1>3
<1> HIDE DEF counts
<1>5. ASSUME NEW q \in Later(posts, p)
      PROVE  FALSE
  <2>1. q \in posts /\ q > p /\ posts \subseteq Nat
    BY PostBounds DEF Later
  <2>2. Later(posts, q) \subseteq Later(posts, p) \ {q}
    <3>1. \A r \in posts : r > q => r > p /\ r # q
      BY <2>1
    <3>2. QED
      BY <3>1 DEF Later
  <2>3. IsFiniteSet(Later(posts, p)) /\ Cardinality(Later(posts, p)) \in Nat
    BY LaterFinite
  <2>4. /\ IsFiniteSet(Later(posts, p) \ {q})
        /\ Cardinality(Later(posts, p) \ {q}) = Cardinality(Later(posts, p)) - 1
    BY <2>3, FS_RemoveElement
  <2>5. Cardinality(Later(posts, q)) <= Cardinality(Later(posts, p)) - 1
    BY <2>2, <2>4, FS_Subset
  <2>6. Cardinality(Later(posts, q)) \in Nat
    BY <2>1, LaterFinite
  <2>7. QED
    BY <1>4, <2>1, <2>3, <2>5, <2>6
<1>6. Cardinality(Later(posts, p)) = 0
  BY <1>5, FS_EmptySet
<1>7. p \in MostRecent(posts)
  BY <1>6, PostBounds DEF MostRecent, Later
<1>8. QED
  BY <1>7

-----------------------------------------------------------------------------
(* The posts: types and windows.                                            *)

Jobs ==
    [pc : {"free", "upsert", "scroll", "vector", "row", "tags"},
     post : Post \cup {0}, got : SUBSET Post]

LEMMA JobTypes ==
    ASSUME PostTypes
    PROVE  /\ Free \in Jobs /\ job \in [Indexer -> Jobs]
           /\ \A i \in Indexer : job[i].pc # "free" => /\ job[i].post \in Post
                                                       /\ Owner[job[i].post] \in Account
BY PostBounds DEF PostTypes, Free, Jobs

\* The posts of an account that are in the order, and the window of them.
LEMMA DatedWindow ==
    ASSUME NEW a \in Account
    PROVE  /\ Dated(a) \in SUBSET Post
           /\ MostRecent(Dated(a)) \in SUBSET Post
           /\ MostRecent(Dated(a)) \in Windows(a)
<1>1. Dated(a) \in SUBSET Post /\ \A p \in Dated(a) : Owner[p] = a
  BY DEF Dated
<1>2. MostRecent(Dated(a)) \subseteq Dated(a) /\ Cardinality(MostRecent(Dated(a))) <= Window
  BY <1>1, WindowBound
<1>3. QED
  BY <1>1, <1>2 DEF Windows

\* What an indexer with a job goes on to.
LEMMA ScrollSteps ==
    ASSUME PostTypes, NEW i \in Indexer, Scroll(i)
    PROVE  LET a == Owner[job[i].post]
               got == MostRecent(Dated(a))
           IN  /\ a \in Account /\ job[i].pc = "scroll" /\ got \in SUBSET Post
               /\ job' = [job EXCEPT ![i].got = got, ![i].pc = IF got = {} THEN "tags" ELSE "vector"]
               /\ job'[i].got = got /\ job'[i].pc = IF got = {} THEN "tags" ELSE "vector"
               /\ job'[i].post = job[i].post
               /\ UNCHANGED <<storeVars, sfw, point, vector, embedding, jobs, blurred>>
<1> DEFINE a == Owner[job[i].post]
           got == MostRecent(Dated(a))
<1>1. job[i].pc = "scroll" /\ a \in Account
  BY JobTypes DEF Scroll
<1>2. got \in SUBSET Post
  BY <1>1, DatedWindow
<1>3. /\ job' = [job EXCEPT ![i].got = got, ![i].pc = IF got = {} THEN "tags" ELSE "vector"]
      /\ UNCHANGED <<storeVars, sfw, point, vector, embedding, jobs, blurred>>
  BY DEF Scroll
<1> HIDE DEF got
<1>4. job'[i].got = got /\ job'[i].pc = (IF got = {} THEN "tags" ELSE "vector") /\ job'[i].post = job[i].post
  BY <1>3, JobTypes DEF Jobs
<1>5. QED
  BY <1>1, <1>2, <1>3, <1>4 DEF got

LEMMA InitPosts == Init => PostTypes /\ WindowInv
<1> SUFFICES ASSUME Init
             PROVE  PostTypes /\ WindowInv
  OBVIOUS
<1>1. PostTypes
  BY PostBounds, IndexerAssumption DEF Init, PostTypes, Free
<1>2. {} \in SUBSET Post /\ Cardinality({}) = 0
  BY FS_EmptySet
<1>3. \A a \in Account : {} \in Windows(a)
  BY <1>2, PostBounds DEF Windows
<1>4. WindowInv
  BY <1>3 DEF Init, WindowInv, Free
<1>5. QED
  BY <1>1, <1>4

LEMMA PostTypesKept == PostTypes /\ [Next]_vars => PostTypes'
<1> SUFFICES ASSUME PostTypes, [Next]_vars
             PROVE  PostTypes'
  OBVIOUS
<1>1. Free \in Jobs /\ job \in [Indexer -> Jobs] /\ Free.pc = "free"
      /\ \A i \in Indexer : job[i].pc # "free" => job[i].post \in Post /\ Owner[job[i].post] \in Account
  BY JobTypes DEF Free
<1>2. ASSUME NEW i \in Indexer, NEW p \in Post, Load(i, p)
      PROVE  PostTypes'
  <2> DEFINE loaded == [Free EXCEPT !.pc = "upsert", !.post = p]
  <2>1. loaded \in Jobs /\ loaded.post = p
    BY <1>1 DEF Free, Jobs
  <2>2. job' = [job EXCEPT ![i] = loaded] /\ jobs' \in 0 .. MaxJobs
    BY <1>2, PostBounds DEF Load, PostTypes
  <2> HIDE DEF loaded
  <2>3. job' \in [Indexer -> Jobs] /\ \A j \in Indexer : job'[j].pc # "free" => job'[j].post \in Post
    BY <1>1, <2>1, <2>2
  <2>4. blurred' \in [Account -> BOOLEAN]
    BY <1>2 DEF Load, PostTypes
  <2>5. QED
    BY <1>2, <2>2, <2>3, <2>4 DEF Load, PostTypes, Jobs
<1>3. ASSUME NEW i \in Indexer, NEW pc \in {"scroll", "row", "tags"}, job[i].pc # "free",
             job' = [job EXCEPT ![i].pc = pc]
      PROVE  job' \in [Indexer -> Jobs] /\ \A j \in Indexer : job'[j].pc # "free" => job'[j].post \in Post
  BY <1>1, <1>3 DEF Jobs
<1>4. ASSUME NEW i \in Indexer, Upsert(i)
      PROVE  PostTypes'
  <2>1. job' \in [Indexer -> Jobs] /\ \A j \in Indexer : job'[j].pc # "free" => job'[j].post \in Post
    BY <1>3, <1>4 DEF Upsert
  <2>2. QED
    BY <1>4, <2>1 DEF Upsert, PostTypes, Jobs
<1>5. ASSUME NEW i \in Indexer, Scroll(i)
      PROVE  PostTypes'
  <2> DEFINE got == MostRecent(Dated(Owner[job[i].post]))
  <2>1. /\ got \in SUBSET Post /\ job[i].pc = "scroll"
        /\ job' = [job EXCEPT ![i].got = got, ![i].pc = IF got = {} THEN "tags" ELSE "vector"]
        /\ UNCHANGED <<sfw, point, vector, embedding, jobs, blurred>>
    BY <1>5, ScrollSteps
  <2> HIDE DEF got
  <2>2. job' \in [Indexer -> Jobs] /\ \A j \in Indexer : job'[j].pc # "free" => job'[j].post \in Post
    BY <1>1, <2>1 DEF Jobs
  <2>3. QED
    BY <2>1, <2>2 DEF PostTypes, Jobs
<1>6. ASSUME NEW i \in Indexer, UpsertAccount(i)
      PROVE  PostTypes'
  <2>1. job' \in [Indexer -> Jobs] /\ \A j \in Indexer : job'[j].pc # "free" => job'[j].post \in Post
    BY <1>3, <1>6 DEF UpsertAccount
  <2>2. vector' \in [Account -> SUBSET Post]
    BY <1>1, <1>6 DEF UpsertAccount, PostTypes, Jobs
  <2>3. QED
    BY <1>6, <2>1, <2>2 DEF UpsertAccount, PostTypes, Jobs
<1>7. ASSUME NEW i \in Indexer, CommitAccount(i)
      PROVE  PostTypes'
  <2>1. job' \in [Indexer -> Jobs] /\ \A j \in Indexer : job'[j].pc # "free" => job'[j].post \in Post
    BY <1>3, <1>7 DEF CommitAccount
  <2>2. embedding' \in [Account -> SUBSET Post]
    BY <1>1, <1>7 DEF CommitAccount, PostTypes, Jobs
  <2>3. QED
    BY <1>7, <2>1, <2>2 DEF CommitAccount, PostTypes, Jobs
<1>8. ASSUME NEW i \in Indexer, UpsertTags(i) \/ NotIndexable(i) \/ CallFails(i)
      PROVE  PostTypes'
  <2>1. job' = [job EXCEPT ![i] = Free] /\ UNCHANGED <<sfw, point, vector, embedding, jobs>>
        /\ blurred' \in [Account -> BOOLEAN]
    BY <1>8 DEF UpsertTags, NotIndexable, CallFails, Abort, PostTypes
  <2>2. job' \in [Indexer -> Jobs] /\ \A j \in Indexer : job'[j].pc # "free" => job'[j].post \in Post
    BY <1>1, <2>1
  <2>3. QED
    BY <2>1, <2>2 DEF PostTypes, Jobs
<1>9. ASSUME NEW p \in Post, TaskUpsert(p) \/ Verdict(p)
      PROVE  PostTypes'
  <2>1. CASE TaskUpsert(p)
    BY <2>1 DEF TaskUpsert, PostTypes
  <2>2. CASE Verdict(p)
    BY <2>2 DEF Verdict, PostTypes
  <2>3. QED
    BY <1>9, <2>1, <2>2
<1>10. CASE UNCHANGED postVars
  BY <1>10 DEF PostTypes, postVars
<1>11. QED
  BY <1>2, <1>4, <1>5, <1>6, <1>7, <1>8, <1>9, <1>10 DEF Next, vars

\* What an indexer holds, one at a time.
HoldsWindow(i) ==
    /\ job[i].pc \in {"vector", "row"} => job[i].got # {} /\ job[i].got \in Windows(Owner[job[i].post])
    /\ job[i].pc = "row" => vector[Owner[job[i].post]] # {}

LEMMA WindowInvDef ==
    WindowInv <=> /\ \A a \in Account : /\ vector[a] \in Windows(a) /\ embedding[a] \in Windows(a)
                                        /\ vector[a] = {} => embedding[a] = {}
                  /\ \A i \in Indexer : HoldsWindow(i)
BY DEF WindowInv, HoldsWindow

\* A step that writes no vector: the indexer that moves holds a window still.
LEMMA WindowAlone ==
    ASSUME PostTypes, WindowInv, NEW i \in Indexer, vector' = vector, embedding' = embedding,
           NEW x, job' = [job EXCEPT ![i] = x],
           x.pc \in {"vector", "row"} => x.got # {} /\ x.got \in Windows(Owner[x.post]),
           x.pc = "row" => vector[Owner[x.post]] # {}
    PROVE  WindowInv'
<1>1. job'[i] = x /\ \A j \in Indexer : j # i => job'[j] = job[j]
  BY DEF PostTypes
<1>2. \A j \in Indexer : HoldsWindow(j)'
  BY <1>1, WindowInvDef DEF HoldsWindow, Windows
<1>3. \A a \in Account : /\ vector'[a] \in Windows(a) /\ embedding'[a] \in Windows(a)
                         /\ vector'[a] = {} => embedding'[a] = {}
  BY DEF WindowInv
<1>4. QED
  BY <1>2, <1>3 DEF WindowInv, HoldsWindow, Windows

LEMMA WindowsKept == PostTypes /\ WindowInv /\ [Next]_vars => WindowInv'
<1> SUFFICES ASSUME PostTypes, WindowInv, [Next]_vars
             PROVE  WindowInv'
  OBVIOUS
<1>1. /\ Free \in Jobs /\ job \in [Indexer -> Jobs] /\ Free.pc = "free"
      /\ vector \in [Account -> SUBSET Post] /\ embedding \in [Account -> SUBSET Post]
      /\ \A i \in Indexer : job[i].pc # "free" => job[i].post \in Post /\ Owner[job[i].post] \in Account
  BY JobTypes DEF Free, PostTypes
<1>2. ASSUME NEW i \in Indexer, NEW p \in Post, Load(i, p)
      PROVE  WindowInv'
  BY <1>2, WindowAlone DEF Load, Free
<1>3. ASSUME NEW i \in Indexer, Upsert(i)
      PROVE  WindowInv'
  <2> DEFINE x == [job[i] EXCEPT !.pc = "scroll"]
  <2>1. x.pc = "scroll" /\ job' = [job EXCEPT ![i] = x]
    BY <1>1, <1>3 DEF Upsert, Jobs
  <2> HIDE DEF x
  <2>2. QED
    BY <1>3, <2>1, WindowAlone DEF Upsert
<1>4. ASSUME NEW i \in Indexer, Scroll(i)
      PROVE  WindowInv'
  <2> DEFINE a == Owner[job[i].post]
             got == MostRecent(Dated(a))
  <2>1. /\ a \in Account /\ job'[i].got = got /\ job'[i].pc = IF got = {} THEN "tags" ELSE "vector"
        /\ job'[i].post = job[i].post /\ vector' = vector /\ embedding' = embedding
        /\ job' = [job EXCEPT ![i].got = got, ![i].pc = IF got = {} THEN "tags" ELSE "vector"]
    BY <1>4, ScrollSteps
  <2>2. got \in Windows(a)
    BY <2>1, DatedWindow
  <2> HIDE DEF got
  <2>3. job' = [job EXCEPT ![i] = job'[i]]
    BY <1>1, <2>1
  <2>4. QED
    BY <2>1, <2>2, <2>3, WindowAlone
<1>5. ASSUME NEW i \in Indexer, UpsertAccount(i)
      PROVE  WindowInv'
  <2> DEFINE a == Owner[job[i].post]
  <2>1. /\ job[i].pc = "vector" /\ a \in Account /\ job[i].got # {} /\ job[i].got \in Windows(a)
        /\ vector' = [vector EXCEPT ![a] = job[i].got] /\ embedding' = embedding
        /\ job' = [job EXCEPT ![i].pc = "row"]
    BY <1>1, <1>5 DEF UpsertAccount, WindowInv
  <2>2. /\ job'[i].pc = "row" /\ job'[i].got = job[i].got /\ job'[i].post = job[i].post
        /\ \A j \in Indexer : j # i => job'[j] = job[j]
    BY <1>1, <2>1 DEF Jobs
  <2> HIDE DEF a
  <2>3. \A b \in Account : /\ vector'[b] \in Windows(b) /\ embedding'[b] \in Windows(b)
                           /\ vector'[b] = {} => embedding'[b] = {}
                           /\ vector[b] # {} => vector'[b] # {}
    BY <1>1, <2>1 DEF WindowInv
  <2>4. HoldsWindow(i)'
    BY <1>1, <2>1, <2>2 DEF HoldsWindow, Windows, a
  <2>5. \A j \in Indexer : j # i => HoldsWindow(j)'
    BY <1>1, <2>2, <2>3, WindowInvDef DEF HoldsWindow, Windows
  <2>6. QED
    BY <2>3, <2>4, <2>5 DEF WindowInv, HoldsWindow, Windows
<1>6. ASSUME NEW i \in Indexer, CommitAccount(i)
      PROVE  WindowInv'
  <2> DEFINE a == Owner[job[i].post]
  <2>1. /\ job[i].pc = "row" /\ a \in Account /\ job[i].got \in Windows(a) /\ vector[a] # {}
        /\ embedding' = [embedding EXCEPT ![a] = job[i].got] /\ vector' = vector
        /\ job' = [job EXCEPT ![i].pc = "tags"]
    BY <1>1, <1>6 DEF CommitAccount, WindowInv
  <2>2. job'[i].pc = "tags" /\ \A j \in Indexer : j # i => job'[j] = job[j]
    BY <1>1, <2>1 DEF Jobs
  <2> HIDE DEF a
  <2>3. \A b \in Account : /\ vector'[b] \in Windows(b) /\ embedding'[b] \in Windows(b)
                           /\ vector'[b] = {} => embedding'[b] = {}
    BY <1>1, <2>1 DEF WindowInv
  <2>4. \A j \in Indexer : HoldsWindow(j)'
    BY <2>1, <2>2, WindowInvDef DEF HoldsWindow, Windows
  <2>5. QED
    BY <2>3, <2>4 DEF WindowInv, HoldsWindow, Windows
<1>7. ASSUME NEW i \in Indexer, UpsertTags(i) \/ NotIndexable(i) \/ CallFails(i)
      PROVE  WindowInv'
  BY <1>1, <1>7, WindowAlone DEF UpsertTags, NotIndexable, CallFails, Abort
<1>8. CASE UNCHANGED <<vector, embedding, job>>
  BY <1>8 DEF WindowInv, Windows
<1>9. ASSUME NEW p \in Post, TaskUpsert(p) \/ Verdict(p)
      PROVE  WindowInv'
  BY <1>8, <1>9 DEF TaskUpsert, Verdict
<1>10. QED
  BY <1>2, <1>3, <1>4, <1>5, <1>6, <1>7, <1>8, <1>9 DEF Next, vars, postVars

-----------------------------------------------------------------------------
(* The posts: quiet jobs.                                                   *)

AllQuiet == \A a \in Account : Quiet(a)

\* Nothing happens to account a.
LEMMA QuietAlone ==
    ASSUME NEW a \in Account, Quiet(a), Busy(a)' = Busy(a), \A i \in Busy(a) : job'[i] = job[i],
           \A p \in Post : Owner[p] = a => point'[p] = point[p],
           \A i \in Busy(a) : job[i].post \in Post,
           vector'[a] = vector[a], embedding'[a] = embedding[a], blurred'[a] = blurred[a]
    PROVE  Quiet(a)'
<1>1. Dated(a)' = Dated(a)
  BY DEF Dated
<1>2. Fresh(a)' = Fresh(a)
  BY <1>1 DEF Fresh, MostRecent
<1>3. \A i \in Busy(a) : point'[job[i].post] = point[job[i].post]
  BY DEF Busy
<1>4. \A i \in Busy(a) : QuietJob(i, a) => QuietJob(i, a)'
  BY <1>1, <1>2, <1>3 DEF QuietJob, MostRecent
<1>5. QED
  BY <1>2, <1>4 DEF Quiet

\* A job of account a moves: the jobs of the others do not.
LEMMA OtherAccounts ==
    ASSUME PostTypes, AllQuiet, NEW i \in Indexer, NEW a \in Account, NEW x,
           job' = [job EXCEPT ![i] = x],
           job[i].pc # "free" => Owner[job[i].post] = a,
           x.pc # "free" => Owner[x.post] = a,
           NEW b \in Account, b # a,
           \A p \in Post : Owner[p] = b => point'[p] = point[p],
           vector'[b] = vector[b], embedding'[b] = embedding[b], blurred'[b] = blurred[b]
    PROVE  Quiet(b)'
<1>1. job'[i] = x /\ \A j \in Indexer : j # i => job'[j] = job[j]
  BY DEF PostTypes
<1>2. i \notin Busy(b) /\ i \notin Busy(b)'
  BY <1>1 DEF Busy
<1>3. Busy(b)' = Busy(b) /\ \A j \in Busy(b) : job'[j] = job[j]
  BY <1>1, <1>2 DEF Busy
<1>4. \A j \in Busy(b) : job[j].post \in Post
  BY JobTypes DEF Busy
<1>5. Quiet(b)
  BY DEF AllQuiet
<1>6. QED
  BY <1>3, <1>4, <1>5, QuietAlone

\* The account of a job that moves, when it was quiet.
LEMMA ThisAccount ==
    ASSUME PostTypes, AllQuiet, NEW i \in Indexer, job[i].pc # "free",
           ~ blurred[Owner[job[i].post]]
    PROVE  QuietJob(i, Owner[job[i].post])
<1>1. Owner[job[i].post] \in Account /\ i \in Busy(Owner[job[i].post])
  BY JobTypes DEF Busy
<1>2. QED
  BY <1>1 DEF AllQuiet, Quiet

\* A job goes on with the same post.
LEMMA GoesOn ==
    ASSUME PostTypes, NEW i \in Indexer, NEW a \in Account, job[i].pc # "free", Owner[job[i].post] = a,
           \A j \in Indexer : j # i => job'[j] = job[j],
           job'[i].pc # "free", job'[i].post = job[i].post,
           Busy(a) = {i}
    PROVE  Busy(a)' = {i}
<1>1. Busy(a) = {j \in Indexer : job[j].pc # "free" /\ Owner[job[j].post] = a}
  BY DEF Busy
<1>2. Busy(a)' = {j \in Indexer : job'[j].pc # "free" /\ Owner[job'[j].post] = a}
  BY DEF Busy
<1>3. QED
  BY <1>1, <1>2

LEMMA AllQuietKept == PostTypes /\ AllQuiet /\ [Next]_vars => AllQuiet'
<1> SUFFICES ASSUME PostTypes, AllQuiet, [Next]_vars
             PROVE  AllQuiet'
  OBVIOUS
<1>1. /\ job \in [Indexer -> Jobs] /\ Free.pc = "free"
      /\ \A i \in Indexer : job[i].pc # "free" => job[i].post \in Post /\ Owner[job[i].post] \in Account
      /\ blurred \in [Account -> BOOLEAN] /\ point \in [Post -> {"none", "dated", "iso"}]
      /\ vector \in [Account -> SUBSET Post] /\ embedding \in [Account -> SUBSET Post]
      /\ \A p \in Post : Owner[p] \in Account
  BY JobTypes, PostBounds DEF Free, PostTypes
<1>2. ASSUME NEW i \in Indexer, NEW p \in Post, Load(i, p)
      PROVE  AllQuiet'
  <2> DEFINE a == Owner[p]
             x == [Free EXCEPT !.pc = "upsert", !.post = p]
  <2>1. /\ job[i].pc = "free" /\ job' = [job EXCEPT ![i] = x] /\ x.pc = "upsert" /\ x.post = p
        /\ blurred' = [blurred EXCEPT ![a] = Busy(a) # {}] /\ UNCHANGED <<point, vector, embedding>>
        /\ a \in Account
    BY <1>1, <1>2 DEF Load, Free
  <2> HIDE DEF x
  <2>2. ASSUME NEW b \in Account, b # a
        PROVE  Quiet(b)'
    <3>1. blurred'[b] = blurred[b] /\ vector'[b] = vector[b] /\ embedding'[b] = embedding[b] /\ point' = point
      BY <2>1, <2>2
    <3>2. QED
      BY <2>1, <2>2, <3>1, OtherAccounts
  <2>3. Quiet(a)'
    <3>1. blurred'[a] = (Busy(a) # {})
      BY <1>1, <2>1
    <3>2. CASE Busy(a) # {}
      BY <3>1, <3>2 DEF Quiet
    <3>3. CASE Busy(a) = {}
      <4>1. job'[i] = x /\ \A j \in Indexer : j # i => job'[j] = job[j]
        BY <1>1, <2>1
      <4>2. Busy(a)' = {i}
        BY <2>1, <3>3, <4>1 DEF Busy
      <4>3. QuietJob(i, a)'
        BY <2>1, <4>1, <4>2 DEF QuietJob
      <4>4. QED
        BY <4>2, <4>3 DEF Quiet
    <3>4. QED
      BY <3>2, <3>3
  <2>4. QED
    BY <2>2, <2>3 DEF AllQuiet
<1>3. ASSUME NEW i \in Indexer, NEW a \in Account, job[i].pc # "free", Owner[job[i].post] = a,
             NEW x, job' = [job EXCEPT ![i] = x],
             x.pc # "free" => x.post = job[i].post,
             \A p \in Post : Owner[p] # a => point'[p] = point[p],
             \A b \in Account : b # a =>
                 vector'[b] = vector[b] /\ embedding'[b] = embedding[b] /\ blurred'[b] = blurred[b],
             ~ blurred'[a] => ~ blurred[a],
             \/ blurred'[a]
             \/ x.pc # "free" /\ (Busy(a)' = {i} => QuietJob(i, a)')
             \/ x.pc = "free" /\ Fresh(a)'
      PROVE  AllQuiet'
  <2>1. job'[i] = x /\ \A j \in Indexer : j # i => job'[j] = job[j]
    BY <1>1, <1>3
  <2>2. ASSUME NEW b \in Account, b # a
        PROVE  Quiet(b)'
    BY <1>3, <2>1, <2>2, OtherAccounts
  <2>3. ASSUME ~ blurred'[a]
        PROVE  Quiet(a)'
    <3>1. QuietJob(i, a) /\ Busy(a) = {i}
      BY <1>3, <2>3, ThisAccount DEF QuietJob
    <3>2. CASE x.pc # "free"
      <4>1. Busy(a)' = {i}
        BY <1>3, <2>1, <3>1, <3>2, GoesOn
      <4>2. QED
        BY <1>3, <2>3, <3>2, <4>1 DEF Quiet
    <3>3. CASE x.pc = "free"
      <4>1. Busy(a)' = {}
        BY <2>1, <3>1, <3>3 DEF Busy
      <4>2. QED
        BY <1>3, <2>3, <3>3, <4>1 DEF Quiet
    <3>4. QED
      BY <3>2, <3>3
  <2>4. Quiet(a)'
    BY <2>3 DEF Quiet
  <2>5. QED
    BY <2>2, <2>4 DEF AllQuiet
<1>4. ASSUME NEW i \in Indexer, Upsert(i)
      PROVE  AllQuiet'
  <2> DEFINE x == [job[i] EXCEPT !.pc = "scroll"]
  <2>0. PICK a \in Account : Owner[job[i].post] = a
    BY <1>1, <1>4 DEF Upsert
  <2>1. /\ job' = [job EXCEPT ![i] = x] /\ x.pc = "scroll" /\ x.post = job[i].post /\ job[i].pc = "upsert"
        /\ point' = [point EXCEPT ![job[i].post] = "dated"] /\ UNCHANGED <<vector, embedding, blurred>>
    BY <1>1, <1>4 DEF Upsert, Jobs
  <2> HIDE DEF x
  <2>2. job[i].post \in Post /\ point'[job[i].post] = "dated" /\ job'[i] = x
        /\ \A p \in Post : Owner[p] # a => point'[p] = point[p]
    BY <1>1, <2>0, <2>1
  <2>3. Busy(a)' = {i} => QuietJob(i, a)'
    BY <2>1, <2>2 DEF QuietJob
  <2>4. QED
    BY <1>3, <2>0, <2>1, <2>2, <2>3
<1>5. ASSUME NEW i \in Indexer, Scroll(i)
      PROVE  AllQuiet'
  <2>0. PICK a \in Account : Owner[job[i].post] = a
    BY ScrollSteps, <1>5
  <2> DEFINE got == MostRecent(Dated(a))
  <2>1. /\ job'[i].got = got /\ job'[i].pc = IF got = {} THEN "tags" ELSE "vector"
        /\ job'[i].post = job[i].post /\ UNCHANGED <<point, vector, embedding, blurred>>
        /\ job[i].pc = "scroll"
        /\ job' = [job EXCEPT ![i].got = got, ![i].pc = IF got = {} THEN "tags" ELSE "vector"]
    BY <1>5, <2>0, ScrollSteps
  <2>2. Dated(a)' = Dated(a)
    BY <2>1 DEF Dated
  <2>3. ASSUME ~ blurred[a], Busy(a)' = {i}
        PROVE  QuietJob(i, a)'
    <3>1. point[job[i].post] = "dated"
      BY <2>1, <2>3, <2>0, ThisAccount DEF QuietJob
    <3>2. job[i].post \in Dated(a)
      BY <1>1, <2>0, <2>1, <3>1 DEF Dated
    <3>3. got # {}
      BY <2>1, <3>2, WindowNonempty, DatedWindow
    <3>4. job'[i].pc = "vector" /\ job'[i].got = MostRecent(Dated(a))'
      BY <2>1, <2>2, <3>3 DEF MostRecent
    <3>5. QED
      BY <2>3, <3>4 DEF QuietJob
  <2> HIDE DEF got
  <2>4. job' = [job EXCEPT ![i] = job'[i]]
    BY <1>1, <2>1
  <2>5. job'[i].pc # "free"
    BY <2>1
  <2>6. QED
    BY <1>3, <2>0, <2>1, <2>3, <2>4, <2>5
<1>6. ASSUME NEW i \in Indexer, UpsertAccount(i)
      PROVE  AllQuiet'
  <2>0. PICK a \in Account : Owner[job[i].post] = a
    BY <1>1, <1>6 DEF UpsertAccount
  <2> DEFINE x == [job[i] EXCEPT !.pc = "row"]
  <2>1. /\ job' = [job EXCEPT ![i] = x] /\ x.pc = "row" /\ x.post = job[i].post /\ x.got = job[i].got
        /\ job[i].pc = "vector" /\ a \in Account
        /\ vector' = [vector EXCEPT ![a] = job[i].got] /\ UNCHANGED <<point, embedding, blurred>>
    BY <1>1, <1>6, <2>0 DEF UpsertAccount, Jobs
  <2> HIDE DEF x
  <2>2. job'[i] = x /\ vector'[a] = job[i].got /\ \A b \in Account : b # a => vector'[b] = vector[b]
    BY <1>1, <2>1
  <2>3. MostRecent(Dated(a))' = MostRecent(Dated(a))
    BY <2>1 DEF MostRecent, Dated
  <2>4. ASSUME ~ blurred[a], Busy(a)' = {i}
        PROVE  QuietJob(i, a)'
    <3>1. job[i].got = MostRecent(Dated(a))
      BY <2>1, <2>4, <2>0, ThisAccount DEF QuietJob
    <3>2. QED
      BY <2>1, <2>2, <2>3, <2>4, <3>1 DEF QuietJob
  <2>5. QED
    BY <1>3, <2>0, <2>1, <2>2, <2>4
<1>7. ASSUME NEW i \in Indexer, CommitAccount(i)
      PROVE  AllQuiet'
  <2>0. PICK a \in Account : Owner[job[i].post] = a
    BY <1>1, <1>7 DEF CommitAccount
  <2> DEFINE x == [job[i] EXCEPT !.pc = "tags"]
  <2>1. /\ job' = [job EXCEPT ![i] = x] /\ x.pc = "tags" /\ x.post = job[i].post
        /\ job[i].pc = "row" /\ a \in Account
        /\ embedding' = [embedding EXCEPT ![a] = job[i].got] /\ UNCHANGED <<point, vector, blurred>>
    BY <1>1, <1>7, <2>0 DEF CommitAccount, Jobs
  <2> HIDE DEF x
  <2>2. job'[i] = x /\ embedding'[a] = job[i].got /\ \A b \in Account : b # a => embedding'[b] = embedding[b]
    BY <1>1, <2>1
  <2>3. MostRecent(Dated(a))' = MostRecent(Dated(a))
    BY <2>1 DEF MostRecent, Dated
  <2>4. ASSUME ~ blurred[a], Busy(a)' = {i}
        PROVE  QuietJob(i, a)'
    <3>1. job[i].got = MostRecent(Dated(a)) /\ vector[a] = job[i].got
      BY <2>1, <2>4, <2>0, ThisAccount DEF QuietJob
    <3>2. Fresh(a)'
      BY <2>1, <2>2, <2>3, <3>1 DEF Fresh
    <3>3. QED
      BY <2>1, <2>2, <2>4, <3>2 DEF QuietJob
  <2>5. QED
    BY <1>3, <2>0, <2>1, <2>2, <2>4
<1>8. ASSUME NEW i \in Indexer, UpsertTags(i)
      PROVE  AllQuiet'
  <2>0. PICK a \in Account : Owner[job[i].post] = a
    BY <1>1, <1>8 DEF UpsertTags
  <2>1. /\ job' = [job EXCEPT ![i] = Free] /\ job[i].pc = "tags" /\ a \in Account
        /\ UNCHANGED <<point, vector, embedding, blurred>>
    BY <1>1, <1>8, <2>0 DEF UpsertTags
  <2>2. Fresh(a)' = Fresh(a)
    BY <2>1 DEF Fresh, MostRecent, Dated
  <2>3. ~ blurred[a] => Fresh(a)
    BY <2>1, <2>0, ThisAccount DEF QuietJob
  <2>4. QED
    BY <1>1, <1>3, <2>0, <2>1, <2>2, <2>3
<1>9. ASSUME NEW i \in Indexer, NotIndexable(i) \/ CallFails(i)
      PROVE  AllQuiet'
  <2>0. PICK a \in Account : Owner[job[i].post] = a
    BY <1>1, <1>9 DEF NotIndexable, CallFails
  <2>1. /\ job' = [job EXCEPT ![i] = Free] /\ job[i].pc # "free" /\ a \in Account
        /\ blurred' = [blurred EXCEPT ![a] = TRUE] /\ UNCHANGED <<point, vector, embedding>>
    BY <1>1, <1>9, <2>0 DEF NotIndexable, CallFails, Abort
  <2>2. blurred'[a] /\ \A b \in Account : b # a => blurred'[b] = blurred[b]
    BY <1>1, <2>1
  <2>3. QED
    BY <1>1, <1>3, <2>0, <2>1, <2>2
<1>10. ASSUME NEW p \in Post, TaskUpsert(p)
       PROVE  AllQuiet'
  <2>1. /\ point' = [point EXCEPT ![p] = "iso"] /\ blurred' = [blurred EXCEPT ![Owner[p]] = TRUE]
        /\ UNCHANGED <<vector, embedding, job>> /\ Owner[p] \in Account
    BY <1>1, <1>10 DEF TaskUpsert
  <2>2. \A b \in Account : Busy(b)' = Busy(b) /\ \A i \in Busy(b) : job[i].post \in Post
    BY <1>1, <2>1 DEF Busy
  <2>3. ASSUME NEW b \in Account, b # Owner[p]
        PROVE  Quiet(b)'
    <3>1. blurred'[b] = blurred[b] /\ \A q \in Post : Owner[q] = b => point'[q] = point[q]
      BY <1>1, <2>1, <2>3
    <3>2. QED
      BY <2>1, <2>2, <2>3, <3>1, QuietAlone DEF AllQuiet
  <2>4. Quiet(Owner[p])'
    BY <1>1, <2>1 DEF Quiet
  <2>5. QED
    BY <2>3, <2>4 DEF AllQuiet
<1>11. CASE UNCHANGED <<point, vector, embedding, job, blurred>>
  <2>1. \A b \in Account : Busy(b)' = Busy(b) /\ \A i \in Busy(b) : job[i].post \in Post
    BY <1>1, <1>11 DEF Busy
  <2>2. QED
    BY <1>11, <2>1, QuietAlone DEF AllQuiet
<1>12. QED
  BY <1>2, <1>4, <1>5, <1>6, <1>7, <1>8, <1>9, <1>10, <1>11 DEF Next, vars, postVars, Verdict

-----------------------------------------------------------------------------
(* The windows of a long text.                                              *)

LEMMA TextBounds ==
    /\ WINDOW_TOKENS \in Nat /\ OVERLAP_TOKENS \in Nat /\ Step \in Nat
    /\ Step >= 1 /\ WINDOW_TOKENS >= 1 /\ Step = WINDOW_TOKENS - OVERLAP_TOKENS
BY TextAssumption DEF Step

LEMMA Multiples ==
    ASSUME NEW j \in Nat
    PROVE  /\ j * Step \in Nat /\ (j + 1) * Step = j * Step + Step /\ j <= j * Step
           /\ \A k \in Nat : j <= k => j * Step <= k * Step
           /\ \A k \in Nat : j < k => j * Step + Step <= k * Step
<1>1. Step \in Nat /\ Step >= 1
  BY TextBounds
<1>2. j * Step \in Nat /\ (j + 1) * Step = j * Step + Step
  BY <1>1
<1>3. j <= j * Step
  <2>1. j * Step = j + j * (Step - 1) /\ j * (Step - 1) \in Nat
    BY <1>1
  <2>2. QED
    BY <2>1
<1>4. ASSUME NEW k \in Nat, j <= k
      PROVE  j * Step <= k * Step
  <2>1. k * Step = j * Step + (k - j) * Step /\ (k - j) * Step \in Nat
    BY <1>1, <1>4
  <2>2. QED
    BY <1>2, <2>1
<1>5. ASSUME NEW k \in Nat, j < k
      PROVE  j * Step + Step <= k * Step
  <2>1. j + 1 <= k /\ j + 1 \in Nat
    BY <1>5
  <2>2. k * Step = (j + 1) * Step + (k - (j + 1)) * Step /\ (k - (j + 1)) * Step \in Nat
    BY <1>1, <2>1
  <2> DEFINE rest == (k - (j + 1)) * Step
  <2>3. rest \in Nat /\ k * Step = j * Step + Step + rest
    BY <1>2, <2>2
  <2> HIDE DEF rest
  <2>4. QED
    BY <1>1, <1>2, <2>3
<1>6. QED
  BY <1>2, <1>3, <1>4, <1>5

\* The j-th window of a text that is longer than one.
IsWindow(j, n) == j * Step < n /\ (j = 0 \/ (j - 1) * Step + WINDOW_TOKENS < n)
Span(j, n) == j * Step .. End(j * Step, n) - 1

LEMMA WindowsOf ==
    ASSUME NEW n \in Nat, n > WINDOW_TOKENS
    PROVE  /\ \A c \in Passages(n) : \E j \in Nat : IsWindow(j, n) /\ c = Span(j, n)
           /\ \A j \in Nat : IsWindow(j, n) => Span(j, n) \in Passages(n)
<1>1. n # 0 /\ ~ (n <= WINDOW_TOKENS)
  BY TextBounds
<1>2. Passages(n) = {start .. End(start, n) - 1 : start \in Starts(n)}
  BY <1>1 DEF Passages
<1>3. ASSUME NEW c \in Passages(n)
      PROVE  \E j \in Nat : IsWindow(j, n) /\ c = Span(j, n)
  <2>1. PICK start \in Starts(n) : c = start .. End(start, n) - 1
    BY <1>2
  <2>2. PICK j \in 0 .. n : IsWindow(j, n) /\ start = j * Step
    BY DEF Starts, IsWindow
  <2>3. QED
    BY <2>1, <2>2 DEF Span
<1>4. ASSUME NEW j \in Nat, IsWindow(j, n)
      PROVE  Span(j, n) \in Passages(n)
  <2>1. j \in 0 .. n
    BY <1>4, Multiples DEF IsWindow
  <2>2. j * Step \in Starts(n)
    BY <1>4, <2>1 DEF Starts, IsWindow
  <2>3. QED
    BY <1>2, <2>2 DEF Span
<1>5. QED
  BY <1>3, <1>4

LEMMA Ends ==
    ASSUME NEW n \in Nat, NEW j \in Nat, IsWindow(j, n)
    PROVE  /\ j * Step \in Nat /\ End(j * Step, n) \in Nat
           /\ j * Step < End(j * Step, n)
           /\ End(j * Step, n) <= n /\ End(j * Step, n) <= j * Step + WINDOW_TOKENS
           /\ End(j * Step, n) = n \/ End(j * Step, n) = j * Step + WINDOW_TOKENS
<1> DEFINE start == j * Step
<1>1. start \in Nat /\ start < n
  BY Multiples DEF IsWindow
<1> HIDE DEF start
<1>2. /\ End(start, n) \in Nat /\ start < End(start, n)
      /\ End(start, n) <= n /\ End(start, n) <= start + WINDOW_TOKENS
      /\ End(start, n) = n \/ End(start, n) = start + WINDOW_TOKENS
  BY <1>1, TextBounds DEF End
<1>3. QED
  BY <1>1, <1>2 DEF start

\* The first window that goes past a token begins before it.
LEMMA TokenInWindow ==
    ASSUME NEW n \in Nat, n > WINDOW_TOKENS, NEW t \in 0 .. n - 1
    PROVE  \E j \in Nat : IsWindow(j, n) /\ t \in Span(j, n)
<1> DEFINE past == {j \in Nat : j * Step + WINDOW_TOKENS > t}
<1>1. t + 1 \in past
  BY Multiples, TextBounds
<1>2. PICK j \in past : \A k \in past : j <= k
  BY <1>1, LeastNumber
<1>3. j \in Nat /\ j * Step \in Nat /\ j * Step + WINDOW_TOKENS > t
  BY <1>2, Multiples
<1>4. IsWindow(j, n) /\ j * Step <= t
  <2>1. CASE j = 0
    BY <2>1, TextBounds DEF IsWindow
  <2>2. CASE j # 0
    <3>1. j - 1 \in Nat /\ ~ (j <= j - 1) /\ (j - 1) + 1 = j
      BY <1>3, <2>2
    <3>2. ~ ((j - 1) * Step + WINDOW_TOKENS > t)
      BY <1>2, <3>1
    <3>3. (j - 1) * Step \in Nat /\ j * Step = (j - 1) * Step + Step
      BY <3>1, Multiples
    <3>4. (j - 1) * Step + WINDOW_TOKENS <= t /\ Step <= WINDOW_TOKENS
      BY <3>2, <3>3, TextBounds
    <3>5. j * Step <= t /\ t < n
      BY <1>3, <3>3, <3>4, TextBounds
    <3>6. (j - 1) * Step + WINDOW_TOKENS < n
      BY <3>3, <3>4, <3>5, TextBounds
    <3>7. QED
      BY <1>3, <3>5, <3>6 DEF IsWindow
  <2>3. QED
    BY <2>1, <2>2
<1>5. t < End(j * Step, n) /\ End(j * Step, n) \in Nat
  BY <1>3, <1>4, Ends, TextBounds
<1>6. t \in Span(j, n)
  BY <1>3, <1>4, <1>5 DEF Span
<1>7. QED
  BY <1>3, <1>4, <1>6

\* A later window goes further.
LEMMA LaterEnds ==
    ASSUME NEW n \in Nat, NEW j \in Nat, NEW k \in Nat, k < j, IsWindow(j, n), IsWindow(k, n)
    PROVE  End(k * Step, n) < End(j * Step, n)
<1>1. j - 1 \in Nat /\ k <= j - 1 /\ (j - 1) + 1 = j /\ j # 0
  OBVIOUS
<1>2. k * Step <= (j - 1) * Step /\ j * Step = (j - 1) * Step + Step /\ k * Step \in Nat /\ (j - 1) * Step \in Nat
  BY <1>1, Multiples
<1>3. (j - 1) * Step + WINDOW_TOKENS < n
  BY <1>1 DEF IsWindow
<1>4. k * Step + WINDOW_TOKENS < n /\ k * Step + WINDOW_TOKENS < j * Step + WINDOW_TOKENS
  BY <1>2, <1>3, TextBounds
<1>5. QED
  BY <1>2, <1>4, Ends, TextBounds

\* A token in three windows would be past the end of the first of them.
LEMMA FarApart ==
    ASSUME NEW n \in Nat, NEW j \in Nat, NEW k \in Nat, j + 2 <= k, IsWindow(j, n), IsWindow(k, n),
           2 * OVERLAP_TOKENS <= WINDOW_TOKENS
    PROVE  Span(j, n) \cap Span(k, n) = {}
<1>1. j + 1 \in Nat /\ j < j + 1 /\ j + 1 < k
  OBVIOUS
<1>2. /\ j * Step + Step <= (j + 1) * Step /\ (j + 1) * Step + Step <= k * Step
      /\ j * Step \in Nat /\ (j + 1) * Step \in Nat /\ k * Step \in Nat
  BY <1>1, Multiples
<1>3. j * Step + WINDOW_TOKENS <= k * Step
  BY <1>2, TextBounds
<1>4. End(j * Step, n) \in Nat /\ End(j * Step, n) <= k * Step
  BY <1>2, <1>3, Ends, TextBounds
<1>5. \A x \in Int : ~ (x \in j * Step .. End(j * Step, n) - 1 /\ x \in k * Step .. End(k * Step, n) - 1)
  BY <1>2, <1>4, Ends
<1>6. QED
  BY <1>5 DEF Span

\* A passage is an interval of at most a window.
LEMMA PassageIs ==
    ASSUME NEW n \in Nat, NEW c \in Passages(n)
    PROVE  \E first, last \in Nat :
             first < last /\ last - first <= WINDOW_TOKENS /\ last <= n /\ c = first .. last - 1
<1>1. n # 0
  BY DEF Passages
<1>2. CASE n <= WINDOW_TOKENS
  <2>1. c = 0 .. n - 1
    BY <1>1, <1>2 DEF Passages
  <2>2. 0 < n /\ n - 0 <= WINDOW_TOKENS
    BY <1>1, <1>2
  <2>3. QED
    BY <2>1, <2>2
<1>3. CASE n > WINDOW_TOKENS
  <2>1. PICK j \in Nat : IsWindow(j, n) /\ c = Span(j, n)
    BY <1>3, WindowsOf
  <2> DEFINE first == j * Step
             last == End(j * Step, n)
  <2>2. /\ first \in Nat /\ last \in Nat /\ first < last /\ last <= n
        /\ last <= first + WINDOW_TOKENS
    BY <2>1, Ends
  <2>3. c = first .. last - 1
    BY <2>1 DEF Span
  <2> HIDE DEF first, last
  <2>4. QED
    BY <2>2, <2>3, TextBounds
<1>4. QED
  BY <1>2, <1>3, TextBounds

\* What is read of a passage: its first tokens.
LEMMA ReadIs ==
    ASSUME NEW first \in Nat, NEW last \in Nat, first < last, NEW limit \in Nat \ {0},
           NEW t \in first .. last - 1
    PROVE  t \in ReadOf(first .. last - 1, limit) <=> t - first < limit
<1>1. first \in first .. last - 1
  OBVIOUS
<1>2. t - first < limit => \A s \in first .. last - 1 : t - s < limit
  OBVIOUS
<1>3. QED
  BY <1>1, <1>2 DEF ReadOf

\* A token that is not read has one that is before it, the last its passage
\* was read up to.
LEMMA TailsLost ==
    ASSUME NEW n \in Nat, UNION Passages(n) = 0 .. n - 1,
           NEW limit \in 1 .. WINDOW_TOKENS, NEW t \in (0 .. n - 1) \ UNION Embedded(n, limit)
    PROVE  \E u \in UNION Embedded(n, limit) : u < t /\ t - u <= WINDOW_TOKENS - limit
<1>1. PICK c \in Passages(n) : t \in c
  OBVIOUS
<1>2. PICK first, last \in Nat :
        first < last /\ last - first <= WINDOW_TOKENS /\ last <= n /\ c = first .. last - 1
  BY <1>1, PassageIs
<1>3. ReadOf(c, limit) \in Embedded(n, limit)
  BY <1>1 DEF Embedded
<1>4. t \in Int /\ first <= t /\ t < last /\ limit \in Nat \ {0} /\ limit <= WINDOW_TOKENS /\ WINDOW_TOKENS \in Nat
  BY <1>1, <1>2, TextBounds
<1>5. t - first >= limit
  <2>1. t \notin ReadOf(c, limit)
    BY <1>3
  <2>2. QED
    BY <1>1, <1>2, <1>4, <2>1, ReadIs
<1> DEFINE u == first + limit - 1
<1>6. u \in first .. last - 1 /\ u - first < limit /\ u < t /\ t - u <= WINDOW_TOKENS - limit
  BY <1>2, <1>4, <1>5
<1>7. u \in ReadOf(c, limit)
  <2> HIDE DEF u
  <2>1. QED
    BY <1>2, <1>4, <1>6, ReadIs
<1>8. QED
  BY <1>3, <1>6, <1>7

\* ChunksCover, for a text of n tokens.
LEMMA WindowsCover == ChunksCover
<1> SUFFICES ASSUME NEW n \in 0 .. MaxTokens
             PROVE  /\ UNION Passages(n) = 0 .. n - 1
                    /\ \A limit \in 1 .. WINDOW_TOKENS :
                         LET read == UNION Embedded(n, limit)
                         IN  \A t \in (0 .. n - 1) \ read :
                               \E u \in read : u < t /\ t - u <= WINDOW_TOKENS - limit
                    /\ \A c, d \in Passages(n) : c \subseteq d => c = d
                    /\ 2 * OVERLAP_TOKENS <= WINDOW_TOKENS =>
                         \A c, d, e \in Passages(n) : c # d /\ d # e /\ c # e => c \cap d \cap e = {}
  BY DEF ChunksCover
<1>1. n \in Nat
  BY TextAssumption
<1>2. CASE n = 0
  <2>1. Passages(n) = {} /\ 0 .. n - 1 = {}
    BY <1>2 DEF Passages
  <2>2. QED
    BY <2>1
<1>3. CASE n # 0 /\ n <= WINDOW_TOKENS
  <2>1. Passages(n) = {0 .. n - 1}
    BY <1>3 DEF Passages
  <2>2. UNION Passages(n) = 0 .. n - 1
    BY <2>1
  <2>3. \A limit \in 1 .. WINDOW_TOKENS : \A t \in (0 .. n - 1) \ UNION Embedded(n, limit) :
          \E u \in UNION Embedded(n, limit) : u < t /\ t - u <= WINDOW_TOKENS - limit
    BY <1>1, <2>2, TailsLost
  <2>4. QED
    BY <2>1, <2>3
<1>4. CASE n > WINDOW_TOKENS
  <2>1. \A c \in Passages(n) : \E j \in Nat : IsWindow(j, n) /\ c = Span(j, n)
    BY <1>1, <1>4, WindowsOf
  <2>2. UNION Passages(n) = 0 .. n - 1
    <3>1. ASSUME NEW c \in Passages(n), NEW t \in c
          PROVE  t \in 0 .. n - 1
      <4>1. PICK j \in Nat : IsWindow(j, n) /\ c = Span(j, n)
        BY <2>1
      <4>2. j * Step \in Nat /\ End(j * Step, n) \in Nat /\ End(j * Step, n) <= n
        BY <1>1, <4>1, Ends
      <4>3. t \in j * Step .. End(j * Step, n) - 1
        BY <3>1, <4>1 DEF Span
      <4>4. QED
        BY <1>1, <4>2, <4>3
    <3>2. ASSUME NEW t \in 0 .. n - 1
          PROVE  t \in UNION Passages(n)
      BY <1>1, <1>4, TokenInWindow, WindowsOf
    <3>3. QED
      BY <3>1, <3>2
  <2>3. ASSUME NEW c \in Passages(n), NEW d \in Passages(n), c \subseteq d
        PROVE  c = d
    <3>1. PICK j \in Nat : IsWindow(j, n) /\ c = Span(j, n)
      BY <2>1
    <3>2. PICK k \in Nat : IsWindow(k, n) /\ d = Span(k, n)
      BY <2>1
    <3> DEFINE first == j * Step
               last == End(j * Step, n)
    <3>3. /\ first \in Nat /\ last \in Nat /\ first < last
          /\ k * Step \in Nat /\ End(k * Step, n) \in Nat
      BY <1>1, <3>1, <3>2, Ends
    <3>4. first \in c /\ last - 1 \in c
      <4>1. c = first .. last - 1
        BY <3>1 DEF Span
      <4> HIDE DEF first, last
      <4>2. QED
        BY <3>3, <4>1
    <3>5. first \in k * Step .. End(k * Step, n) - 1 /\ last - 1 \in k * Step .. End(k * Step, n) - 1
      BY <2>3, <3>2, <3>4 DEF Span
    <3>6. k * Step <= first /\ last <= End(k * Step, n)
      <4> HIDE DEF first, last
      <4>1. QED
        BY <3>3, <3>5
    <3>7. ~ (j < k)
      <4>1. j < k => first + Step <= k * Step
        BY Multiples
      <4> HIDE DEF first, last
      <4>2. QED
        BY <3>3, <3>6, <4>1, TextBounds
    <3>8. ~ (k < j)
      <4>1. k < j => End(k * Step, n) < last
        BY <1>1, <3>1, <3>2, LaterEnds
      <4> HIDE DEF first, last
      <4>2. QED
        BY <3>3, <3>6, <4>1
    <3>9. j = k
      BY <3>7, <3>8
    <3>10. QED
      BY <3>1, <3>2, <3>9
  <2>4. ASSUME 2 * OVERLAP_TOKENS <= WINDOW_TOKENS,
               NEW c \in Passages(n), NEW d \in Passages(n), NEW e \in Passages(n), c # d, d # e, c # e
        PROVE  c \cap d \cap e = {}
    <3>1. PICK i \in Nat : IsWindow(i, n) /\ c = Span(i, n)
      BY <2>1
    <3>2. PICK j \in Nat : IsWindow(j, n) /\ d = Span(j, n)
      BY <2>1
    <3>3. PICK k \in Nat : IsWindow(k, n) /\ e = Span(k, n)
      BY <2>1
    <3>4. i # j /\ j # k /\ i # k
      BY <2>4, <3>1, <3>2, <3>3
    <3>5. \/ i + 2 <= j \/ j + 2 <= i \/ j + 2 <= k
          \/ k + 2 <= j \/ i + 2 <= k \/ k + 2 <= i
      BY <3>4
    <3>6. QED
      BY <1>1, <2>4, <3>1, <3>2, <3>3, <3>5, FarApart
  <2>5. \A limit \in 1 .. WINDOW_TOKENS : \A t \in (0 .. n - 1) \ UNION Embedded(n, limit) :
          \E u \in UNION Embedded(n, limit) : u < t /\ t - u <= WINDOW_TOKENS - limit
    BY <1>1, <2>2, TailsLost
  <2>6. QED
    BY <2>2, <2>3, <2>4, <2>5
<1>5. QED
  BY <1>1, <1>2, <1>3, <1>4, TextBounds

(* For every length of a text, every window and every overlap smaller than  *)
(* it, each token of the text is in a window, no window lies within another *)
(* and, with an overlap of half a window at most, no token is in three; and *)
(* for every number of tokens an encoder reads of a window, what it leaves  *)
(* out between two tokens it reads, or at the end, is no longer than what a *)
(* window has more (text.py:139-156, 193-223).                              *)
THEOREM TextsAreCovered == ChunksCover /\ (Spec => []TextsCovered)
<1>1. TextsCovered
  BY WindowsCover DEF TextsCovered
<1>2. QED
  BY <1>1, WindowsCover, PTL

-----------------------------------------------------------------------------
(* Rows of a batch of images, by the least number of images for which they  *)
(* would not be what they should.                                           *)

\* The prefixes of a sequence of sequences, joined, are a function that the
\* definition of FlattenSeq chooses.
IsJoin(h, s) ==
    h = [i \in 1 .. Len(s) |-> IF i = 1 THEN s[i] ELSE h[i - 1] \o s[i]]

LEMMA JoinExists ==
    ASSUME NEW s, Len(s) \in Nat \ {0}
    PROVE  \E h : IsJoin(h, s)
<1> DEFINE JoinedTo(n, g) == /\ g = [i \in 1 .. n |-> g[i]]
                             /\ \A i \in 1 .. n : g[i] = IF i = 1 THEN s[i] ELSE g[i - 1] \o s[i]
           none == {n \in Nat \ {0} : ~ \E g : JoinedTo(n, g)}
<1>1. ASSUME none # {} PROVE FALSE
  <2>0. PICK n \in none : \A m \in none : n <= m
    <3> HIDE DEF none
    <3>1. none \subseteq Nat
      BY DEF none
    <3>2. QED
      BY <1>1, <3>1, LeastNumber
  <2>1. n \in Nat \ {0} /\ n \in Int /\ ~ \E g : JoinedTo(n, g)
    OBVIOUS
  <2>2. CASE n = 1
    <3> DEFINE f == [i \in 1 .. 1 |-> s[i]]
    <3>1. JoinedTo(1, f)
      OBVIOUS
    <3>2. QED
      BY <2>1, <2>2, <3>1
  <2>3. CASE n # 1
    <3>1. n - 1 \in Nat \ {0} /\ n - 1 \in 1 .. n /\ n \in 1 .. n /\ n - 1 # n
      BY <2>1, <2>3
    <3>a. n - 1 \notin none
      <4> HIDE DEF none
      <4>1. ~ (n <= n - 1)
        BY <2>1
      <4>2. QED
        BY <2>0, <4>1
    <3>2. PICK g : JoinedTo(n - 1, g)
      BY <3>1, <3>a
    <3> DEFINE f == [i \in 1 .. n |-> IF i = n THEN g[n - 1] \o s[n] ELSE g[i]]
    <3>3. \A i \in 1 .. n : i # n => i \in 1 .. n - 1 /\ f[i] = g[i]
      BY <2>1
    <3>4. f[n] = g[n - 1] \o s[n] /\ f[n - 1] = g[n - 1]
      BY <2>1, <3>1
    <3>5. ASSUME NEW i \in 1 .. n PROVE f[i] = IF i = 1 THEN s[i] ELSE f[i - 1] \o s[i]
      <4>1. CASE i = n
        BY <2>3, <3>4, <4>1
      <4>2. CASE i # n
        <5>1. i \in 1 .. n - 1 /\ f[i] = g[i]
          BY <3>3, <4>2
        <5>2. i # 1 => i - 1 \in 1 .. n /\ i - 1 # n
          BY <2>1, <5>1
        <5>3. i # 1 => f[i - 1] = g[i - 1]
          BY <3>3, <5>2
        <5>4. g[i] = IF i = 1 THEN s[i] ELSE g[i - 1] \o s[i]
          BY <3>2, <5>1
        <5>5. QED
          BY <5>1, <5>3, <5>4
      <4>3. QED
        BY <4>1, <4>2
    <3>6. f = [i \in 1 .. n |-> f[i]]
      OBVIOUS
    <3> HIDE DEF f
    <3>7. JoinedTo(n, f)
      BY <3>5, <3>6
    <3>8. QED
      BY <2>1, <3>6, <3>7
  <2>4. QED
    BY <2>2, <2>3
<1>2. PICK f : JoinedTo(Len(s), f)
  BY <1>1
<1>3. f = [i \in 1 .. Len(s) |-> IF i = 1 THEN s[i] ELSE f[i - 1] \o s[i]]
  BY <1>2
<1>4. QED
  BY <1>3 DEF IsJoin

LEMMA FlattenIsJoin ==
    ASSUME NEW s, Len(s) \in Nat \ {0}
    PROVE  \E h : IsJoin(h, s) /\ FlattenSeq(s) = h[Len(s)]
<1> DEFINE h == CHOOSE h : h = [i \in 1 .. Len(s) |-> IF i = 1 THEN s[i] ELSE h[i - 1] \o s[i]]
<1>1. FlattenSeq(s) = h[Len(s)]
  BY DEF FlattenSeq
<1>2. IsJoin(h, s)
  BY JoinExists DEF IsJoin
<1>3. QED
  BY <1>1, <1>2

\* FlattenSeq joins the sequences one after the other.
LEMMA FlattenSteps ==
    ASSUME NEW X, NEW s \in Seq(Seq(X))
    PROVE  \E g : /\ g[0] = <<>> /\ FlattenSeq(s) = g[Len(s)]
                  /\ \A i \in 1 .. Len(s) : g[i] = g[i - 1] \o s[i]
<1>1. Len(s) \in Nat /\ s = [i \in 1 .. Len(s) |-> s[i]] /\ \A i \in 1 .. Len(s) : s[i] \in Seq(X)
  OBVIOUS
<1>2. CASE Len(s) = 0
  <2> DEFINE g == [i \in {0} |-> <<>>]
  <2>1. s = <<>> /\ FlattenSeq(s) = s
    BY <1>2 DEF FlattenSeq
  <2>2. g[0] = <<>> /\ FlattenSeq(s) = g[Len(s)] /\ 1 .. Len(s) = {}
    BY <1>2, <2>1
  <2> HIDE DEF g
  <2>3. QED
    BY <2>2
<1>3. CASE Len(s) # 0
  <2>1. PICK h : IsJoin(h, s) /\ FlattenSeq(s) = h[Len(s)]
    BY <1>1, <1>3, FlattenIsJoin
  <2> DEFINE g == [i \in 0 .. Len(s) |-> IF i = 0 THEN <<>> ELSE h[i]]
  <2>2. ASSUME NEW i \in 1 .. Len(s) PROVE g[i] = g[i - 1] \o s[i]
    <3>1. g[i] = h[i] /\ h[i] = IF i = 1 THEN s[i] ELSE h[i - 1] \o s[i]
      <4>1. h = [j \in 1 .. Len(s) |-> IF j = 1 THEN s[j] ELSE h[j - 1] \o s[j]]
        BY <2>1 DEF IsJoin
      <4>2. i \in 0 .. Len(s) /\ i # 0
        BY <1>1
      <4>3. g[i] = h[i]
        BY <4>2
      <4> HIDE DEF g
      <4>4. QED
        BY <4>1, <4>3
    <3>2. CASE i = 1
      <4>1. g[i - 1] = <<>> /\ g[i] = s[1]
        BY <3>1, <3>2
      <4>2. <<>> \o s[1] = s[1]
        BY <1>1, <3>2
      <4>3. QED
        BY <3>2, <4>1, <4>2
    <3>3. CASE i # 1
      <4>1. i - 1 \in 0 .. Len(s) /\ i - 1 # 0
        BY <1>1, <3>3
      <4>2. QED
        BY <3>1, <3>3, <4>1
    <3>4. QED
      BY <3>2, <3>3
  <2>3. g[0] = <<>> /\ FlattenSeq(s) = g[Len(s)]
    BY <1>1, <1>3, <2>1
  <2> HIDE DEF g
  <2>4. QED
    BY <2>2, <2>3
<1>4. QED
  BY <1>2, <1>3

\* An image that looks like it.
LEMMA LooksAlike ==
    ASSUME NEW cache \in Caches, NEW x \in Readable
    PROVE  EmbedImage(x, cache) \in Readable /\ Phash[EmbedImage(x, cache)] = Phash[x]
<1>1. PICK hashes \in SUBSET {Phash[y] : y \in Readable} :
        cache \in {f \in [hashes -> Readable] : \A h \in hashes : Phash[f[h]] = h}
  BY DEF Caches
<1>2. QED
  BY <1>1 DEF EmbedImage, Cached

\* The row of image i, if it has one.
RowsOf(paths, cache, i) ==
    IF paths[i] \in Readable THEN <<EmbedImage(paths[i], cache)>> ELSE <<>>

LEMMA BatchOfRows ==
    ASSUME NEW n \in Nat, NEW paths \in [1 .. n -> Image], NEW cache \in Caches
    PROVE  /\ Len(paths) = n
           /\ EmbedImagesBatch(paths, cache) = FlattenSeq([i \in 1 .. n |-> RowsOf(paths, cache, i)])
<1> DEFINE M == Misses(paths, cache)
           Result(i) == IF \E j \in M : Place(paths, j) = i
                          THEN <<paths[CHOOSE j \in M : Place(paths, j) = i]>>
                        ELSE IF Cached(cache, paths[i]) THEN <<cache[Phash[paths[i]]]>> ELSE <<>>
<1>1. ASSUME NEW i \in 1 .. n PROVE Result(i) = RowsOf(paths, cache, i)
  <2>1. i \in M <=> paths[i] \in Readable /\ ~ Cached(cache, paths[i])
    BY DEF Misses
  <2>2. (\E j \in M : Place(paths, j) = i) <=> i \in M
    BY DEF Place
  <2>3. i \in M => (CHOOSE j \in M : Place(paths, j) = i) = i
    BY DEF Place
  <2> HIDE DEF M
  <2>4. CASE i \in M
    BY <2>1, <2>2, <2>3, <2>4 DEF RowsOf, EmbedImage
  <2>5. CASE i \notin M
    BY <2>1, <2>2, <2>5 DEF RowsOf, EmbedImage, Cached
  <2>6. QED
    BY <2>4, <2>5
<1>2. EmbedImagesBatch(paths, cache) = FlattenSeq([i \in DOMAIN paths |-> Result(i)])
  BY DEF EmbedImagesBatch
<1>3. DOMAIN paths = 1 .. n /\ Len(paths) = n
  OBVIOUS
<1> HIDE DEF Result
<1>4. [i \in DOMAIN paths |-> Result(i)] = [i \in 1 .. n |-> RowsOf(paths, cache, i)]
  BY <1>1, <1>3
<1>5. QED
  BY <1>2, <1>3, <1>4

LEMMA Counting ==
    ASSUME NEW n \in Nat, NEW paths \in [1 .. n -> Image]
    PROVE  /\ ReadableUpTo(paths, 0) = 0
           /\ \A i \in 0 .. n : ReadableUpTo(paths, i) \in Nat
           /\ \A i \in 1 .. n : ReadableUpTo(paths, i) =
                ReadableUpTo(paths, i - 1) + (IF paths[i] \in Readable THEN 1 ELSE 0)
<1> DEFINE R(i) == {j \in 1 .. i : paths[j] \in Readable}
<1>1. ASSUME NEW i \in 0 .. n PROVE IsFiniteSet(R(i)) /\ Cardinality(R(i)) \in Nat
  <2>1. 1 \in Int /\ i \in Int
    OBVIOUS
  <2>2. IsFiniteSet(1 .. i)
    BY <2>1, FS_Interval, Zenon
  <2>3. IsFiniteSet(R(i))
    BY <2>2, FS_Subset
  <2>4. QED
    BY <2>3, FS_CardinalityType
<1>2. R(0) = {}
  OBVIOUS
<1>3. ASSUME NEW i \in 1 .. n
      PROVE  Cardinality(R(i)) = Cardinality(R(i - 1)) + (IF paths[i] \in Readable THEN 1 ELSE 0)
  <2>1. i - 1 \in 0 .. n /\ i \notin R(i - 1)
    OBVIOUS
  <2>2. IsFiniteSet(R(i - 1)) /\ Cardinality(R(i - 1)) \in Nat
    BY <1>1, <2>1
  <2>3. CASE paths[i] \in Readable
    <3>1. R(i) = R(i - 1) \cup {i}
      BY <2>3
    <3> HIDE DEF R
    <3>2. Cardinality(R(i - 1) \cup {i}) = Cardinality(R(i - 1)) + 1
      BY <2>1, <2>2, FS_AddElement
    <3>3. QED
      BY <2>3, <3>1, <3>2
  <2>4. CASE paths[i] \notin Readable
    <3>1. R(i) = R(i - 1)
      BY <2>4
    <3> HIDE DEF R
    <3>2. QED
      BY <2>2, <2>4, <3>1
  <2>5. QED
    BY <2>3, <2>4
<1>4. \A i : ReadableUpTo(paths, i) = Cardinality(R(i))
  BY DEF ReadableUpTo
<1>5. ReadableUpTo(paths, 0) = 0
  BY <1>2, <1>4, FS_EmptySet
<1> HIDE DEF R
<1>6. QED
  BY <1>1, <1>3, <1>4, <1>5

\* The rows of the first i images.
RowsTo(rows, paths, cache, i) ==
    /\ rows \in Seq(Readable)
    /\ Len(rows) = ReadableUpTo(paths, i)
    /\ \A j \in 1 .. i : paths[j] \in Readable =>
         /\ ReadableUpTo(paths, j) \in 1 .. Len(rows)
         /\ rows[ReadableUpTo(paths, j)] = EmbedImage(paths[j], cache)
    /\ \A k \in 1 .. Len(rows) :
         \E j \in 1 .. i : paths[j] \in Readable /\ rows[k] = EmbedImage(paths[j], cache)

LEMMA OneMoreRow ==
    ASSUME NEW n \in Nat, NEW paths \in [1 .. n -> Image], NEW cache \in Caches,
           NEW i \in 1 .. n, NEW rows, RowsTo(rows, paths, cache, i - 1)
    PROVE  RowsTo(rows \o RowsOf(paths, cache, i), paths, cache, i)
<1> DEFINE R(j) == ReadableUpTo(paths, j)
           E(j) == EmbedImage(paths[j], cache)
           more == rows \o RowsOf(paths, cache, i)
<1>1. /\ rows \in Seq(Readable) /\ Len(rows) = R(i - 1)
      /\ \A j \in 1 .. i - 1 : paths[j] \in Readable =>
           R(j) \in 1 .. Len(rows) /\ rows[R(j)] = E(j)
      /\ \A k \in 1 .. Len(rows) :
           \E j \in 1 .. i - 1 : paths[j] \in Readable /\ rows[k] = E(j)
  BY DEF RowsTo
<1>2. /\ \A j \in 0 .. n : R(j) \in Nat
      /\ R(i) = R(i - 1) + (IF paths[i] \in Readable THEN 1 ELSE 0)
  BY Counting
<1>3. i - 1 \in 0 .. n /\ \A j \in 1 .. i : j = i \/ j \in 1 .. i - 1
  OBVIOUS
<1>4. CASE paths[i] \notin Readable
  <2>1. more = rows
    BY <1>1, <1>4 DEF RowsOf
  <2>2. Len(rows) = R(i)
    BY <1>1, <1>2, <1>3, <1>4
  <2>3. \A j \in 1 .. i : paths[j] \in Readable => j \in 1 .. i - 1
    BY <1>3, <1>4
  <2>4. \A j \in 1 .. i - 1 : j \in 1 .. i
    OBVIOUS
  <2> HIDE DEF R, E
  <2>5. /\ \A j \in 1 .. i : paths[j] \in Readable => R(j) \in 1 .. Len(rows) /\ rows[R(j)] = E(j)
        /\ \A k \in 1 .. Len(rows) :
             \E j \in 1 .. i : paths[j] \in Readable /\ rows[k] = E(j)
    BY <1>1, <2>3, <2>4
  <2>6. RowsTo(rows, paths, cache, i)
    BY <1>1, <2>2, <2>5 DEF RowsTo, R, E
  <2>7. QED
    BY <2>1, <2>6
<1>5. CASE paths[i] \in Readable
  <2>1. E(i) \in Readable
    BY <1>5, LooksAlike
  <2>2. more = Append(rows, E(i))
    BY <1>1, <1>5, <2>1 DEF RowsOf
  <2> HIDE DEF E
  <2>3. /\ more \in Seq(Readable) /\ Len(more) = Len(rows) + 1
        /\ more[Len(rows) + 1] = E(i)
        /\ \A k \in 1 .. Len(rows) : more[k] = rows[k]
    BY <1>1, <2>1, <2>2
  <2>4. Len(rows) \in Nat /\ Len(more) = R(i)
    BY <1>1, <1>2, <1>3, <1>5, <2>3
  <2> HIDE DEF R, more
  <2>5. ASSUME NEW j \in 1 .. i, paths[j] \in Readable
        PROVE  R(j) \in 1 .. Len(more) /\ more[R(j)] = E(j)
    <3>1. CASE j = i
      BY <2>3, <2>4, <3>1
    <3>2. CASE j # i
      <4>1. R(j) \in 1 .. Len(rows) /\ rows[R(j)] = E(j)
        BY <1>1, <1>3, <2>5, <3>2
      <4>2. QED
        BY <2>3, <2>4, <4>1
    <3>3. QED
      BY <3>1, <3>2
  <2>6. ASSUME NEW k \in 1 .. Len(more)
        PROVE  \E j \in 1 .. i : paths[j] \in Readable /\ more[k] = E(j)
    <3>1. k \in 1 .. Len(rows) \/ k = Len(rows) + 1
      BY <2>3, <2>4
    <3>2. CASE k = Len(rows) + 1
      <4>1. i \in 1 .. i
        OBVIOUS
      <4>2. QED
        BY <1>5, <2>3, <3>2, <4>1
    <3>3. CASE k \in 1 .. Len(rows)
      <4>1. PICK j \in 1 .. i - 1 : paths[j] \in Readable /\ rows[k] = E(j)
        BY <1>1, <3>3
      <4>2. j \in 1 .. i
        OBVIOUS
      <4>3. QED
        BY <2>3, <3>3, <4>1, <4>2
    <3>4. QED
      BY <3>1, <3>2, <3>3
  <2>7. QED
    BY <2>3, <2>4, <2>5, <2>6 DEF RowsTo, R, E, more
<1>6. QED
  BY <1>4, <1>5

LEMMA BatchRows ==
    ASSUME NEW n \in Nat, NEW paths \in [1 .. n -> Image], NEW cache \in Caches
    PROVE  RowsTo(EmbedImagesBatch(paths, cache), paths, cache, n)
<1> DEFINE s == [i \in 1 .. n |-> RowsOf(paths, cache, i)]
<1>1. \A i \in 1 .. n : RowsOf(paths, cache, i) \in Seq(Readable)
  BY LooksAlike DEF RowsOf
<1>2. s \in Seq(Seq(Readable)) /\ Len(s) = n /\ \A i \in 1 .. n : s[i] = RowsOf(paths, cache, i)
  BY <1>1
<1>3. EmbedImagesBatch(paths, cache) = FlattenSeq(s)
  BY BatchOfRows
<1> HIDE DEF s
<1>4. PICK g : /\ g[0] = <<>> /\ FlattenSeq(s) = g[Len(s)]
               /\ \A i \in 1 .. Len(s) : g[i] = g[i - 1] \o s[i]
  BY <1>2, FlattenSteps
<1>5. RowsTo(g[0], paths, cache, 0)
  BY <1>4, Counting DEF RowsTo
<1> DEFINE wrong == {i \in 0 .. n : ~ RowsTo(g[i], paths, cache, i)}
<1>6. ASSUME wrong # {} PROVE FALSE
  <2>1. wrong \subseteq Nat
    OBVIOUS
  <2> HIDE DEF wrong
  <2>2. PICK i \in wrong : \A j \in wrong : i <= j
    BY <1>6, <2>1, LeastNumber
  <2>3. i \in 0 .. n /\ ~ RowsTo(g[i], paths, cache, i)
    BY DEF wrong
  <2>4. i # 0
    BY <1>5, <2>3
  <2>5. i \in 1 .. n /\ i - 1 \in 0 .. n /\ ~ (i <= i - 1)
    BY <2>3, <2>4
  <2>6. RowsTo(g[i - 1], paths, cache, i - 1)
    BY <2>2, <2>5 DEF wrong
  <2>7. g[i] = g[i - 1] \o RowsOf(paths, cache, i)
    BY <1>2, <1>4, <2>5
  <2>8. QED
    BY <2>3, <2>5, <2>6, <2>7, OneMoreRow
<1>7. QED
  BY <1>2, <1>3, <1>4, <1>6

(* BatchAligned, for a batch of n images.                                   *)
LEMMA RowsAligned == BatchAligned
<1>1. SUFFICES ASSUME NEW n \in 0 .. MaxImages, NEW paths \in [1 .. n -> Image],
                      NEW cache \in Caches
               PROVE  LET rows == EmbedImagesBatch(paths, cache)
                      IN  /\ Len(rows) = ReadableUpTo(paths, Len(paths))
                          /\ \A i \in DOMAIN paths : paths[i] \in Readable =>
                               Phash[rows[ReadableUpTo(paths, i)]] = Phash[paths[i]]
                          /\ Len(paths) = 1 /\ paths[1] \in Readable =>
                               rows = <<EmbedImage(paths[1], cache)>>
  BY DEF BatchAligned, BoundedSeq, SeqOf
<1> DEFINE rows == EmbedImagesBatch(paths, cache)
<1>2. n \in Nat /\ Len(paths) = n /\ DOMAIN paths = 1 .. n
  BY ImageAssumption
<1>3. RowsTo(rows, paths, cache, n)
  BY <1>2, BatchRows
<1> HIDE DEF rows
<1>4. Len(rows) = ReadableUpTo(paths, Len(paths))
  BY <1>2, <1>3 DEF RowsTo
<1>5. ASSUME NEW i \in DOMAIN paths, paths[i] \in Readable
      PROVE  Phash[rows[ReadableUpTo(paths, i)]] = Phash[paths[i]]
  <2>1. rows[ReadableUpTo(paths, i)] = EmbedImage(paths[i], cache)
    BY <1>2, <1>3, <1>5 DEF RowsTo
  <2>2. QED
    BY <1>5, <2>1, LooksAlike
<1>6. ASSUME Len(paths) = 1, paths[1] \in Readable
      PROVE  rows = <<EmbedImage(paths[1], cache)>>
  <2>1. n = 1 /\ 1 \in 1 .. n
    BY <1>2, <1>6
  <2>2. ReadableUpTo(paths, 1) = 1
    <3>1. ReadableUpTo(paths, 0) = 0
          /\ ReadableUpTo(paths, 1) = ReadableUpTo(paths, 1 - 1) + 1
      BY <1>2, <1>6, <2>1, Counting
    <3>2. QED
      BY <3>1
  <2>3. rows \in Seq(Readable) /\ Len(rows) = 1 /\ rows[1] = EmbedImage(paths[1], cache)
    BY <1>3, <1>6, <2>1, <2>2 DEF RowsTo
  <2>4. QED
    BY <2>3
<1>7. QED
  BY <1>4, <1>5, <1>6 DEF rows

\* What is read of a text, in and out of windows.
LEMMA TextRead ==
    ASSUME NEW tokens \in 0 .. MaxTokens
    PROVE  LET text == UNION Embedded(tokens, ENCODER_TOKENS)
           IN  /\ ENCODER_TOKENS >= WINDOW_TOKENS => text = 0 .. tokens - 1
               /\ tokens > 0 => 0 \in text
               /\ text \subseteq 0 .. tokens - 1
<1> DEFINE text == UNION Embedded(tokens, ENCODER_TOKENS)
<1>1. tokens \in Nat /\ ENCODER_TOKENS \in Nat \ {0}
  BY TextAssumption
<1>2. UNION Passages(tokens) = 0 .. tokens - 1
  BY WindowsCover DEF ChunksCover
<1>3. text \subseteq 0 .. tokens - 1
  BY <1>2 DEF Embedded, ReadOf
<1>4. ASSUME NEW c \in Passages(tokens), NEW t \in c,
             ENCODER_TOKENS >= WINDOW_TOKENS \/ t = 0
      PROVE  t \in text
  <2>1. PICK first, last \in Nat :
          first < last /\ last - first <= WINDOW_TOKENS /\ last <= tokens /\ c = first .. last - 1
    BY <1>1, PassageIs
  <2>2. t \in first .. last - 1 /\ t - first < ENCODER_TOKENS
    BY <1>1, <1>4, <2>1, TextBounds
  <2>3. t \in ReadOf(c, ENCODER_TOKENS)
    BY <1>1, <2>1, <2>2, ReadIs
  <2>4. QED
    BY <2>3 DEF Embedded
<1>5. \A t \in 0 .. tokens - 1 : \E c \in Passages(tokens) : t \in c
  BY <1>2
<1>6. tokens > 0 => 0 \in 0 .. tokens - 1
  BY <1>1
<1> HIDE DEF text
<1>7. ENCODER_TOKENS >= WINDOW_TOKENS => text = 0 .. tokens - 1
  BY <1>3, <1>4, <1>5
<1>8. tokens > 0 => 0 \in text
  BY <1>4, <1>5, <1>6
<1>9. QED
  BY <1>3, <1>7, <1>8 DEF text

(* EmbeddingWhole, for a post with that text, those images and tags.        *)
LEMMA PostIsWhole == EmbeddingWhole
<1>1. SUFFICES ASSUME NEW tokens \in 0 .. MaxTokens,
                      NEW paths \in BoundedSeq(Image, MaxImages),
                      NEW tags \in SUBSET Tag, NEW cache \in Caches
               PROVE  LET made == PostEmbedding(tokens, paths, tags, cache)
                          read == ToSet(paths) \cap Readable
                      IN  IF paths # <<>> /\ read = {} THEN made.image = NaN /\ made.text = {}
                          ELSE /\ ENCODER_TOKENS >= WINDOW_TOKENS => UNION made.text = 0 .. tokens - 1
                               /\ tokens > 0 => 0 \in UNION made.text
                               /\ UNION made.text \subseteq 0 .. tokens - 1
                               /\ made.tags = tags
                               /\ {Phash[x] : x \in made.image} = {Phash[x] : x \in read}
  BY Zenon DEF EmbeddingWhole
<1> PICK n \in 0 .. MaxImages : paths \in [1 .. n -> Image]
  BY DEF BoundedSeq, SeqOf
<1> DEFINE rows == EmbedImagesBatch(paths, cache)
           vec == PostEmbedding(tokens, paths, tags, cache)
           read == ToSet(paths) \cap Readable
           Shown == ToSet(rows)
<1>2. n \in Nat /\ Len(paths) = n /\ DOMAIN paths = 1 .. n
  BY ImageAssumption
<1>3. read = {paths[j] : j \in {k \in 1 .. n : paths[k] \in Readable}}
  BY <1>2 DEF ToSet
<1>4. RowsTo(rows, paths, cache, n)
  BY <1>2, BatchRows
<1>5. vec = BuildPostEmbedding(Embedded(tokens, ENCODER_TOKENS),
                               IF paths # <<>> /\ Shown = {} THEN NaN ELSE Shown, tags)
  BY DEF PostEmbedding, TextEmbedding, TagEmbedding, ImageEmbedding
<1> HIDE DEF rows, vec, read
<1>6. Shown = {EmbedImage(paths[j], cache) : j \in {k \in 1 .. n : paths[k] \in Readable}}
  <2>1. DOMAIN rows = 1 .. Len(rows)
    BY <1>4 DEF RowsTo
  <2>2. ASSUME NEW k \in 1 .. Len(rows)
        PROVE  \E j \in 1 .. n : paths[j] \in Readable /\ rows[k] = EmbedImage(paths[j], cache)
    BY <1>4 DEF RowsTo
  <2>3. ASSUME NEW j \in 1 .. n, paths[j] \in Readable
        PROVE  \E k \in 1 .. Len(rows) : rows[k] = EmbedImage(paths[j], cache)
    BY <1>4, <2>3 DEF RowsTo
  <2>4. \A x : x \in Shown <=> \E k \in 1 .. Len(rows) : x = rows[k]
    BY <2>1 DEF ToSet
  <2> HIDE DEF Shown
  <2>5. \A x : x \in Shown <=>
          \E j \in 1 .. n : paths[j] \in Readable /\ x = EmbedImage(paths[j], cache)
    <3>1. ASSUME NEW x \in Shown
          PROVE  \E j \in 1 .. n : paths[j] \in Readable /\ x = EmbedImage(paths[j], cache)
      <4>1. PICK k \in 1 .. Len(rows) : x = rows[k]
        BY <2>4
      <4>2. QED
        BY <2>2, <4>1
    <3>2. ASSUME NEW j \in 1 .. n, paths[j] \in Readable
          PROVE  EmbedImage(paths[j], cache) \in Shown
      <4>1. PICK k \in 1 .. Len(rows) : rows[k] = EmbedImage(paths[j], cache)
        BY <2>3, <3>2
      <4>2. QED
        BY <2>4, <4>1
    <3>3. QED
      BY <3>1, <3>2
  <2>6. QED
    BY <2>5
<1> HIDE DEF Shown
<1>7. Shown = {} <=> read = {}
  BY <1>3, <1>6
<1>8. \A j \in 1 .. n : paths[j] \in Readable =>
        /\ EmbedImage(paths[j], cache) \in Readable
        /\ Phash[EmbedImage(paths[j], cache)] = Phash[paths[j]]
  BY LooksAlike
<1>9. Shown # NaN
  BY <1>6, <1>8, NaNAssumption, ImageAssumption DEF NaN
<1>10. {Phash[x] : x \in Shown} = {Phash[x] : x \in read}
  <2>1. ASSUME NEW x \in Shown PROVE \E y \in read : Phash[x] = Phash[y]
    <3>1. PICK j \in 1 .. n : paths[j] \in Readable /\ x = EmbedImage(paths[j], cache)
      BY <1>6
    <3>2. paths[j] \in read
      BY <1>3, <3>1
    <3>3. QED
      BY <1>8, <3>1, <3>2
  <2>2. ASSUME NEW y \in read PROVE \E x \in Shown : Phash[x] = Phash[y]
    <3>1. PICK j \in 1 .. n : paths[j] \in Readable /\ y = paths[j]
      BY <1>3
    <3>2. EmbedImage(paths[j], cache) \in Shown
      BY <1>6, <3>1
    <3>3. QED
      BY <1>8, <3>1, <3>2
  <2>3. QED
    BY <2>1, <2>2
<1>11. LET text == UNION Embedded(tokens, ENCODER_TOKENS)
       IN  /\ ENCODER_TOKENS >= WINDOW_TOKENS => text = 0 .. tokens - 1
           /\ tokens > 0 => 0 \in text
           /\ text \subseteq 0 .. tokens - 1
  BY TextRead
<1>12. CASE paths # <<>> /\ read = {}
  <2>1. vec = BuildPostEmbedding(Embedded(tokens, ENCODER_TOKENS), NaN, tags)
    BY <1>5, <1>7, <1>12
  <2>2. vec.image = NaN /\ vec.text = {}
    BY <2>1 DEF BuildPostEmbedding
  <2>3. QED
    BY <1>12, <2>2 DEF vec, read
<1>13. CASE ~ (paths # <<>> /\ read = {})
  <2>1. vec = [text |-> Embedded(tokens, ENCODER_TOKENS), image |-> Shown, tags |-> tags]
    BY <1>5, <1>7, <1>9, <1>13 DEF BuildPostEmbedding
  <2>2. vec.text = Embedded(tokens, ENCODER_TOKENS) /\ vec.tags = tags /\ vec.image = Shown
    BY <2>1
  <2>3. QED
    BY <1>10, <1>11, <1>13, <2>2 DEF vec, read
<1>14. QED
  BY <1>12, <1>13

(* A cache, an unreadable file or an image seen before moves no row of      *)
(* another image, and the vector of a post holds its tags, its readable     *)
(* images and its text as far as the encoder reads it, for every number of  *)
(* images, every cache and every encoder                                    *)
(* (images.py:205-276, embeddings.py:313-344).                              *)
THEOREM ImagesStayAligned == BatchAligned /\ EmbeddingWhole /\ (Spec => []ImagesAligned)
<1>1. ImagesAligned
  BY RowsAligned, PostIsWhole DEF ImagesAligned
<1>2. QED
  BY <1>1, RowsAligned, PostIsWhole, PTL

-----------------------------------------------------------------------------
(* The theorems about the behaviours.                                       *)

LEMMA StoreHolds == StoreIInv /\ [Next]_vars => StoreIInv'
<1> SUFFICES ASSUME StoreIInv, [Next]_vars
             PROVE  StoreIInv'
  OBVIOUS
<1>1. upsets \in 0 .. MaxUpsets /\ MaxUpsets \in Nat
  BY PostBounds DEF StoreIInv, StoreTypes
<1>2. CASE StoreStep \/ EnsureBare
  BY <1>2, StoreKept
<1>3. ASSUME UNCHANGED <<coll, api, upsets>>
      PROVE  StoreIInv'
  BY <1>1, <1>3, StoreAlone
<1>4. ASSUME UNCHANGED <<coll, api>>, Upset
      PROVE  StoreIInv'
  BY <1>1, <1>4, StoreAlone DEF Upset
<1>5. ASSUME NEW i \in Indexer
      PROVE  /\ \A p \in Post : Load(i, p) => StoreIInv'
             /\ Upsert(i) \/ Scroll(i) \/ UpsertAccount(i) \/ CommitAccount(i) \/ UpsertTags(i) => StoreIInv'
             /\ NotIndexable(i) \/ CallFails(i) => StoreIInv'
  BY <1>3, <1>4 DEF Load, Upsert, Scroll, UpsertAccount, CommitAccount, UpsertTags, NotIndexable, CallFails, Abort, storeVars
<1>6. ASSUME NEW p \in Post, TaskUpsert(p) \/ Verdict(p)
      PROVE  StoreIInv'
  BY <1>4, <1>6 DEF TaskUpsert, Verdict
<1>7. CASE UNCHANGED vars
  BY <1>3, <1>7 DEF vars, storeVars
<1>8. QED
  BY <1>2, <1>5, <1>6, <1>7 DEF Next

LEMMA InitQuiet == Init => AllQuiet
<1> SUFFICES ASSUME Init, NEW a \in Account
             PROVE  Quiet(a)
  BY DEF AllQuiet
<1>1. Busy(a) = {}
  BY DEF Init, Busy, Free
<1>2. Dated(a) = {}
  BY DEF Init, Dated
<1>3. MostRecent(Dated(a)) = {}
  BY <1>2 DEF MostRecent
<1>4. QED
  BY <1>1, <1>3 DEF Init, Quiet, Fresh

LEMMA Invariance == Spec => []IInv
<1>1. Init => IInv
  BY InitStore, InitPosts, InitQuiet DEF Init, IInv, AllQuiet
<1>2. IInv /\ [Next]_vars => IInv'
  BY StoreHolds, PostTypesKept, WindowsKept, AllQuietKept DEF IInv, AllQuiet
<1>3. QED
  BY <1>1, <1>2, PTL DEF Spec

(* A vector is a window of posts of its account, for every size of the      *)
(* window, and PostgreSQL has one only after Qdrant                         *)
(* (embeddings.py:186-241).                                                 *)
THEOREM TypeCorrect == Spec => []TypeOK
<1>1. IInv => TypeOK
  <2> SUFFICES ASSUME IInv
               PROVE  TypeOK
    OBVIOUS
  <2>1. StoreTypeOK
    BY Three DEF IInv, StoreIInv, StoreTypes, StoreTypeOK, Names
  <2>2. \A a \in Account :
          /\ {vector[a], embedding[a]} \subseteq {w \in SUBSET {p \in Post : Owner[p] = a} : Cardinality(w) <= Window}
          /\ vector[a] = {} => embedding[a] = {}
    BY DEF IInv, WindowInv, Windows
  <2>3. \A i \in Indexer :
          /\ job[i].pc \in {"free", "upsert", "scroll", "vector", "row", "tags"}
          /\ job[i].pc = "vector" => job[i].got # {}
    BY DEF IInv, WindowInv, PostTypes
  <2>4. QED
    BY <2>1, <2>2, <2>3 DEF TypeOK, IInv, PostTypes
<1>2. QED
  BY <1>1, Invariance, PTL

(* However many processes start side by side, one of them gets through as   *)
(* long as nothing fails, and the collections are indexed when they have    *)
(* settled (app.py:38-44, vector_store.py:89-122).                          *)
THEOREM RaceIsWon == Spec => []RaceHasWinner
<1>1. IInv => RaceHasWinner
  BY WinnerIsUp DEF IInv
<1>2. QED
  BY <1>1, Invariance, PTL

(* A job that no other step of its account crossed leaves the mean of the   *)
(* most recent posts in Qdrant and in PostgreSQL, whatever jobs before it   *)
(* left (embeddings.py:152-241).                                            *)
THEOREM QuietJobsRefresh == Spec => []FreshAfterQuietJob
<1>1. IInv => FreshAfterQuietJob
  BY DEF IInv, FreshAfterQuietJob, Quiet, Fresh
<1>2. QED
  BY <1>1, Invariance, PTL

==============================================================================
