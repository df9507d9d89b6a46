---------------------------- MODULE VectorStore ----------------------------
(***************************************************************************)
(* The Qdrant collections and the processes of the API that create them     *)
(* when they start: QdrantManager.ensure_collections in                     *)
(* src/mir/search/vector_store.py, called from the lifespan of              *)
(* src/mir/api/app.py.  Processes start side by side, stop at any point,    *)
(* and go on without a client when the call fails.                          *)
(***************************************************************************)
EXTENDS Integers, Sequences, FiniteSets

CONSTANTS
    Api,        \* the processes of the API
    MaxUpsets   \* bound: processes stopped, calls to Qdrant that failed and
                \* collections created by a PostIndexer

ASSUME VectorStoreAssumption == MaxUpsets \in Nat

VARIABLES
    coll,   \* coll[c]: "absent", "bare" without payload indexes, "part" with
            \* some, on published_at if c is "posts", or "indexed" with all
    api,    \* api[a]: [pc, at, saw]: where ensure_collections stands
    upsets  \* how often a process stopped, a call failed or EnsureBare ran

storeVars == <<coll, api, upsets>>

Collections == <<"posts", "accounts", "tags">>
Down == [pc |-> "down", at |-> 1, saw |-> {}]

StoreInit ==
    /\ coll = [c \in {"posts", "accounts", "tags"} |-> "absent"]
    /\ api = [a \in Api |-> Down]
    /\ upsets = 0

Present == {c \in DOMAIN coll : coll[c] # "absent"}

\* get_collections: what the process takes to exist from here on.
Start(a) ==
    /\ api[a].pc = "down"
    /\ api' = [api EXCEPT ![a] = [pc |-> "create", at |-> 1, saw |-> Present]]
    /\ UNCHANGED <<coll, upsets>>

\* The collections are gone through; the client goes to app.state.
GoUp(a) ==
    /\ api[a].pc = "create" /\ api[a].at > Len(Collections)
    /\ api' = [api EXCEPT ![a].pc = "up"]
    /\ UNCHANGED <<coll, upsets>>

\* Mutant: the collections come from a set, in another order in one process.
CurrentOfSet(a) ==
    Collections[IF a = CHOOSE b \in Api : TRUE THEN 4 - api[a].at ELSE api[a].at]

Current(a) == Collections[api[a].at]

SkipPresent(a) ==
    /\ api[a].pc = "create" /\ api[a].at <= Len(Collections)
    /\ Current(a) \in api[a].saw
    /\ api' = [api EXCEPT ![a].at = @ + 1]
    /\ UNCHANGED <<coll, upsets>>

Create(a) ==
    /\ api[a].pc = "create" /\ api[a].at <= Len(Collections)
    /\ Current(a) \notin api[a].saw \cup Present
    /\ coll' = [coll EXCEPT ![Current(a)] = "bare"]
    /\ api' = [api EXCEPT ![a].pc = "index"]
    /\ UNCHANGED upsets

\* Another process has created it since: create_collection raises, and the
\* lifespan goes on with app.state.qdrant = None.
CreateCollides(a) ==
    /\ api[a].pc = "create" /\ api[a].at <= Len(Collections)
    /\ Current(a) \in Present \ api[a].saw
    /\ api' = [api EXCEPT ![a].pc = "blind"]
    /\ UNCHANGED <<coll, upsets>>

\* _index_posts_payload and its two siblings, a call for each index: the first
\* of them, for the posts the first two ...
IndexFirst(a) ==
    /\ api[a].pc = "index" /\ coll[Current(a)] = "bare"
    /\ coll' = [coll EXCEPT ![Current(a)] = "part"]
    /\ UNCHANGED <<api, upsets>>

\* ... and the others.
IndexPayload(a) ==
    /\ api[a].pc = "index" /\ coll[Current(a)] = "part"
    /\ coll' = [coll EXCEPT ![Current(a)] = "indexed"]
    /\ api' = [api EXCEPT ![a].pc = "create", ![a].at = @ + 1]
    /\ UNCHANGED upsets

\* A call fails; also the first, on the way from "down".
StartFails(a) ==
    /\ api[a].pc \in {"down", "create", "index"}
    /\ upsets < MaxUpsets /\ upsets' = upsets + 1
    /\ api' = [api EXCEPT ![a].pc = "blind"]
    /\ UNCHANGED coll

\* The process is stopped, or dies, and can be started again.
Stop(a) ==
    /\ api[a].pc # "down"
    /\ upsets < MaxUpsets /\ upsets' = upsets + 1
    /\ api' = [api EXCEPT ![a] = Down]
    /\ UNCHANGED coll

\* PostIndexer.ensure_collections creates what is missing, without indexes;
\* its own race is the one above.
EnsureBare ==
    /\ Present # DOMAIN coll
    /\ upsets < MaxUpsets /\ upsets' = upsets + 1
    /\ coll' = [c \in DOMAIN coll |-> IF coll[c] = "absent" THEN "bare" ELSE coll[c]]
    /\ UNCHANGED api

StoreStep ==
    \E a \in Api : \/ Start(a) \/ GoUp(a) \/ SkipPresent(a) \/ Create(a) \/ CreateCollides(a)
                   \/ IndexFirst(a) \/ IndexPayload(a) \/ StartFails(a) \/ Stop(a)

-----------------------------------------------------------------------------
StoreTypeOK ==
    /\ coll \in [{"posts", "accounts", "tags"} -> {"absent", "bare", "part", "indexed"}]
    /\ \A a \in Api : /\ api[a].pc \in {"down", "create", "index", "up", "blind"}
                      /\ api[a].at \in 1 .. Len(Collections) + 1
                      /\ api[a].pc = "index" => api[a].at <= Len(Collections)
    /\ upsets \in 0 .. MaxUpsets
=============================================================================
