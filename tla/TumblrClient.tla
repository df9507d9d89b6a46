---------------------------- MODULE TumblrClient ----------------------------
(***************************************************************************)
(* The Tumblr API client: src/mir/ingestion/client.py.  Every crawl_blog    *)
(* task creates a client of its own, with its own rotation of the API keys  *)
(* and its own cooldowns; the token bucket of a key lives in Redis and is   *)
(* shared by the clients that were given a Redis connection, which are the  *)
(* ones modelled here (tasks.py:107 gives none, and _acquire_token returns  *)
(* at once: in production the limiter is not in force).                     *)
(*                                                                          *)
(* Time is relative: Tick lets one unit pass.  Every process reads a clock  *)
(* of its own, which is ahead of a common slowest time by MaxSkew at most   *)
(* and may be corrected either way (Correct).  A stored time is kept as its *)
(* distance from the real one, cut off where it no longer matters.  Tokens  *)
(* are counted in ticks: one token is Unit of them, and one tick refills    *)
(* one (the code's floats at _BUCKET_RATE).  Tumblr is external: a request  *)
(* is answered with any status.                                             *)
(***************************************************************************)
EXTENDS Integers, FiniteSets

CONSTANTS
    Client,     \* clients alive at a time: one per running crawl_blog task
    NumKeys,    \* settings.all_consumer_keys, by position
    Capacity,   \* _BUCKET_CAPACITY, in tokens
    Unit,       \* ticks that refill a token: 1 / _BUCKET_RATE
    BucketTtl,  \* EXPIRE of a bucket, in ticks
    Cool429,    \* _COOLDOWN_429_S, in ticks
    CoolAuth,   \* _COOLDOWN_AUTH_S, in ticks
    MaxSkew     \* bound: how far two clocks, or one before and after
                \* corrections, are apart

Key == 1 .. NumKeys
Full == Capacity * Unit

ASSUME ClientAssumption ==
    /\ IsFiniteSet(Client)
    /\ NumKeys \in Nat \ {0} /\ Capacity \in Nat \ {0} /\ Unit \in Nat \ {0}
    /\ BucketTtl \in Nat /\ BucketTtl >= Full   \* 7200 s against 3600 s
    /\ Cool429 \in Nat \ {0} /\ CoolAuth \in Nat /\ CoolAuth >= Cool429
    /\ MaxSkew \in Nat

VARIABLES
    pc,         \* pc[c]: where the request of c is
    attempts,   \* attempts[c]: of the running _request
    last,       \* last[c]: the key picked last, _key_idx modulo the keys
    off,        \* off[c]: how far the clock of c is ahead, time.time()
    cooling,    \* cooling[c][k]: _cooldowns[k] minus the real time, or 0
    tokens,     \* tokens[k]: the bucket's tokens, Full when it has no entry
    since,      \* since[k]: the real time minus the bucket's ts
    unused,     \* unused[k]: ticks since the bucket was last written
    ahead,      \* history: ahead[k], off of the caller who wrote it
    credit,     \* history: credit[k] of an ideal bucket, filled tick by tick
    owed        \* history: owed[c][k], the rest of the cooldown that began with
                \* the last refusal of k, in real time; negative when over

vars == <<pc, attempts, last, off, cooling, tokens, since, unused, ahead,
          credit, owed>>
keyVars == <<cooling, owed>>
clientVars == <<pc, attempts, last, keyVars>>
bucketVars == <<tokens, since, unused, ahead, credit>>

Least(a, b) == IF a <= b THEN a ELSE b
Most(a, b) == IF a >= b THEN a ELSE b

MaxAttempts == Most(2 * NumKeys, 4)

Nothing == [k \in Key |-> 0]
\* The cooldown is over, whatever clock one looks at.
Over == [k \in Key |-> -MaxSkew]

Init ==
    /\ pc = [c \in Client |-> "idle"]
    /\ attempts = [c \in Client |-> 0]
    /\ last = [c \in Client |-> 0]
    /\ off \in [Client -> 0 .. MaxSkew]
    /\ cooling = [c \in Client |-> Nothing]
    /\ tokens = [k \in Key |-> Full]
    /\ since = [k \in Key |-> Full]
    /\ unused = [k \in Key |-> BucketTtl]
    /\ ahead = Nothing
    /\ credit = [k \in Key |-> Full]
    /\ owed = [c \in Client |-> Over]

-----------------------------------------------------------------------------
(* The task closes its client and the next task creates a new one: the      *)
(* rotation starts over and every cooldown is forgotten.                    *)
NewClient(c) ==
    /\ pc[c] = "idle"
    /\ last' = [last EXCEPT ![c] = 0]
    /\ cooling' = [cooling EXCEPT ![c] = Nothing]
    /\ owed' = [owed EXCEPT ![c] = Over]
    /\ UNCHANGED <<pc, attempts, bucketVars, off>>

\* get_blog_posts, get_tagged_posts and get_blog_info: _request starts.
Request(c) ==
    /\ pc[c] = "idle"
    /\ pc' = [pc EXCEPT ![c] = "pick"]
    /\ UNCHANGED <<attempts, last, keyVars, bucketVars, off>>

\* The request raises, or returns the response.
End(c) ==
    /\ pc' = [pc EXCEPT ![c] = "idle"]
    /\ attempts' = [attempts EXCEPT ![c] = 0]

\* Mutant: the cycle stops one key short.
UsableShort(c) == {k \in Key : cooling[c][k] <= off[c] /\ (NumKeys > 1 => k # last[c])}

\* cooldown_until <= now
Usable(c) == {k \in Key : cooling[c][k] <= off[c]}

\* Steps from the key picked last to k, in the order of the rotation.
Distance(c, k) == (k - last[c] - 1) % NumKeys

GiveUp(c) ==
    /\ pc[c] = "pick"
    /\ attempts[c] = MaxAttempts
    /\ End(c)
    /\ UNCHANGED <<last, keyVars, bucketVars, off>>

\* Mutant: the attempts are not counted.
PickForever(c) ==
    /\ pc[c] = "pick"
    /\ UNCHANGED <<attempts, keyVars, bucketVars, off>>
    /\ \E k \in Usable(c) :
          /\ \A o \in Usable(c) : Distance(c, k) <= Distance(c, o)
          /\ last' = [last EXCEPT ![c] = k]
          /\ pc' = [pc EXCEPT ![c] = "acquire"]

\* Mutant: one attempt more than max_attempts.
PickOnceMore(c) ==
    /\ pc[c] = "pick"
    /\ \E k \in Usable(c) : last' = [last EXCEPT ![c] = k]
    /\ attempts' = [attempts EXCEPT ![c] = @ + 1]
    /\ pc' = [pc EXCEPT ![c] = "sent"]
    /\ UNCHANGED <<keyVars, bucketVars, off>>

\* _next_key: the first key of the rotation that is not cooling, or an error.
Pick(c) ==
    /\ pc[c] = "pick"
    /\ attempts[c] < MaxAttempts
    /\ \/ /\ Usable(c) = {}
          /\ End(c)
          /\ UNCHANGED last
       \/ \E k \in Usable(c) :
            /\ \A o \in Usable(c) : Distance(c, k) <= Distance(c, o)
            /\ last' = [last EXCEPT ![c] = k]
            /\ pc' = [pc EXCEPT ![c] = "acquire"]
            /\ attempts' = [attempts EXCEPT ![c] = @ + 1]
    /\ UNCHANGED <<keyVars, bucketVars, off>>

\* What the script finds in the bucket, after the refill: its caller's clock,
\* at o, is compared with the clock of the caller before.
Refilled(k, o) == Least(Full, tokens[k] + Most(0, since[k] + o))

\* How far that clock is ahead of the one before.
Gained(k, o) == Most(0, o - ahead[k])

Credited(k, o) == Least(Full, credit[k] + Gained(k, o))

\* Mutant: a bucket that denies keeps its old ts, the refill counts again.
ScriptKeepsTs(k, o, cost) ==
    /\ tokens' = [tokens EXCEPT ![k] = Refilled(k, o) - cost]
    /\ since' = [since EXCEPT ![k] = IF cost = 0 THEN @ ELSE -o]
    /\ unused' = [unused EXCEPT ![k] = 0]
    /\ ahead' = [ahead EXCEPT ![k] = o]
    /\ credit' = [credit EXCEPT ![k] = Credited(k, o) - cost]

\* _TOKEN_BUCKET_LUA stores the bucket whether it granted a token or not.
Script(k, o, cost) ==
    /\ tokens' = [tokens EXCEPT ![k] = Refilled(k, o) - cost]
    /\ since' = [since EXCEPT ![k] = -o]
    /\ unused' = [unused EXCEPT ![k] = 0]
    /\ ahead' = [ahead EXCEPT ![k] = o]
    /\ credit' = [credit EXCEPT ![k] = Credited(k, o) - cost]

\* _acquire_token: without a token the client sleeps and asks again.
Poll(c) ==
    /\ pc[c] = "acquire"
    /\ IF Refilled(last[c], off[c]) >= Unit
         THEN /\ Script(last[c], off[c], Unit)
              /\ pc' = [pc EXCEPT ![c] = "sent"]
         ELSE /\ Script(last[c], off[c], 0)
              /\ UNCHANGED pc
    /\ UNCHANGED <<attempts, last, keyVars, off>>

\* Mutant: the cooldown is set on the key that comes next.
RefusedMarksNext(c, seconds) ==
    /\ pc[c] = "sent"
    /\ pc' = [pc EXCEPT ![c] = "pick"]
    /\ cooling' = [cooling EXCEPT ![c][(last[c] % NumKeys) + 1] = off[c] + seconds]
    /\ owed' = [owed EXCEPT ![c][last[c]] = seconds]
    /\ UNCHANGED <<attempts, last>>

\* 429, or 401 and 403: the key cools down, the next attempt follows at once.
Refused(c, seconds) ==
    /\ pc[c] = "sent"
    /\ pc' = [pc EXCEPT ![c] = "pick"]
    /\ cooling' = [cooling EXCEPT ![c][last[c]] = off[c] + seconds]
    /\ owed' = [owed EXCEPT ![c][last[c]] = seconds]
    /\ UNCHANGED <<attempts, last>>

\* A response; or another status, a broken connection, the timeout: raised.
Answered(c) ==
    /\ pc[c] = "sent"
    /\ End(c)
    /\ UNCHANGED <<last, keyVars>>

Respond(c) ==
    /\ \/ Refused(c, Cool429) \/ Refused(c, CoolAuth) \/ Answered(c)
    /\ UNCHANGED <<bucketVars, off>>

\* A client of another process asks for a token of k, with its own clock.
PollElsewhere(k) ==
    /\ \E o \in 0 .. MaxSkew :
            Script(k, o, IF Refilled(k, o) >= Unit THEN Unit ELSE 0)
    /\ UNCHANGED <<clientVars, off>>

-----------------------------------------------------------------------------
(* The environment: time, and Redis dropping a bucket that expired.         *)

Tick ==
    /\ cooling' = [c \in Client |-> [k \in Key |-> Most(0, cooling[c][k] - 1)]]
    /\ owed' = [c \in Client |-> [k \in Key |-> Most(-MaxSkew, owed[c][k] - 1)]]
    /\ since' = [k \in Key |-> Least(Full, since[k] + 1)]
    /\ unused' = [k \in Key |-> Least(BucketTtl, unused[k] + 1)]
    /\ credit' = [k \in Key |-> Least(Full, credit[k] + 1)]
    /\ UNCHANGED <<pc, attempts, last, off, tokens, ahead>>

\* The wall clock of c's host is corrected, back or forward.
Correct(c) ==
    /\ \E o \in 0 .. MaxSkew : off' = [off EXCEPT ![c] = o]
    /\ UNCHANGED <<clientVars, bucketVars>>

\* A bucket without an entry starts full.
Expire(k) ==
    /\ unused[k] = BucketTtl
    /\ tokens[k] # Full
    /\ tokens' = [tokens EXCEPT ![k] = Full]
    /\ UNCHANGED <<clientVars, since, unused, ahead, credit, off>>

Next ==
    \/ \E c \in Client : \/ NewClient(c) \/ Request(c) \/ GiveUp(c) \/ Pick(c)
                         \/ Poll(c) \/ Respond(c) \/ Correct(c)
    \/ \E k \in Key : PollElsewhere(k) \/ Expire(k)
    \/ Tick

\* Time passes, and a running request goes on: its coroutine is scheduled, and
\* every request has a timeout.  Nothing forces a task to make a request.
Fairness ==
    /\ WF_vars(Tick)
    /\ \A c \in Client : WF_vars(GiveUp(c) \/ Pick(c) \/ Poll(c) \/ Respond(c))

Spec == Init /\ [][Next]_vars
FairSpec == Spec /\ Fairness

-----------------------------------------------------------------------------
TypeOK ==
    /\ pc \in [Client -> {"idle", "pick", "acquire", "sent"}]
    /\ attempts \in [Client -> 0 .. MaxAttempts]
    /\ last \in [Client -> 0 .. NumKeys]
    /\ off \in [Client -> 0 .. MaxSkew]
    /\ cooling \in [Client -> [Key -> 0 .. CoolAuth + MaxSkew]]
    /\ tokens \in [Key -> 0 .. Full]
    /\ since \in [Key -> -MaxSkew .. Full]
    /\ unused \in [Key -> 0 .. BucketTtl]
    /\ ahead \in [Key -> 0 .. MaxSkew]
    /\ credit \in [Key -> Int] /\ \A k \in Key : credit[k] <= Full
    /\ owed \in [Client -> [Key -> -MaxSkew .. CoolAuth]]
    /\ \A c \in Client : pc[c] \in {"acquire", "sent"} => last[c] # 0

(* However the clients interleave and whenever Redis expires a bucket, a    *)
(* key is never granted more than its capacity, the refill of the time that *)
(* really passed, and what the clocks of its callers moved forward from one *)
(* to the next: the lazily refilled bucket keeps within the ideal one that  *)
(* is credited with the same.  A clock set back, or a slower host, gives    *)
(* nothing.  (Of two hosts whose clocks differ, the faster one moves it     *)
(* forward whenever it comes after the slower: client.py:34-35, 39.)        *)
RateBound == \A k \in Key : credit[k] >= 0

(* A key that Tumblr refused is not sent again by the same client before    *)
(* the cooldown of that refusal has passed, 300 s after 429 and 86400 s     *)
(* after 401 or 403, less what the client's clock was set forward, however  *)
(* long it waited for a token since it picked the key (client.py:104-123,   *)
(* 169-177).                                                                *)
KeyRests ==
    \A c \in Client : pc[c] \in {"acquire", "sent"} => owed[c][last[c]] <= MaxSkew

(* A request fails for want of keys only when every key has been refused to *)
(* its client within the cooldown of that refusal, give or take what the    *)
(* clock was set back meanwhile (client.py:104-117).                        *)
FailsLast ==
    [][\A c \in Client :
          pc[c] = "pick" /\ pc'[c] = "idle" /\ attempts[c] < MaxAttempts
            => \A k \in Key : owed[c][k] > -MaxSkew]_vars

(* Every request ends, whatever Tumblr answers and however often the bucket *)
(* is asked, unless other processes take its tokens for ever: the attempts  *)
(* are bounded and an empty bucket that is polled still fills up            *)
(* (client.py:130-185).                                                     *)
RequestsEnd ==
    \A c \in Client :
        \/ []<>(pc[c] = "idle")
        \/ []<><<pc[c] = "acquire" /\ pc'[c] = "acquire"
                    /\ credit'[last[c]] < credit[last[c]]>>_vars
=============================================================================
