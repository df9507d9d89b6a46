------------------------- MODULE TumblrClientProofs -------------------------
(***************************************************************************)
(* The limiter of the Tumblr client, for every number of clients and keys,  *)
(* capacity, expiry and cooldowns, and clocks that differ and are corrected *)
(* either way: a shared bucket never grants more than an ideal one would, a *)
(* refused key rests, and a request gives up only when every key was        *)
(* refused lately.                                                          *)
(*                                                                          *)
(* The buckets and the clients share nothing but the clocks, so the         *)
(* inductive invariant is a predicate on every bucket and one on every      *)
(* cooldown, next to the types.                                             *)
(***************************************************************************)
EXTENDS TumblrClient, TLAPS

-----------------------------------------------------------------------------
(* Asked by the same clock again, the script would find a bucket no fuller  *)
(* than the ideal one; one that has rested long enough to expire has an     *)
(* ideal one that is full, so that Redis may forget it.                     *)
BucketInv(k) ==
    /\ credit[k] >= Least(Full, tokens[k] + since[k] + ahead[k])
    /\ credit[k] >= Least(Full, unused[k])
    /\ since[k] + ahead[k] >= 0

(* A stored cooldown ends no earlier than the one that the refusal asked    *)
(* for, and no more than the skew later, unless it is over on every clock.  *)
CooldownInv(c, k) ==
    /\ cooling[c][k] >= owed[c][k]
    /\ cooling[c][k] = 0 \/ cooling[c][k] <= owed[c][k] + MaxSkew

BucketTypes ==
    /\ tokens \in [Key -> 0 .. Full]
    /\ since \in [Key -> -MaxSkew .. Full]
    /\ unused \in [Key -> 0 .. BucketTtl]
    /\ ahead \in [Key -> 0 .. MaxSkew]
    /\ credit \in [Key -> Int] /\ \A k \in Key : credit[k] <= Full

ClientTypes ==
    /\ pc \in [Client -> {"idle", "pick", "acquire", "sent"}]
    /\ attempts \in [Client -> 0 .. MaxAttempts]
    /\ last \in [Client -> 0 .. NumKeys]
    /\ cooling \in [Client -> [Key -> 0 .. CoolAuth + MaxSkew]]
    /\ owed \in [Client -> [Key -> -MaxSkew .. CoolAuth]]
    /\ \A c \in Client : pc[c] \in {"acquire", "sent"} => last[c] # 0

BucketIInv == BucketTypes /\ \A k \in Key : BucketInv(k)

ClientIInv ==
    /\ ClientTypes
    /\ \A c \in Client, k \in Key : CooldownInv(c, k)
    /\ KeyRests

IInv == off \in [Client -> 0 .. MaxSkew] /\ BucketIInv /\ ClientIInv

-----------------------------------------------------------------------------
(* The bounds of the constants.                                             *)

LEMMA FullIsPositive == Full \in Nat \ {0} /\ BucketTtl \in Nat /\ BucketTtl >= Full
<1>1. \A a, b \in Nat \ {0} : a * b \in Nat \ {0}
  OBVIOUS
<1>2. QED
  BY <1>1, ClientAssumption DEF Full

LEMMA Cooldowns ==
    /\ NumKeys \in Nat \ {0} /\ Unit \in Nat \ {0}
    /\ Cool429 \in Nat \ {0} /\ CoolAuth \in Nat /\ CoolAuth >= Cool429
    /\ MaxSkew \in Nat
    /\ MaxAttempts \in Nat /\ Key \subseteq Int
BY ClientAssumption DEF MaxAttempts, Most, Key

\* A key that was picked is one of the keys.
LEMMA PickedIsKey ==
    ASSUME ClientTypes, NEW c \in Client, pc[c] \in {"acquire", "sent"}
    PROVE  last[c] \in Key
BY Cooldowns DEF ClientTypes, Key

\* The bucket after the refill is between empty and full, and no fuller than
\* the ideal one that is credited with what the callers' clocks gained.
LEMMA RefillIsToken ==
    ASSUME BucketTypes, NEW k \in Key, NEW o \in 0 .. MaxSkew
    PROVE  Refilled(k, o) \in 0 .. Full
<1>1. tokens[k] \in 0 .. Full /\ since[k] \in Int
  BY Cooldowns, FullIsPositive DEF BucketTypes
<1>2. QED
  BY <1>1, FullIsPositive, Cooldowns DEF Refilled, Least, Most

LEMMA CreditCovers ==
    ASSUME BucketIInv, NEW k \in Key, NEW o \in 0 .. MaxSkew
    PROVE  /\ Credited(k, o) \in Int /\ Credited(k, o) <= Full
           /\ Credited(k, o) >= Refilled(k, o)
<1>1. /\ tokens[k] \in 0 .. Full /\ since[k] \in Int /\ ahead[k] \in 0 .. MaxSkew
      /\ credit[k] \in Int /\ credit[k] <= Full
  BY Cooldowns, FullIsPositive DEF BucketIInv, BucketTypes
<1>2. /\ credit[k] >= Least(Full, tokens[k] + since[k] + ahead[k])
      /\ since[k] + ahead[k] >= 0
  BY DEF BucketIInv, BucketInv
<1>3. QED
  BY <1>1, <1>2, FullIsPositive, Cooldowns DEF Credited, Gained, Refilled, Least, Most

-----------------------------------------------------------------------------
(* What leaves one of the two halves alone keeps its invariant.             *)

LEMMA BucketsAlone ==
    ASSUME BucketIInv, UNCHANGED bucketVars
    PROVE  BucketIInv'
BY DEF BucketIInv, BucketTypes, BucketInv, bucketVars

LEMMA ClientsAlone ==
    ASSUME ClientIInv, UNCHANGED clientVars
    PROVE  ClientIInv'
BY DEF ClientIInv, ClientTypes, CooldownInv, KeyRests, clientVars, keyVars

-----------------------------------------------------------------------------
(* The buckets.                                                             *)

\* The script stores what it found less what it granted; the refill it
\* counted is no more than the time that really passed and what the clocks
\* gained.
LEMMA ScriptKeeps ==
    ASSUME BucketIInv, NEW k \in Key, NEW o \in 0 .. MaxSkew,
           NEW cost \in {0, Unit}, cost <= Refilled(k, o), Script(k, o, cost)
    PROVE  BucketIInv'
<1>1. Refilled(k, o) \in 0 .. Full /\ cost \in Nat /\ Full \in Nat /\ o \in Nat
  BY RefillIsToken, Cooldowns, FullIsPositive DEF BucketIInv
<1>2. Credited(k, o) \in Int /\ Credited(k, o) >= Refilled(k, o) /\ Credited(k, o) <= Full
  BY CreditCovers
<1>3. /\ tokens'[k] = Refilled(k, o) - cost /\ since'[k] = -o /\ ahead'[k] = o
      /\ unused'[k] = 0 /\ credit'[k] = Credited(k, o) - cost
  BY DEF Script, BucketIInv, BucketTypes
<1>4. \A q \in Key : q # k => /\ tokens'[q] = tokens[q] /\ since'[q] = since[q]
                              /\ unused'[q] = unused[q] /\ credit'[q] = credit[q]
                              /\ ahead'[q] = ahead[q]
  BY DEF Script, BucketIInv, BucketTypes
<1>5. BucketTypes'
  <2>1. Refilled(k, o) - cost \in 0 .. Full /\ -o \in -MaxSkew .. Full
        /\ 0 \in 0 .. BucketTtl /\ Credited(k, o) - cost \in Int
        /\ Credited(k, o) - cost <= Full
    BY <1>1, <1>2, Cooldowns, FullIsPositive
  <2>2. /\ tokens' \in [Key -> 0 .. Full] /\ since' \in [Key -> -MaxSkew .. Full]
        /\ unused' \in [Key -> 0 .. BucketTtl] /\ credit' \in [Key -> Int]
        /\ ahead' \in [Key -> 0 .. MaxSkew]
    BY <2>1 DEF Script, BucketIInv, BucketTypes
  <2>3. \A q \in Key : credit'[q] <= Full
    BY <2>1, <1>3, <1>4 DEF BucketIInv, BucketTypes
  <2>4. QED
    BY <2>2, <2>3 DEF BucketTypes
<1>6. BucketInv(k)'
  <2>1. credit'[k] >= Least(Full, tokens'[k] + since'[k] + ahead'[k])
    BY <1>1, <1>2, <1>3 DEF Least
  <2>2. credit'[k] >= Least(Full, unused'[k])
    BY <1>1, <1>2, <1>3 DEF Least
  <2>3. since'[k] + ahead'[k] >= 0
    BY <1>1, <1>3
  <2>4. QED
    BY <2>1, <2>2, <2>3 DEF BucketInv, Least
<1>7. ASSUME NEW q \in Key, q # k PROVE BucketInv(q)'
  BY <1>4, <1>7 DEF BucketIInv, BucketInv
<1>8. QED
  BY <1>5, <1>6, <1>7 DEF BucketIInv

\* An expired bucket is written again as a full one, and so is the ideal one.
LEMMA ExpireKeeps ==
    ASSUME IInv, NEW k \in Key, Expire(k)
    PROVE  BucketIInv'
<1>1. credit[k] = Full
  <2>1. Least(Full, unused[k]) = Full
    BY FullIsPositive DEF Expire, Least
  <2>2. credit[k] \in Int /\ credit[k] <= Full /\ credit[k] >= Least(Full, unused[k])
    BY DEF IInv, BucketIInv, BucketInv, BucketTypes
  <2>3. QED
    BY <2>1, <2>2, FullIsPositive
<1>2. BucketTypes'
  <2>1. Full \in 0 .. Full
    BY FullIsPositive
  <2>2. QED
    BY <2>1 DEF Expire, IInv, BucketIInv, BucketTypes
<1>3. BucketInv(k)'
  <2>1. tokens'[k] = Full /\ UNCHANGED <<since, unused, ahead, credit>>
    BY DEF Expire, IInv, BucketIInv, BucketTypes
  <2>2. since[k] \in Int /\ ahead[k] \in Int /\ since[k] + ahead[k] >= 0
    BY Cooldowns, FullIsPositive DEF IInv, BucketIInv, BucketTypes, BucketInv
  <2>3. Least(Full, tokens'[k] + since[k] + ahead[k]) = Full
    BY <2>1, <2>2, FullIsPositive DEF Least
  <2>4. credit[k] >= Least(Full, unused[k])
    BY DEF IInv, BucketIInv, BucketInv
  <2>5. QED
    BY <1>1, <2>1, <2>2, <2>3, <2>4, FullIsPositive DEF BucketInv
<1>4. ASSUME NEW q \in Key, q # k PROVE BucketInv(q)'
  BY <1>4 DEF BucketInv, Expire, IInv, BucketIInv, BucketTypes
<1>5. QED
  BY <1>2, <1>3, <1>4 DEF BucketIInv

\* In a tick no bucket can gain more than the ideal one does.
LEMMA TickKeepsBuckets ==
    ASSUME IInv, Tick
    PROVE  BucketIInv'
<1> USE FullIsPositive, Cooldowns
<1>1. BucketTypes'
  <2>1. ASSUME NEW k \in Key
        PROVE  /\ Least(Full, since[k] + 1) \in -MaxSkew .. Full
               /\ Least(BucketTtl, unused[k] + 1) \in 0 .. BucketTtl
               /\ Least(Full, credit[k] + 1) \in Int
               /\ Least(Full, credit[k] + 1) <= Full
    <3>1. /\ since[k] \in -MaxSkew .. Full /\ unused[k] \in 0 .. BucketTtl
          /\ credit[k] \in Int
      BY DEF IInv, BucketIInv, BucketTypes
    <3>2. QED
      BY <3>1 DEF Least
  <2>2. QED
    BY <2>1 DEF Tick, IInv, BucketIInv, BucketTypes
<1>2. ASSUME NEW k \in Key PROVE BucketInv(k)'
  <2>1. /\ tokens[k] \in 0 .. Full /\ since[k] \in Int /\ unused[k] \in Nat
        /\ ahead[k] \in Int /\ since[k] <= Full /\ ahead[k] >= 0
        /\ credit[k] \in Int /\ credit[k] <= Full
    BY DEF IInv, BucketIInv, BucketTypes
  <2>2. /\ tokens'[k] = tokens[k] /\ since'[k] = Least(Full, since[k] + 1)
        /\ unused'[k] = Least(BucketTtl, unused[k] + 1) /\ ahead'[k] = ahead[k]
        /\ credit'[k] = Least(Full, credit[k] + 1)
    BY DEF Tick, IInv, BucketIInv, BucketTypes
  <2>3. /\ credit[k] >= Least(Full, tokens[k] + since[k] + ahead[k])
        /\ credit[k] >= Least(Full, unused[k])
        /\ since[k] + ahead[k] >= 0
    BY DEF IInv, BucketIInv, BucketInv
  <2>4. credit'[k] >= Least(Full, tokens'[k] + since'[k] + ahead'[k])
    BY <2>1, <2>2, <2>3 DEF Least
  <2>5. credit'[k] >= Least(Full, unused'[k])
    BY <2>1, <2>2, <2>3 DEF Least
  <2>6. since'[k] + ahead'[k] >= 0
    BY <2>1, <2>2, <2>3 DEF Least
  <2>7. QED
    BY <2>4, <2>5, <2>6 DEF BucketInv, Least
<1>3. QED
  BY <1>1, <1>2 DEF BucketIInv

-----------------------------------------------------------------------------
(* The clients.                                                             *)

\* The ranges of a cooldown and of what is owed of it.
LEMMA CooldownTypes ==
    ASSUME IInv, NEW c \in Client, NEW k \in Key
    PROVE  /\ cooling[c][k] \in 0 .. CoolAuth + MaxSkew
           /\ owed[c][k] \in -MaxSkew .. CoolAuth
           /\ off[c] \in 0 .. MaxSkew
           /\ cooling[c][k] >= owed[c][k]
           /\ cooling[c][k] = 0 \/ cooling[c][k] <= owed[c][k] + MaxSkew
BY DEF IInv, ClientIInv, ClientTypes, CooldownInv

\* A key that is not cooling has rested, up to the skew of the clock ...
LEMMA UsableRested ==
    ASSUME IInv, NEW c \in Client, NEW k \in Usable(c)
    PROVE  k \in Key /\ owed[c][k] <= MaxSkew
<1>1. k \in Key /\ cooling[c][k] <= off[c]
  BY DEF Usable
<1>2. QED
  BY <1>1, CooldownTypes, Cooldowns

\* ... and one that is cooling was refused within its cooldown.
LEMMA CoolingIsRecent ==
    ASSUME IInv, NEW c \in Client, NEW k \in Key, k \notin Usable(c)
    PROVE  owed[c][k] > -MaxSkew
<1>1. ~(cooling[c][k] <= off[c])
  BY DEF Usable
<1>2. QED
  BY <1>1, CooldownTypes, Cooldowns

\* A step of a client that only moves its request on.
LEMMA RequestMoves ==
    ASSUME IInv, UNCHANGED keyVars,
           pc' \in [Client -> {"idle", "pick", "acquire", "sent"}],
           attempts' \in [Client -> 0 .. MaxAttempts],
           last' \in [Client -> 0 .. NumKeys],
           \A c \in Client : pc'[c] \in {"acquire", "sent"} =>
               last'[c] # 0 /\ owed[c][last'[c]] <= MaxSkew
    PROVE  ClientIInv'
<1>1. ClientTypes'
  BY DEF IInv, ClientIInv, ClientTypes, keyVars
<1>2. (\A c \in Client, k \in Key : CooldownInv(c, k))'
  BY DEF IInv, ClientIInv, CooldownInv, keyVars
<1>3. KeyRests'
  BY DEF KeyRests, keyVars
<1>4. QED
  BY <1>1, <1>2, <1>3 DEF ClientIInv

LEMMA NewClientKeeps ==
    ASSUME IInv, NEW c \in Client, NewClient(c)
    PROVE  ClientIInv'
<1> USE Cooldowns
<1>1. ClientTypes'
  BY DEF NewClient, Nothing, Over, IInv, ClientIInv, ClientTypes
<1>2. ASSUME NEW d \in Client, NEW k \in Key PROVE CooldownInv(d, k)'
  <2>1. CASE d = c
    <3>1. cooling'[d][k] = 0 /\ owed'[d][k] = -MaxSkew
      BY <2>1 DEF NewClient, Nothing, Over, IInv, ClientIInv, ClientTypes
    <3>2. QED
      BY <3>1 DEF CooldownInv
  <2>2. CASE d # c
    BY <2>2 DEF NewClient, IInv, ClientIInv, ClientTypes, CooldownInv
  <2>3. QED
    BY <2>1, <2>2
<1>3. KeyRests'
  BY DEF NewClient, IInv, ClientIInv, ClientTypes, KeyRests
<1>4. QED
  BY <1>1, <1>2, <1>3 DEF ClientIInv

\* Request, GiveUp and Answered leave the client without a key in use.
LEMMA WaitKeeps ==
    ASSUME IInv, NEW c \in Client,
           Request(c) \/ GiveUp(c) \/ Answered(c)
    PROVE  ClientIInv'
<1>1. UNCHANGED <<keyVars, last>>
  BY DEF Request, GiveUp, Answered
<1>2. /\ \E next \in {"idle", "pick"} : pc' = [pc EXCEPT ![c] = next]
      /\ attempts' = attempts \/ attempts' = [attempts EXCEPT ![c] = 0]
  BY DEF Request, GiveUp, Answered, End
<1>3. /\ \A d \in Client : pc'[d] \in {"acquire", "sent"} => pc'[d] = pc[d]
      /\ pc' \in [Client -> {"idle", "pick", "acquire", "sent"}]
  BY <1>2 DEF IInv, ClientIInv, ClientTypes
<1>4. attempts' \in [Client -> 0 .. MaxAttempts]
  <2>1. 0 \in 0 .. MaxAttempts
    BY Cooldowns
  <2>2. QED
    BY <1>2, <2>1 DEF IInv, ClientIInv, ClientTypes
<1>5. QED
  BY <1>1, <1>3, <1>4, RequestMoves DEF IInv, ClientIInv, ClientTypes, KeyRests

\* A picked key is not cooling, so it has rested.
LEMMA PickKeeps ==
    ASSUME IInv, NEW c \in Client, Pick(c)
    PROVE  ClientIInv'
<1>1. UNCHANGED keyVars /\ attempts[c] < MaxAttempts
  BY DEF Pick
<1>2. CASE End(c) /\ UNCHANGED last
  <2>1. /\ \A d \in Client : pc'[d] \in {"acquire", "sent"} => pc'[d] = pc[d]
        /\ pc' \in [Client -> {"idle", "pick", "acquire", "sent"}]
        /\ attempts' \in [Client -> 0 .. MaxAttempts]
    BY <1>2, Cooldowns DEF End, IInv, ClientIInv, ClientTypes
  <2>2. QED
    BY <1>1, <1>2, <2>1, RequestMoves DEF IInv, ClientIInv, ClientTypes, KeyRests
<1>3. CASE \E k \in Usable(c) :
              /\ last' = [last EXCEPT ![c] = k]
              /\ pc' = [pc EXCEPT ![c] = "acquire"]
              /\ attempts' = [attempts EXCEPT ![c] = @ + 1]
  <2>1. PICK k \in Usable(c) :
              /\ last' = [last EXCEPT ![c] = k]
              /\ pc' = [pc EXCEPT ![c] = "acquire"]
              /\ attempts' = [attempts EXCEPT ![c] = @ + 1]
    BY <1>3
  <2>2. k \in 0 .. NumKeys /\ k # 0 /\ owed[c][k] <= MaxSkew
    BY UsableRested, Cooldowns DEF Key
  <2>3. /\ pc' \in [Client -> {"idle", "pick", "acquire", "sent"}]
        /\ last' \in [Client -> 0 .. NumKeys]
    BY <2>1, <2>2 DEF IInv, ClientIInv, ClientTypes
  <2>4. attempts' \in [Client -> 0 .. MaxAttempts]
    <3>1. attempts[c] + 1 \in 0 .. MaxAttempts
      BY <1>1, Cooldowns DEF IInv, ClientIInv, ClientTypes
    <3>2. QED
      BY <2>1, <3>1 DEF IInv, ClientIInv, ClientTypes
  <2>5. ASSUME NEW d \in Client, pc'[d] \in {"acquire", "sent"}
        PROVE  last'[d] # 0 /\ owed[d][last'[d]] <= MaxSkew
    <3>1. CASE d = c
      BY <2>1, <2>2, <3>1 DEF IInv, ClientIInv, ClientTypes
    <3>2. CASE d # c
      BY <2>1, <2>5, <3>2 DEF IInv, ClientIInv, ClientTypes, KeyRests
    <3>3. QED
      BY <3>1, <3>2
  <2>6. QED
    BY <1>1, <2>3, <2>4, <2>5, RequestMoves
<1>4. QED
  BY <1>2, <1>3 DEF Pick

LEMMA PollKeeps ==
    ASSUME IInv, NEW c \in Client, Poll(c)
    PROVE  BucketIInv' /\ ClientIInv'
<1>1. last[c] \in Key
  BY PickedIsKey DEF Poll, IInv, ClientIInv
<1>2. PICK cost \in {0, Unit} : /\ cost <= Refilled(last[c], off[c])
                               /\ Script(last[c], off[c], cost)
  <2>1. Refilled(last[c], off[c]) \in Nat /\ Unit \in Nat
    <3>1. BucketTypes /\ off[c] \in 0 .. MaxSkew
      BY DEF IInv, BucketIInv
    <3>2. Refilled(last[c], off[c]) \in 0 .. Full
      BY <1>1, <3>1, RefillIsToken
    <3>3. QED
      BY <3>2, Cooldowns, FullIsPositive
  <2>2. QED
    BY <2>1 DEF Poll
<1>3. BucketIInv'
  BY <1>1, <1>2, ScriptKeeps DEF Poll, IInv
<1>4. /\ pc' \in [Client -> {"idle", "pick", "acquire", "sent"}]
      /\ \A d \in Client : pc'[d] \in {"acquire", "sent"} => pc[d] \in {"acquire", "sent"}
  BY DEF Poll, IInv, ClientIInv, ClientTypes
<1>5. ClientIInv'
  BY <1>4, RequestMoves DEF Poll, IInv, ClientIInv, ClientTypes, KeyRests
<1>6. QED
  BY <1>3, <1>5

\* A refusal starts the cooldown and the rest together, on the key in use.
LEMMA RefusedKeeps ==
    ASSUME IInv, NEW c \in Client, NEW seconds \in {Cool429, CoolAuth},
           Refused(c, seconds)
    PROVE  ClientIInv'
<1> USE Cooldowns
<1>1. last[c] \in Key
  BY PickedIsKey DEF Refused, IInv, ClientIInv
<1>2. ASSUME NEW d \in Client, NEW k \in Key
      PROVE  \/ /\ d = c /\ k = last[c]
                /\ cooling'[d][k] = off[c] + seconds /\ owed'[d][k] = seconds
             \/ /\ d # c \/ k # last[c]
                /\ cooling'[d][k] = cooling[d][k] /\ owed'[d][k] = owed[d][k]
  BY <1>1 DEF Refused, IInv, ClientIInv, ClientTypes
<1>3. ClientTypes'
  <2>1. off[c] + seconds \in 0 .. CoolAuth + MaxSkew /\ seconds \in -MaxSkew .. CoolAuth
    <3>1. off[c] \in 0 .. MaxSkew
      BY DEF IInv
    <3>2. QED
      BY <3>1
  <2>2. /\ cooling' \in [Client -> [Key -> 0 .. CoolAuth + MaxSkew]]
        /\ owed' \in [Client -> [Key -> -MaxSkew .. CoolAuth]]
    BY <1>1, <2>1 DEF Refused, IInv, ClientIInv, ClientTypes
  <2>3. QED
    BY <2>2 DEF Refused, IInv, ClientIInv, ClientTypes
<1>4. ASSUME NEW d \in Client, NEW k \in Key PROVE CooldownInv(d, k)'
  <2>1. off[c] \in 0 .. MaxSkew /\ seconds \in Nat
    BY DEF IInv
  <2>2. QED
    BY <1>2, <2>1, CooldownTypes DEF CooldownInv
<1>5. KeyRests'
  BY DEF Refused, IInv, ClientIInv, ClientTypes, KeyRests
<1>6. QED
  BY <1>3, <1>4, <1>5 DEF ClientIInv

LEMMA TickKeepsClients ==
    ASSUME IInv, Tick
    PROVE  ClientIInv'
<1> USE Cooldowns
<1>1. ASSUME NEW c \in Client, NEW k \in Key
      PROVE  /\ Most(0, cooling[c][k] - 1) \in 0 .. CoolAuth + MaxSkew
             /\ Most(-MaxSkew, owed[c][k] - 1) \in -MaxSkew .. CoolAuth
             /\ cooling'[c][k] = Most(0, cooling[c][k] - 1)
             /\ owed'[c][k] = Most(-MaxSkew, owed[c][k] - 1)
             /\ owed'[c][k] <= owed[c][k] \/ owed'[c][k] <= MaxSkew
  BY CooldownTypes DEF Tick, Most
<1>2. ClientTypes'
  <2>1. /\ cooling' \in [Client -> [Key -> 0 .. CoolAuth + MaxSkew]]
        /\ owed' \in [Client -> [Key -> -MaxSkew .. CoolAuth]]
    BY <1>1 DEF Tick
  <2>2. QED
    BY <2>1 DEF Tick, IInv, ClientIInv, ClientTypes
<1>3. ASSUME NEW c \in Client, NEW k \in Key PROVE CooldownInv(c, k)'
  <2>1. /\ cooling'[c][k] = Most(0, cooling[c][k] - 1)
        /\ owed'[c][k] = Most(-MaxSkew, owed[c][k] - 1)
    BY <1>1
  <2>2. /\ cooling[c][k] \in 0 .. CoolAuth + MaxSkew /\ owed[c][k] \in -MaxSkew .. CoolAuth
        /\ cooling[c][k] >= owed[c][k]
        /\ cooling[c][k] = 0 \/ cooling[c][k] <= owed[c][k] + MaxSkew
    BY CooldownTypes
  <2>3. cooling'[c][k] >= owed'[c][k]
    BY <2>1, <2>2 DEF Most
  <2>4. cooling'[c][k] = 0 \/ cooling'[c][k] <= owed'[c][k] + MaxSkew
    BY <2>1, <2>2 DEF Most
  <2>5. QED
    BY <2>3, <2>4 DEF CooldownInv
<1>4. KeyRests'
  <2>1. SUFFICES ASSUME NEW c \in Client, pc'[c] \in {"acquire", "sent"}
                 PROVE  owed'[c][last'[c]] <= MaxSkew
    BY DEF KeyRests
  <2>2. pc[c] \in {"acquire", "sent"} /\ last'[c] = last[c]
    BY <2>1 DEF Tick
  <2>3. last[c] \in Key /\ owed[c][last[c]] <= MaxSkew
    BY <2>2, PickedIsKey DEF IInv, ClientIInv, KeyRests
  <2>4. \A k \in Key : owed[c][k] <= MaxSkew => owed'[c][k] <= MaxSkew
    <3> SUFFICES ASSUME NEW k \in Key, owed[c][k] <= MaxSkew
                 PROVE  owed'[c][k] <= MaxSkew
      OBVIOUS
    <3>1. owed'[c][k] = Most(-MaxSkew, owed[c][k] - 1)
      BY <1>1, <2>1
    <3>2. QED
      BY <3>1, <2>1, CooldownTypes DEF Most
  <2>5. QED
    BY <2>2, <2>3, <2>4
<1>5. QED
  BY <1>2, <1>3, <1>4 DEF ClientIInv

-----------------------------------------------------------------------------
LEMMA InitIInv == Init => IInv
<1> SUFFICES ASSUME Init PROVE IInv
  OBVIOUS
<1> USE FullIsPositive, Cooldowns
<1>1. off \in [Client -> 0 .. MaxSkew]
  BY DEF Init
<1>2. BucketIInv
  <2>1. BucketTypes
    BY DEF Init, Nothing, BucketTypes
  <2>2. ASSUME NEW k \in Key PROVE BucketInv(k)
    BY DEF Init, Nothing, BucketInv, Least
  <2>3. QED
    BY <2>1, <2>2 DEF BucketIInv
<1>3. ClientIInv
  <2>1. ClientTypes
    BY DEF Init, Nothing, Over, ClientTypes
  <2>2. ASSUME NEW c \in Client, NEW k \in Key PROVE CooldownInv(c, k)
    BY DEF Init, Nothing, Over, CooldownInv
  <2>3. KeyRests
    BY DEF Init, KeyRests
  <2>4. QED
    BY <2>1, <2>2, <2>3 DEF ClientIInv
<1>4. QED
  BY <1>1, <1>2, <1>3 DEF IInv

LEMMA NextIInv == IInv /\ [Next]_vars => IInv'
<1> SUFFICES ASSUME IInv, [Next]_vars PROVE IInv'
  OBVIOUS
<1>1. ASSUME NEW c \in Client, NewClient(c) PROVE IInv'
  BY <1>1, NewClientKeeps, BucketsAlone DEF NewClient, IInv
<1>2. ASSUME NEW c \in Client, Request(c) \/ GiveUp(c) PROVE IInv'
  BY <1>2, WaitKeeps, BucketsAlone DEF Request, GiveUp, IInv
<1>3. ASSUME NEW c \in Client, Pick(c) PROVE IInv'
  BY <1>3, PickKeeps, BucketsAlone DEF Pick, IInv
<1>4. ASSUME NEW c \in Client, Poll(c) PROVE IInv'
  BY <1>4, PollKeeps DEF Poll, IInv
<1>5. ASSUME NEW c \in Client, Respond(c) PROVE IInv'
  <2>1. ClientIInv'
    BY <1>5, RefusedKeeps, WaitKeeps DEF Respond
  <2>2. QED
    BY <1>5, <2>1, BucketsAlone DEF Respond, IInv
<1>6. ASSUME NEW k \in Key, PollElsewhere(k) PROVE IInv'
  <2>1. PICK o \in 0 .. MaxSkew, cost \in {0, Unit} :
            cost <= Refilled(k, o) /\ Script(k, o, cost)
    <3>1. \A o \in 0 .. MaxSkew : Refilled(k, o) \in Nat /\ Unit \in Nat
      BY RefillIsToken, Cooldowns, FullIsPositive DEF IInv, BucketIInv
    <3>2. QED
      BY <1>6, <3>1 DEF PollElsewhere
  <2>2. QED
    BY <1>6, <2>1, ScriptKeeps, ClientsAlone DEF PollElsewhere, IInv
<1>7. ASSUME NEW k \in Key, Expire(k) PROVE IInv'
  BY <1>7, ExpireKeeps, ClientsAlone DEF Expire, IInv
<1>8. CASE Tick
  BY <1>8, TickKeepsBuckets, TickKeepsClients DEF Tick, IInv
<1>9. ASSUME NEW c \in Client, Correct(c) PROVE IInv'
  <2>1. off' \in [Client -> 0 .. MaxSkew]
    BY <1>9 DEF Correct, IInv
  <2>2. QED
    BY <1>9, <2>1, BucketsAlone, ClientsAlone DEF Correct, IInv
<1>10. CASE UNCHANGED vars
  BY <1>10, BucketsAlone, ClientsAlone DEF vars, bucketVars, clientVars, keyVars, IInv
<1>11. QED
  BY <1>1, <1>2, <1>3, <1>4, <1>5, <1>6, <1>7, <1>8, <1>9, <1>10 DEF Next

THEOREM Invariance == Spec => []IInv
BY InitIInv, NextIInv, PTL DEF Spec

\* The types: no request uses more attempts than max_attempts, no bucket
\* holds less than nothing or more than its capacity (client.py:24-47, 130).
THEOREM TypeCorrect == Spec => []TypeOK
<1>1. IInv => TypeOK
  BY DEF IInv, BucketIInv, BucketTypes, ClientIInv, ClientTypes, TypeOK
<1>2. QED
  BY <1>1, Invariance, PTL

\* Whatever number of clients of any processes share a key, it is granted at
\* most its capacity, the refill of the time that passed, and what the clocks
\* of its callers moved forward from one to the next (client.py:24-47).
THEOREM RateHolds == Spec => []RateBound
<1>1. IInv => RateBound
  <2> SUFFICES ASSUME IInv, NEW k \in Key PROVE credit[k] >= 0
    BY DEF RateBound
  <2>1. /\ credit[k] \in Int /\ unused[k] \in 0 .. BucketTtl
        /\ credit[k] >= Least(Full, unused[k])
    BY DEF IInv, BucketIInv, BucketTypes, BucketInv
  <2>2. QED
    BY <2>1, FullIsPositive DEF Least
<1>2. QED
  BY <1>1, Invariance, PTL

\* A key Tumblr refused rests for the cooldown of that refusal, up to what the
\* client's clock was set forward, however long the client waited for a token
\* since it picked it (client.py:104-123).
THEOREM KeysRest == Spec => []KeyRests
<1>1. IInv => KeyRests
  BY DEF IInv, ClientIInv
<1>2. QED
  BY <1>1, Invariance, PTL

\* A request fails for want of keys only when each was refused within the
\* cooldown of that refusal, up to corrections of the clock (client.py:104-117).
THEOREM FailsOnlyLast == Spec => FailsLast
<1> DEFINE Failed(c) == pc[c] = "pick" /\ pc'[c] = "idle" /\ attempts[c] < MaxAttempts
           Step == \A c \in Client : Failed(c) => \A k \in Key : owed[c][k] > -MaxSkew
<1>1. IInv /\ [Next]_vars => Step
  <2> SUFFICES ASSUME IInv, [Next]_vars, NEW c \in Client, Failed(c), NEW k \in Key
               PROVE  owed[c][k] > -MaxSkew
    OBVIOUS
  <2>1. Usable(c) = {}
    <3>1. \A d \in Client : d # c /\ (NewClient(d) \/ Request(d) \/ GiveUp(d) \/ Pick(d)
                                        \/ Poll(d) \/ Respond(d)) => pc'[c] = pc[c]
      BY DEF NewClient, Request, GiveUp, Pick, Poll, Respond, Refused, Answered,
             End, IInv, ClientIInv, ClientTypes
    <3>2. ~ (NewClient(c) \/ Request(c) \/ GiveUp(c) \/ Poll(c) \/ Respond(c))
      BY Cooldowns DEF NewClient, Request, GiveUp, Poll, Respond, Refused, Answered,
             IInv, ClientIInv, ClientTypes
    <3>3. \A o \in Key : ~ (PollElsewhere(o) \/ Expire(o))
      BY DEF PollElsewhere, Expire, clientVars
    <3>4. ~ Tick /\ (\A d \in Client : ~ Correct(d)) /\ ~ UNCHANGED vars
      BY DEF Tick, Correct, clientVars, vars
    <3>5. Pick(c)
      BY <3>1, <3>2, <3>3, <3>4 DEF Next
    <3>6. QED
      BY <3>5 DEF Pick, IInv, ClientIInv, ClientTypes
  <2>2. QED
    BY <2>1, CoolingIsRecent
<1>2. QED
  BY <1>1, Invariance, PTL DEF Spec, FailsLast

=============================================================================
