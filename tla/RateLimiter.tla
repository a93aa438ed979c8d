----------------------------- MODULE RateLimiter -----------------------------
(***************************************************************************)
(* The limit on public requests, internal/httpapi/rate_limit.go: a map from *)
(* client addresses to token buckets under one mutex, pruned by every       *)
(* request of the visitors not seen for longer than the time to live.       *)
(*                                                                          *)
(* A request reads the clock BEFORE it takes the mutex, so that requests    *)
(* are served with stamps that are late and out of order; the bucket reads  *)
(* the clock again, inside.  Time passes in ticks; tokens are counted in    *)
(* the units that flow in per tick, so that a request costs Cost of them    *)
(* and a bucket for burst requests holds Burst * Cost.                      *)
(***************************************************************************)
EXTENDS Integers

CONSTANTS
  Address,      \* the texts that c.ClientIP() may return
  Client,       \* the clients behind them
  ClientOf,     \* [Address -> Client]: normalizedIP
  Request,      \* requests that may wait for the mutex together
  Idle,
  NoAnswer,
  Burst,
  Cost,
  Ttl,          \* ticks after which a silent visitor is forgotten
  MaxWait,      \* ticks that a request waits for the mutex, at most
  MaxTime       \* bound on the clock

Capacity == Burst * Cost

ASSUME ClientOfAssumption == ClientOf \in [Address -> Client]
ASSUME BucketAssumption ==
  /\ Burst \in Nat \ {0} /\ Cost \in Nat \ {0}
  /\ Capacity \in Nat \ {0}
ASSUME TimeAssumption == Ttl \in Nat /\ MaxWait \in Nat /\ MaxTime \in Nat
\* With five minutes, and a burst that fills up in seconds, true by far.
ASSUME TtlAssumption == Ttl - MaxWait + 1 >= Capacity
ASSUME IdleAssumption == Idle \notin [client : Client, now : Nat]

VARIABLES
  now,          \* the clock
  request,      \* [Request -> Idle, or its client and the time it read]
  limiters,     \* l.limiters: a function on the clients remembered
  answer        \* the last answer, with its client

vars == <<now, request, limiters, answer>>

Visitor == [tokens : 0 .. Capacity, last : Nat, lastSeen : Nat]

LimiterInit ==
  /\ now = 0
  /\ request = [r \in Request |-> Idle]
  /\ limiters = [c \in {} |-> 0]
  /\ answer = NoAnswer

Waiting(r) == request[r] # Idle

\* allow, up to the mutex.
Arrive(r, a) ==
  /\ ~Waiting(r)
  /\ request' = [request EXCEPT ![r] = [client |-> ClientOf[a], now |-> now]]
  /\ UNCHANGED <<now, limiters, answer>>

Min2(a, b) == IF a < b THEN a ELSE b

\* rate.Limiter: the tokens of a bucket by now.
Tokens(v) == Min2(Capacity, v.tokens + (now - v.last))

\* Mutant: the answer is computed and not used.
Everyone(v) == TRUE

\* rate.Limiter.Allow takes what the request costs, or nothing at all.
Affordable(v) == Tokens(v) >= Cost

Charge(v) ==
  IF Affordable(v)
    THEN [v EXCEPT !.tokens = Tokens(v) - Cost, !.last = now]
    ELSE v

\* prune, with the time that the request read.
Remembered(t) == {c \in DOMAIN limiters : t - limiters[c].lastSeen <= Ttl}

\* rate.NewLimiter: a full bucket.
NewVisitor(t) == [tokens |-> Capacity, last |-> now, lastSeen |-> t]

\* Mutant: a visitor is only seen when he first comes.
SeenOnce(v, t) == v

Seen(v, t) == [v EXCEPT !.lastSeen = t]

\* allow under the mutex, and Middleware with its result.
Allow(r) ==
  /\ Waiting(r)
  /\ LET t == request[r].now
         key == request[r].client
         visitor == Seen(IF key \in Remembered(t) THEN limiters[key]
                                                 ELSE NewVisitor(t), t)
     IN /\ limiters' = [c \in Remembered(t) \cup {key} |->
                          IF c = key THEN Charge(visitor) ELSE limiters[c]]
        /\ answer' = [client |-> key, allowed |-> Affordable(visitor)]
  /\ request' = [request EXCEPT ![r] = Idle]
  /\ UNCHANGED now

\* Nobody waits for the mutex for longer than MaxWait.
Tick ==
  /\ now < MaxTime
  /\ \A r \in Request : Waiting(r) => now - request[r].now < MaxWait
  /\ now' = now + 1
  /\ UNCHANGED <<request, limiters, answer>>

LimiterNext ==
  \/ Tick
  \/ \E r \in Request : Allow(r) \/ \E a \in Address : Arrive(r, a)

LimiterSpec == LimiterInit /\ [][LimiterNext]_vars

-----------------------------------------------------------------------------
\* Every bucket holds between nothing and a burst, was last drawn from in the
\* past, and no longer than MaxWait after the time its visitor is said to have
\* been seen: Middleware never overdraws a bucket.
TypeOK ==
  /\ now \in 0 .. MaxTime
  /\ request \in [Request -> {Idle} \cup [client : Client, now : Nat]]
  /\ \A r \in Request :
       Waiting(r) => request[r].now <= now /\ now - request[r].now <= MaxWait
  /\ DOMAIN limiters \subseteq Client
  /\ \A c \in DOMAIN limiters :
       /\ limiters[c] \in Visitor
       /\ limiters[c].last <= now
       /\ limiters[c].last <= limiters[c].lastSeen + MaxWait
  /\ answer \in {NoAnswer} \cup [client : Client, allowed : BOOLEAN]

\* Forgetting a visitor is invisible: although prune hands out full buckets,
\* with times that are late and out of order, every answer is the one of a
\* limiter that never forgets anybody, the spellings of an address included.
Buckets == INSTANCE TokenBuckets WITH
  level <- [c \in Client |-> IF c \in DOMAIN limiters THEN Tokens(limiters[c])
                                                       ELSE Capacity]
NeverForgets == Buckets!Spec
=============================================================================
