------------------------------ MODULE RateLimit ------------------------------
(* The three maps of token buckets: of RADIUS sources, of the names and      *)
(* addresses that log in through the API, of the callers of /oidc/token.     *)
(* They differ in when they forget an idle bucket and in what they lock.     *)
EXTENDS Clock, FiniteSets, Sequences

CONSTANTS Caller,                   \* requests under way
          Keys,                     \* the keys a request may charge, in order
          TokenRate, TokenBurst, BucketIdle, SweepEvery, MaxKeys

\* An idle bucket is full again when it is forgotten.
ASSUME RateAssumption ==
    /\ IsFiniteSet(Caller)
    /\ \A ks \in Keys : ks \in Seq({ks[i] : i \in DOMAIN ks}) /\ ks # <<>>
    /\ {TokenRate, TokenBurst, BucketIdle, SweepEvery, MaxKeys} \subseteq Nat \ {0}
    /\ TokenRate * BucketIdle >= TokenBurst
    /\ None \notin [tokens: 0 .. TokenBurst, seen: Moment]

VARIABLES buckets,      \* of each limiter and key
          swept,        \* rateLimiter.lastSweep
          caller,
          passed,       \* history: when a key let somebody through
          forgot        \* history: how often the API's map has forgotten a key

rlVars == <<buckets, swept, caller, passed, forgot>>

Limiter == {"radius", "api", "oidc"}
Key == UNION {{ks[i] : i \in DOMAIN ks} : ks \in Keys}

NoCall == [pc |-> "idle", l |-> None, keys |-> <<>>, orphan |-> None]

RateInit ==
    /\ now = 0
    /\ buckets = [l \in Limiter |-> [k \in Key |-> None]]
    /\ swept = 0
    /\ caller = [c \in Caller |-> NoCall]
    /\ passed = [l \in Limiter |-> [k \in Key |-> <<>>]]
    /\ forgot = [k \in Key |-> 0]

Refilled(b) == LET t == b.tokens + TokenRate * (now - b.seen)
               IN [tokens |-> IF t > TokenBurst THEN TokenBurst ELSE t, seen |-> now]
Spent(b) == IF Refilled(b).tokens >= 1 THEN [Refilled(b) EXCEPT !.tokens = @ - 1] ELSE Refilled(b)
Full == [tokens |-> TokenBurst, seen |-> now]

\* Keys nobody has charged for longer than BucketIdle are forgotten.
Idle(b) == b # None /\ now - b.seen > BucketIdle
Cleaned(map) == [k \in Key |-> IF Idle(map[k]) THEN None ELSE map[k]]
Crowded(map) == Cardinality({k \in Key : map[k] # None}) >= MaxKeys

\* Whoever has found a bucket keeps it when the map forgets it.
Forgotten(map, k) == buckets.api[k] # None /\ map[k] = None
Found(c) == caller[c].pc = "take" /\ caller[c].orphan = None

Detached(map) ==
    [c \in Caller |->
        LET k == Head(caller[c].keys)
        IN IF Found(c) /\ Forgotten(map, k)
           THEN [caller[c] EXCEPT !.orphan = buckets.api[k]] ELSE caller[c]]

Forgets(map) == forgot' = [k \in Key |-> IF Forgotten(map, k) THEN forgot[k] + 1 ELSE forgot[k]]

\* The outcome of one charge: the next key, or the end of the request.
Charged(c, ok, callers) ==
    LET call == caller[c]
        l == call.l
        k == Head(call.keys)
    IN /\ caller' = [callers EXCEPT ![c] =
              IF ok /\ Len(call.keys) > 1
              THEN [NoCall EXCEPT !.pc = "find", !.l = l, !.keys = Tail(call.keys)] ELSE NoCall]
       /\ passed' = IF ok THEN [passed EXCEPT ![l][k] = Append(@, [at |-> now, gen |-> forgot[k]])]
                          ELSE passed

Ask(c, l, keys) ==
    /\ caller[c].pc = "idle"
    /\ l = "radius" => Len(keys) = 1
    /\ caller' = [caller EXCEPT ![c] = [NoCall EXCEPT !.pc = "find", !.l = l, !.keys = keys]]
    /\ UNCHANGED <<buckets, swept, passed, forgot>>

\* The map once a full one has been cleaned, which the RADIUS limiter never is.
Room(l, k) ==
    LET map == buckets[l]
    IN IF l # "radius" /\ map[k] = None /\ Crowded(map) THEN Cleaned(map) ELSE map

\* The RADIUS map is swept on a call.
Sweeps(l) == l = "radius" /\ now - swept >= SweepEvery

\* A charge under the map's lock: every one of radius and oidc, the first of a
\* key of api.  A full map lets no new key in.
Charge(c) ==
    LET l == caller[c].l
        k == Head(caller[c].keys)
        map == IF Sweeps(l) THEN Cleaned(buckets[l]) ELSE Room(l, k)
        b == IF map[k] = None THEN Full ELSE map[k]
        shut == l # "radius" /\ map[k] = None /\ Crowded(map)
        after == [buckets EXCEPT ![l] = IF shut THEN map ELSE [map EXCEPT ![k] = Spent(b)]]
    IN /\ caller[c].pc = "find"
       /\ l = "api" => buckets[l][k] = None
       /\ buckets' = after
       /\ swept' = IF Sweeps(l) THEN now ELSE swept
       /\ Charged(c, ~shut /\ Refilled(b).tokens >= 1, Detached(after.api))
       /\ Forgets(after.api)

\* limiterMap.Allow finds the bucket of a key under the read lock and charges it
\* without one.
Find(c) ==
    /\ caller[c].pc = "find" /\ caller[c].l = "api"
    /\ buckets.api[Head(caller[c].keys)] # None
    /\ caller' = [caller EXCEPT ![c].pc = "take"]
    /\ UNCHANGED <<buckets, swept, passed, forgot>>

\* The bucket they share, in the map or out of it.
Orphaned(c, k) == caller[c].pc = "take" /\ caller[c].orphan # None /\ Head(caller[c].keys) = k
Shared(k, b) == [c \in Caller |-> IF Orphaned(c, k) THEN [caller[c] EXCEPT !.orphan = b] ELSE caller[c]]

Take(c) ==
    LET k == Head(caller[c].keys)
        own == caller[c].orphan
        b == IF own = None THEN buckets.api[k] ELSE own
    IN /\ caller[c].pc = "take"
       /\ buckets' = IF own = None THEN [buckets EXCEPT !.api[k] = Spent(b)] ELSE buckets
       /\ Charged(c, Refilled(b).tokens >= 1, IF own = None THEN caller ELSE Shared(k, Spent(b)))
       /\ UNCHANGED <<swept, forgot>>

\* cleanupLoop.
Cleanup ==
    /\ \E k \in Key : Idle(buckets.api[k])
    /\ buckets' = [buckets EXCEPT !.api = Cleaned(@)]
    /\ caller' = Detached(Cleaned(buckets.api))
    /\ Forgets(Cleaned(buckets.api))
    /\ UNCHANGED <<swept, passed>>

\* A call is taken to charge the bucket it has found within one unit of the clock.
RateTick ==
    /\ \A c \in Caller : caller[c].pc # "take"
    /\ Tick
    /\ UNCHANGED rlVars

RateNext ==
    \/ /\ \/ \E c \in Caller :
                \/ \E l \in Limiter, keys \in Keys : Ask(c, l, keys)
                \/ Charge(c) \/ Find(c) \/ Take(c)
          \/ Cleanup
       /\ UNCHANGED now
    \/ RateTick

-----------------------------------------------------------------------------
(* Properties.                                                               *)

\* Between any two passes of a key no more went through than a full bucket and
\* what time has refilled, whatever was forgotten meanwhile; only those who had
\* found a bucket of the API before it was forgotten may come on top, once for
\* each time it was.
RateKept ==
    \A l \in Limiter, k \in Key :
        LET p == passed[l][k]
            late(i, j) == IF l = "api" THEN Cardinality(Caller) * (p[j].gen - p[i].gen + 1) ELSE 0
        IN \A i, j \in DOMAIN p :
               i <= j => j - i + 1 <= TokenBurst + TokenRate * (p[j].at - p[i].at) + late(i, j)
=============================================================================
