----------------------------- MODULE RateLimiter ------------------------------
(***************************************************************************)
(* core/services/rate_limiter.py: sliding windows over the hits of a key,  *)
(* kept in a sorted set of Redis that all workers share.  A check reads,   *)
(* awaits and then records, so that checks overlap; when Redis fails some  *)
(* limiters refuse and others fall back to the memory of their worker.     *)
(***************************************************************************)
EXTENDS Basics, Integers, FiniteSets, Sequences

CONSTANTS
    Callers,    \* requests that may be in check() at the same time
    WorkerOf,   \* the worker process that serves each of them
    Limiters,   \* RateLimiter objects, for one tenant, address or IP each
    Limit,      \* limit of each
    Window,     \* window_sec of each
    KeyOf,      \* the key each counts under, prefix of the storage included
    FailOpen,   \* those called through check_rate_fail_open
    Routes,     \* what the routes check, in order
    MaxTime,    \* bound: the clock
    MaxHits,    \* bound: hits drawn when a check of each may still draw one
    MaxFaults   \* bound: failures of Redis when one more may come in its checks

Keys == {KeyOf[l] : l \in Limiters}
Workers == {WorkerOf[c] : c \in Callers}

ASSUME RateLimiterAssumption ==
    /\ IsFiniteSet(Callers)
    /\ Limit \in [Limiters -> Nat \ {0}] /\ Window \in [Limiters -> Nat \ {0}]
    /\ FailOpen \subseteq Limiters
    /\ Routes \subseteq Seq(Limiters) \ {<<>>}
    /\ None \notin Nat /\ "redis" \notin Workers
    /\ MaxTime \in Nat
    /\ MaxHits \in [Limiters -> Nat] /\ MaxFaults \in [Limiters -> Nat]

VARIABLES
    clock,      \* time.time() of all workers
    zset,       \* the sorted set of each key
    ttl,        \* when Redis lets the key expire; None if it has no expiry
    memory,     \* InMemoryStorage of each worker, by key
    checking,   \* where each caller is
    passed,     \* hits whose check returned, and by what store
    drawn,      \* uuids drawn for hits
    faults      \* failures so far

limiterVars == <<clock, zset, ttl, memory, checking, passed, drawn, faults>>

-----------------------------------------------------------------------------
(* One check: RedisStorage under SlidingWindowStrategy. *)

NotChecking == [step |-> "none", left |-> <<>>, cutoff |-> None, hit |-> None]

LimiterOf(c) == Head(checking[c].left)
KeyFor(c) == KeyOf[LimiterOf(c)]

\* The next limiter of the route; get_hits takes the time before it awaits.
Start(left) ==
    IF left = <<>> THEN NotChecking
    ELSE [step |-> "prune", left |-> left, cutoff |-> clock - Window[Head(left)], hit |-> None]

\* check returns: the hit is recorded by "redis" or in the memory of a worker.
Passes(c, hit, by) ==
    /\ passed' = passed \cup {[no |-> hit.no, at |-> hit.at, limiter |-> LimiterOf(c), by |-> by]}
    /\ checking' = [checking EXCEPT ![c] = Start(Tail(checking[c].left))]

\* rate_limit_exceeded, or the 503 of the routes that fail closed.
Refuses(c) ==
    /\ checking' = [checking EXCEPT ![c] = NotChecking]
    /\ UNCHANGED passed

Checks(c, route) ==
    /\ checking[c].step = "none"
    /\ checking' = [checking EXCEPT ![c] = Start(route)]
    /\ UNCHANGED <<clock, zset, ttl, memory, passed, drawn, faults>>

\* What is left of a key whose members go: without members it is gone, and so is
\* its expiry.
TtlOf(members, k) == IF members = {} THEN None ELSE ttl[k]

zremrangebyscore(c) ==
    LET kept == {h \in zset[KeyFor(c)] : h.at > checking[c].cutoff}
    IN  /\ checking[c].step = "prune"
        /\ zset' = [zset EXCEPT ![KeyFor(c)] = kept]
        /\ ttl' = [ttl EXCEPT ![KeyFor(c)] = TtlOf(kept, KeyFor(c))]
        /\ checking' = [checking EXCEPT ![c].step = "count"]
        /\ UNCHANGED <<clock, memory, passed, drawn, faults>>

\* len(hits) is compared, and the time of the hit taken, when the answer is there.
zrange(c) ==
    /\ checking[c].step = "count"
    /\ drawn < MaxHits[LimiterOf(c)]
    /\ IF Cardinality(zset[KeyFor(c)]) >= Limit[LimiterOf(c)]
       THEN Refuses(c) /\ UNCHANGED drawn
       ELSE /\ drawn' = drawn + 1
            /\ checking' = [checking EXCEPT ![c].step = "add", ![c].hit = [no |-> drawn + 1, at |-> clock]]
            /\ UNCHANGED passed
    /\ UNCHANGED <<clock, zset, ttl, memory, faults>>

\* Mutant: the member is the time alone, so that hits of one moment are one.
zaddByTime(c) ==
    /\ checking[c].step = "add"
    /\ zset' = [zset EXCEPT ![KeyFor(c)] = {h \in @ : h.at # checking[c].hit.at} \cup {checking[c].hit}]
    /\ checking' = [checking EXCEPT ![c].step = "expire"]
    /\ UNCHANGED <<clock, ttl, memory, passed, drawn, faults>>

\* A key keeps its expiry when a member is added.
zadd(c) ==
    /\ checking[c].step = "add"
    /\ zset' = [zset EXCEPT ![KeyFor(c)] = @ \cup {checking[c].hit}]
    /\ checking' = [checking EXCEPT ![c].step = "expire"]
    /\ UNCHANGED <<clock, ttl, memory, passed, drawn, faults>>

\* EXPIRE of a key that has gone does nothing.
Expires(c) ==
    ttl' = [ttl EXCEPT ![KeyFor(c)] =
              IF zset[KeyFor(c)] = {} THEN None ELSE clock + Window[LimiterOf(c)]]

expire(c) ==
    /\ checking[c].step = "expire"
    /\ Expires(c)
    /\ Passes(c, checking[c].hit, "redis")
    /\ UNCHANGED <<clock, zset, memory, drawn, faults>>

\* InMemoryStorage: nothing is awaited between get_hits and record_hit, so the check
\* of the fallback is one step.  get_hits keeps what is within its window only.
fallback(c) ==
    LET w == WorkerOf[c]
        hits == {h \in memory[w][KeyFor(c)] : h.at > clock - Window[LimiterOf(c)]}
        hit == [no |-> drawn + 1, at |-> clock]
    IN  IF Cardinality(hits) >= Limit[LimiterOf(c)]
        THEN /\ memory' = [memory EXCEPT ![w][KeyFor(c)] = hits]
             /\ Refuses(c) /\ UNCHANGED drawn
        ELSE /\ memory' = [memory EXCEPT ![w][KeyFor(c)] = hits \cup {hit}]
             /\ drawn' = drawn + 1
             /\ Passes(c, hit, w)

\* A call of Redis fails; what it asked for has not been done, or, for the last
\* one, has.  (For the others the latter is a failure of the call after it.)
RedisFails(c) ==
    /\ checking[c].step # "none"
    /\ faults < MaxFaults[LimiterOf(c)] /\ faults' = faults + 1
    /\ drawn < MaxHits[LimiterOf(c)]
    /\ UNCHANGED ttl \/ (checking[c].step = "expire" /\ Expires(c))
    /\ IF LimiterOf(c) \in FailOpen
       THEN fallback(c)
       ELSE Refuses(c) /\ UNCHANGED <<memory, drawn>>
    /\ UNCHANGED <<clock, zset>>

-----------------------------------------------------------------------------
\* Time passes, and keys expire.
Tick ==
    /\ clock < MaxTime
    /\ clock' = clock + 1
    /\ LET Gone(k) == ttl[k] # None /\ ttl[k] <= clock'
       IN  /\ zset' = [k \in Keys |-> IF Gone(k) THEN {} ELSE zset[k]]
           /\ ttl' = [k \in Keys |-> IF Gone(k) THEN None ELSE ttl[k]]
    /\ UNCHANGED <<memory, checking, passed, drawn, faults>>

LimiterInit ==
    /\ clock = 0
    /\ zset = [k \in Keys |-> {}]
    /\ ttl = [k \in Keys |-> None]
    /\ memory = [w \in Workers |-> [k \in Keys |-> {}]]
    /\ checking = [c \in Callers |-> NotChecking]
    /\ passed = {} /\ drawn = 0 /\ faults = 0

LimiterNext(routes) ==
    \/ \E c \in Callers, route \in routes : Checks(c, route)
    \/ \E c \in Callers :
          \/ zremrangebyscore(c)
          \/ zrange(c)
          \/ zadd(c)
          \/ expire(c)
          \/ RedisFails(c)
    \/ Tick

LimiterSpec == LimiterInit /\ [][LimiterNext(Routes)]_limiterVars

-----------------------------------------------------------------------------
(* Properties. *)

\* What a limiter has let through within its window.
Recent(l) == {p \in passed : p.limiter = l /\ p.at > clock - Window[l]}

RecentBy(l, store) == {p \in Recent(l) : p.by = store}

\* Check and record are apart, and a key can expire between the ZADD and the EXPIRE
\* of a hit.  So a limiter that has its key for itself lets more through than its
\* limit, but in one window never more than one call less than the limit, all
\* callers that counted at the same time, and those whose hit went with the key.
\* The fallback of one worker is exact (rate_limiter.py:167-211, 243-250).
OvershootBounded ==
    \A l \in Limiters :
       /\ Cardinality(RecentBy(l, "redis")) <= Limit[l] - 1 + 2 * Cardinality(Callers)
       /\ \A w \in Workers : Cardinality(RecentBy(l, w)) <= Limit[l]

\* "refresh bypasses the cache/lock and forces a live Claude call, so it gets a much
\* tighter cap" (core/api/agents.py:565-566): with one call at a time, and
\* Redis up, a limiter lets no more through in its window than its limit.
CapHolds == \A l \in Limiters : Cardinality(Recent(l)) <= Limit[l]
=============================================================================
