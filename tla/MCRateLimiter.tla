---------------------------- MODULE MCRateLimiter -----------------------------
(* The two limiters of the suggestions (core/api/agents.py) for one tenant. *)
EXTENDS RateLimiter

CONSTANTS refresh, rate, tenant, c1, w1

MCWorkerOf == [c \in Callers |-> w1]
MCLimit == [l \in Limiters |-> IF l = refresh THEN 1 ELSE 3]
MCWindow == [l \in Limiters |-> IF l = refresh THEN 3 ELSE 1]

\* RedisStorage(key_prefix="suggestions") for both, and tenant_id as the key.
MCKeyOf == [l \in Limiters |-> tenant]

MCRoutes == {<<rate>>, <<refresh, rate>>}
MCMaxHits == [l \in Limiters |-> 6]
MCMaxFaults == [l \in Limiters |-> 0]
=============================================================================
