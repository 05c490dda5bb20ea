------------------------------ MODULE MCClients -------------------------------
(* Values for model checking Clients. *)
EXTENDS Clients

CONSTANTS a1, a2, t1, t2, u1, u2, ctx, k1, k2, w1

MCTypeOf == (1 :> t1) @@ (2 :> t2)
MCWorkspace == (u1 :> {a1}) @@ (u2 :> {a2})
MCAgentOf == ctx :> a1

\* Requests for a sign-in code (core/api/auth.py) fail closed, posts to the community
\* (core/api/community.py) fail open, and the subscriptions to updates
\* (core/api/telemetry.py) stand for a larger limit.
MCWorkerOf == [c \in Callers |-> w1]
MCLimit == [l \in Limiters |-> IF l = "updates" THEN 2 ELSE 1]
MCWindow == [l \in Limiters |-> 2]
MCKeyOf == [l \in Limiters |-> l]
MCMaxHits == [l \in Limiters |-> IF l = "updates" THEN 6 ELSE 3]
MCMaxFaults == [l \in Limiters |-> CASE l = "otp" -> 1 [] l = "post" -> 2 [] OTHER -> 0]
=============================================================================
