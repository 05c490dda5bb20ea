----------------------------- MODULE MCEventStore -----------------------------
(* Instances of EventStore for TLC: two tenants, the second with one agent. *)
EXTENDS EventStore

CONSTANTS t1, t2, a1, a2, b1

MCTenants == {t1, t2}
MCTenantOf == [a \in Agents |-> IF a = b1 THEN t2 ELSE t1]
=============================================================================
