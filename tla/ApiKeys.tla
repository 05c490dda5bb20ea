------------------------------- MODULE ApiKeys --------------------------------
(***************************************************************************)
(* The API keys of one tenant (every statement carries its tenant_id):     *)
(* keys are minted under the quota of the tenant's plan, bound to one      *)
(* agent, checked on every call, revoked, and deleted with their agent.    *)
(*                                                                         *)
(*   Creators   dashboard calls that mint a key     api/auth.py, agents.py *)
(*   Calls      calls that authenticate with a key  api/deps.py            *)
(*                                                                         *)
(* A create is a READ COMMITTED transaction: each statement sees what is   *)
(* committed, and its own INSERT shows at commit, which also frees the     *)
(* advisory lock.  Statements outside transactions are atomic steps.       *)
(***************************************************************************)
EXTENDS Naturals, FiniteSets

CONSTANTS
    Agents,       \* possible agent ids
    Keys,         \* possible keys, each minted at most once (a fresh UUID)
    Creators, Calls,   \* the processes
    Limits,       \* max_api_keys of the plans the tenant may be on
    Unlimited,    \* UNLIMITED, the cap of a plan that is not listed
    Enforced,     \* API_KEY_LIMITS_ENFORCED
    Faults,       \* what may go wrong in a run, a subset of FaultKinds
    None          \* SQL NULL, the absence of a value

FaultKinds == {"plan_lookup", "api_crash"}

ASSUME ApiKeysAssumption ==
    /\ IsFiniteSet(Keys)
    /\ Limits \subseteq Nat \cup {Unlimited}
    /\ Limits # {}
    /\ Unlimited \notin Nat
    /\ Enforced \in BOOLEAN
    /\ Faults \subseteq FaultKinds
    /\ None \notin Agents \cup Keys \cup Creators

VARIABLES
    agents,       \* the rows of agents
    keys,         \* the rows of api_keys, with those not minted or deleted
    plan,         \* the limit that comes with users.plan
    lock,         \* who holds pg_advisory_xact_lock of the tenant, or None
    create,       \* the transaction of each creator
    call,         \* the call each of Calls is serving
    served,       \* history: the agents each key was admitted for
    ceiling       \* history: the highest limit a create has read

vars == <<agents, keys, plan, lock, create, call, served, ceiling>>

NoCreate == [step |-> "idle", kind |-> "unassigned", agent |-> None,
             limit |-> Unlimited]
NoCall == [step |-> "idle", key |-> None, wants |-> {}, agent |-> None]

Init ==
    /\ agents = {}
    /\ keys = [k \in Keys |-> [state |-> "unused", agent |-> None]]
    /\ plan \in Limits
    /\ lock = None
    /\ create = [c \in Creators |-> NoCreate]
    /\ call = [q \in Calls |-> NoCall]
    /\ served = [k \in Keys |-> {}]
    /\ ceiling = 0

\* count_active_api_keys counts these.
Active == {k \in Keys : keys[k].state = "active"}

\* a <= b among limits.
WithinLimit(a, b) == b = Unlimited \/ (a # Unlimited /\ a <= b)

-----------------------------------------------------------------------------
(* Minting a key: POST /v1/agents, /v1/agents/{id}/api-keys, /auth/api-keys *)

\* Mutation of AgentFits: the agent is not looked up.
AgentFitsAnyway(kind, a) == kind = "unassigned" => a = None

\* The lookup that opens the transaction: a new agent must not exist (409),
\* the agent of another key must (404), an unassigned key has none.
AgentFits(kind, a) ==
    /\ kind = "new_agent" => a \in Agents \ agents
    /\ kind = "agent_key" => a \in agents
    /\ kind = "unassigned" => a = None

BeginCreate(c, kind, a) ==
    /\ create[c].step = "idle"
    /\ AgentFits(kind, a)
    /\ create' = [create EXCEPT ![c] =
                     [step |-> IF Enforced THEN "lock" ELSE "insert",
                      kind |-> kind, agent |-> a, limit |-> Unlimited]]
    /\ UNCHANGED <<agents, keys, plan, lock, call, served, ceiling>>

\* Mutation of TakeLock: no pg_advisory_xact_lock.
SkipLock(c) ==
    /\ create[c].step = "lock"
    /\ create' = [create EXCEPT ![c].step = "plan"]
    /\ UNCHANGED <<agents, keys, plan, lock, call, served, ceiling>>

TakeLock(c) ==
    /\ create[c].step = "lock"
    /\ lock = None
    /\ lock' = c
    /\ create' = [create EXCEPT ![c].step = "plan"]
    /\ UNCHANGED <<agents, keys, plan, call, served, ceiling>>

\* An uncapped plan needs no count.
ReadPlan(c) ==
    /\ create[c].step = "plan"
    /\ create' = [create EXCEPT ![c] =
                     [step |-> IF plan = Unlimited THEN "insert" ELSE "count",
                      kind |-> @.kind, agent |-> @.agent, limit |-> plan]]
    /\ ceiling' = IF WithinLimit(ceiling, plan) THEN plan ELSE ceiling
    /\ UNCHANGED <<agents, keys, plan, lock, call, served>>

\* The guard logs the error and returns, but Postgres has aborted the
\* transaction it runs in and refuses every further statement.
PlanLookupFails(c) ==
    /\ "plan_lookup" \in Faults
    /\ create[c].step = "plan"
    /\ create' = [create EXCEPT ![c].step = "aborted"]
    /\ UNCHANGED <<agents, keys, plan, lock, call, served, ceiling>>

\* Mutation of EndTransaction: a session-level lock, not released with it.
EndKeepingLock(c) ==
    /\ create' = [create EXCEPT ![c] = NoCreate]
    /\ UNCHANGED lock

EndTransaction(c) ==
    /\ create' = [create EXCEPT ![c] = NoCreate]
    /\ lock' = IF lock = c THEN None ELSE lock

Rollback(c) ==
    /\ EndTransaction(c)
    /\ UNCHANGED <<agents, keys, plan, call, served, ceiling>>

\* used >= limit refuses.
SlotFree(c) == Cardinality(Active) < create[c].limit

CountKeys(c) ==
    /\ create[c].step = "count"
    /\ SlotFree(c)
    /\ create' = [create EXCEPT ![c].step = "insert"]
    /\ UNCHANGED <<agents, keys, plan, lock, call, served, ceiling>>

\* 409 api_key_limit_reached.
LimitReached(c) ==
    /\ create[c].step = "count"
    /\ ~ SlotFree(c)
    /\ Rollback(c)

\* The primary key of agents, the foreign key of api_keys.
InsertAllowed(c) ==
    /\ create[c].kind = "new_agent" => create[c].agent \notin agents
    /\ create[c].kind = "agent_key" => create[c].agent \in agents

InsertKey(c, k) ==
    /\ create[c].step = "insert"
    /\ InsertAllowed(c)
    /\ keys[k].state = "unused"
    /\ keys' = [keys EXCEPT ![k] = [state |-> "active",
                                    agent |-> create[c].agent]]
    /\ agents' = agents \cup ({create[c].agent} \ {None})
    /\ EndTransaction(c)
    /\ UNCHANGED <<plan, call, served, ceiling>>

\* The agent was created, or deleted, since the transaction began; or the
\* transaction is aborted already.
InsertFails(c) ==
    /\ \/ create[c].step = "insert" /\ ~ InsertAllowed(c)
       \/ create[c].step = "aborted"
    /\ Rollback(c)

CreatorCrash(c) ==
    /\ "api_crash" \in Faults
    /\ create[c].step # "idle"
    /\ Rollback(c)

-----------------------------------------------------------------------------
(* A call with key k that touches the agents of wants: one agent, or, from   *)
(* session_events, all agents with events in the session.                    *)

\* assert_agent_allowed for each of them, once the key's agent is known.
Decide(q, k, wants, agent) ==
    IF wants = {agent}
    THEN /\ call' = [call EXCEPT ![q] = [step |-> "serve", key |-> k,
                                         wants |-> wants, agent |-> agent]]
         /\ served' = [served EXCEPT ![k] = @ \cup {agent}]
    ELSE /\ call' = [call EXCEPT ![q] = NoCall]
         /\ UNCHANGED served

\* verify_api_key finds a key that is bound: session_events then selects
\* rows of its agent only.
VerifyBound(q, k, wants) ==
    /\ call[q].step = "idle"
    /\ keys[k].state = "active"
    /\ keys[k].agent # None
    /\ Cardinality(wants) = 1
    /\ Decide(q, k, wants, keys[k].agent)
    /\ UNCHANGED <<agents, keys, plan, lock, create, ceiling>>

\* It finds a key nobody has used: the call will try to claim it for a, the
\* first agent it asserts.
VerifyUnassigned(q, k, wants, a) ==
    /\ call[q].step = "idle"
    /\ keys[k].state = "active"
    /\ keys[k].agent = None
    /\ a \in wants
    /\ call' = [call EXCEPT ![q] = [step |-> "agent", key |-> k,
                                    wants |-> wants, agent |-> a]]
    /\ UNCHANGED <<agents, keys, plan, lock, create, served, ceiling>>

\* INSERT INTO agents ... ON CONFLICT DO NOTHING
ClaimInsertAgent(q) ==
    /\ call[q].step = "agent"
    /\ agents' = agents \cup {call[q].agent}
    /\ call' = [call EXCEPT ![q].step = "bind"]
    /\ UNCHANGED <<keys, plan, lock, create, served, ceiling>>

\* Mutations of Claimable: without AND agent_id IS NULL ...
ClaimableActive(k) == keys[k].state = "active"

\* ... and without AND revoked = FALSE.
ClaimableUnbound(k) == keys[k].agent = None

\* The WHERE of the conditional UPDATE.
Claimable(k) == keys[k].state = "active" /\ keys[k].agent = None

ClaimWins(q) ==
    LET k == call[q].key
        a == call[q].agent
    IN  /\ call[q].step = "bind"
        /\ Claimable(k)
        /\ a \in agents
        /\ keys' = [keys EXCEPT ![k].agent = a]
        /\ Decide(q, k, call[q].wants, a)
        /\ UNCHANGED <<agents, plan, lock, create, ceiling>>

\* The agent inserted by the statement before was deleted: 500.
ClaimRejected(q) ==
    /\ call[q].step = "bind"
    /\ Claimable(call[q].key)
    /\ call[q].agent \notin agents
    /\ call' = [call EXCEPT ![q] = NoCall]
    /\ UNCHANGED <<agents, keys, plan, lock, create, served, ceiling>>

ClaimLoses(q) ==
    /\ call[q].step = "bind"
    /\ ~ Claimable(call[q].key)
    /\ call' = [call EXCEPT ![q].step = "winner"]
    /\ UNCHANGED <<agents, keys, plan, lock, create, served, ceiling>>

\* A key revoked or deleted meanwhile has no winner: 401.
ReadWinner(q) ==
    LET k == call[q].key
    IN  /\ call[q].step = "winner"
        /\ IF keys[k].state = "active"
           THEN Decide(q, k, call[q].wants, keys[k].agent)
           ELSE call' = [call EXCEPT ![q] = NoCall] /\ UNCHANGED served
        /\ UNCHANGED <<agents, keys, plan, lock, create, ceiling>>

\* The call does its work; one that writes an event upserts its agent.
Serve(q) ==
    /\ call[q].step = "serve"
    /\ agents' \in {agents, agents \cup {call[q].agent}}
    /\ call' = [call EXCEPT ![q] = NoCall]
    /\ UNCHANGED <<keys, plan, lock, create, served, ceiling>>

CallCrash(q) ==
    /\ "api_crash" \in Faults
    /\ call[q].step # "idle"
    /\ call' = [call EXCEPT ![q] = NoCall]
    /\ UNCHANGED <<agents, keys, plan, lock, create, served, ceiling>>

-----------------------------------------------------------------------------
(* The rest of the dashboard *)

Revoke(k) ==
    /\ keys[k].state = "active"
    /\ keys' = [keys EXCEPT ![k].state = "revoked"]
    /\ UNCHANGED <<agents, plan, lock, create, call, served, ceiling>>

\* DELETE /v1/agents/{id}: ON DELETE CASCADE takes the keys along.
DeleteAgent(a) ==
    /\ a \in agents
    /\ agents' = agents \ {a}
    /\ keys' = [k \in Keys |-> IF keys[k].agent = a
                               THEN [keys[k] EXCEPT !.state = "deleted"]
                               ELSE keys[k]]
    /\ UNCHANGED <<plan, lock, create, call, served, ceiling>>

\* POST /v1/billing/select-plan: no lock, no count.
SelectPlan(limit) ==
    /\ plan' = limit
    /\ UNCHANGED <<agents, keys, lock, create, call, served, ceiling>>

CreatorStep(c) ==
    \/ \E kind \in {"new_agent", "agent_key", "unassigned"},
          a \in Agents \cup {None} : BeginCreate(c, kind, a)
    \/ TakeLock(c) \/ ReadPlan(c) \/ PlanLookupFails(c)
    \/ CountKeys(c) \/ LimitReached(c)
    \/ \E k \in Keys : InsertKey(c, k)
    \/ InsertFails(c) \/ CreatorCrash(c)

CallStep(q) ==
    \/ \E k \in Keys, wants \in SUBSET Agents : VerifyBound(q, k, wants)
    \/ \E k \in Keys, wants \in SUBSET Agents, a \in Agents :
          VerifyUnassigned(q, k, wants, a)
    \/ ClaimInsertAgent(q) \/ ClaimWins(q) \/ ClaimRejected(q)
    \/ ClaimLoses(q) \/ ReadWinner(q) \/ Serve(q) \/ CallCrash(q)

DashboardStep ==
    \/ \E k \in Keys : Revoke(k)
    \/ \E a \in Agents : DeleteAgent(a)
    \/ \E limit \in Limits : SelectPlan(limit)

Next ==
    \/ \E c \in Creators : CreatorStep(c)
    \/ \E q \in Calls : CallStep(q)
    \/ DashboardStep

Spec == Init /\ [][Next]_vars

-----------------------------------------------------------------------------
CreateSteps == {"idle", "lock", "plan", "count", "insert", "aborted"}
CallSteps == {"idle", "agent", "bind", "winner", "serve"}
KeyRow == [state: {"unused", "active", "revoked", "deleted"},
           agent: Agents \cup {None}]

\* Every variable holds a value of its kind; a key meant for an agent names it
\* until its INSERT, and a call names key and agent until it ends.
TypeOK ==
    /\ agents \subseteq Agents
    /\ keys \in [Keys -> KeyRow]
    /\ plan \in Limits
    /\ lock \in Creators \cup {None}
    /\ create \in [Creators ->
                      [step: CreateSteps,
                       kind: {"new_agent", "agent_key", "unassigned"},
                       agent: Agents \cup {None},
                       limit: Limits \cup {Unlimited}]]
    /\ call \in [Calls -> [step: CallSteps, key: Keys \cup {None},
                           wants: SUBSET Agents, agent: Agents \cup {None}]]
    /\ served \in [Keys -> SUBSET Agents]
    /\ ceiling \in Nat \cup {Unlimited}
    /\ \A c \in Creators : create[c].kind # "unassigned" => create[c].agent # None
    /\ \A q \in Calls : call[q].step # "idle" =>
                           call[q].key # None /\ call[q].agent # None

\* "Enforce one API key = one agent": whatever claims race, fail or are cut
\* off, no key is ever admitted for two agents.
OneKeyOneAgent ==
    \A k \in Keys : \A a, b \in served[k] : a = b

\* A binding is for good, a revoked key is never bound and never works
\* again, a deleted one does not come back.
KeysOnlyAge ==
    [][\A k \in Keys :
          /\ keys[k].agent # None => keys'[k].agent = keys[k].agent
          /\ keys[k].state \in {"revoked", "deleted"} =>
                /\ keys'[k].state \in {keys[k].state, "deleted"}
                /\ keys'[k].agent = keys[k].agent
                /\ served'[k] = served[k]]_vars

\* While limits are enforced, the tenant never holds more active keys than
\* the most generous plan it was on when it created one allows, however its
\* creates, revocations and changes of plan interleave.
QuotaHolds ==
    Enforced => WithinLimit(Cardinality(Active), ceiling)

\* OneKeyOneAgent made inductive: a key was admitted for its agent only, and
\* only after it was minted.
BindingInv ==
    /\ TypeOK
    /\ OneKeyOneAgent
    /\ \A k \in Keys : served[k] \subseteq {keys[k].agent}
    /\ \A k \in Keys : keys[k].state = "unused" => keys[k].agent = None

\* Between its lock and its INSERT a create is alone.
LockHeld ==
    \A c \in Creators :
        create[c].step \in {"plan", "count", "insert", "aborted"} => lock = c

\* The slot a create has counted is still free when it inserts.
SlotReserved ==
    \A c \in Creators :
        /\ create[c].step = "count" => create[c].limit # Unlimited
        /\ create[c].step \in {"count", "insert"} =>
              WithinLimit(create[c].limit, ceiling)
        /\ create[c].step = "insert" /\ create[c].limit # Unlimited =>
              SlotFree(c)

\* QuotaHolds made inductive.
QuotaInv ==
    /\ TypeOK
    /\ QuotaHolds
    /\ Enforced => LockHeld /\ SlotReserved

\* "Fail-open: if the plan lookup errors, creation is allowed."
FailOpen ==
    [][\A c \in Creators :
          create[c].step = "aborted" /\ create'[c].step = "idle" =>
              \E k \in Keys : k \notin Active /\ k \in Active']_vars

-----------------------------------------------------------------------------
(* Liveness: a statement that can run does run, and Postgres grants the      *)
(* advisory lock in the order it was asked for.                              *)
CreateEffort(c) ==
    \/ ReadPlan(c) \/ PlanLookupFails(c) \/ CountKeys(c) \/ LimitReached(c)
    \/ \E k \in Keys : InsertKey(c, k)
    \/ InsertFails(c)

LiveSpec ==
    /\ Spec
    /\ \A c \in Creators : WF_vars(CreateEffort(c)) /\ SF_vars(TakeLock(c))

\* Every create gets its turn and ends, with a key or with an error: the lock
\* is freed on every path out of the transaction.  (TLC's supply of keys is
\* finite; a create that would need one more waits in the model only.)
CreatesEnd ==
    \A c \in Creators :
        create[c].step # "idle" ~>
            \/ create[c].step = "idle"
            \/ \A k \in Keys : keys[k].state # "unused"
=============================================================================
