---------------------------- MODULE ApiKeysProofs -----------------------------
(***************************************************************************)
(* Proofs about ApiKeys, for every finite set of keys, every set of agents,*)
(* creators and calls, every set of plan limits and any faults.            *)
(***************************************************************************)
EXTENDS ApiKeys, FiniteSetTheorems, TLAPS

-----------------------------------------------------------------------------
(* Types *)

\* An empty registry is well-formed.
LEMMA KeyTypeInit == Init => TypeOK
  BY ApiKeysAssumption
     DEF Init, TypeOK, KeyRow, NoCreate, NoCall, CreateSteps, CallSteps

\* The statements of a create keep the registry well-formed.
LEMMA CreatorTypes ==
  ASSUME TypeOK, NEW c \in Creators, CreatorStep(c)
  PROVE  TypeOK'
<1> USE ApiKeysAssumption DEF TypeOK, CreateSteps
<1>1. ASSUME NEW kind \in {"new_agent", "agent_key", "unassigned"},
             NEW a \in Agents \cup {None}, BeginCreate(c, kind, a)
      PROVE  TypeOK'
  BY <1>1 DEF BeginCreate, AgentFits
<1>2. CASE TakeLock(c)
  BY <1>2 DEF TakeLock
<1>3. CASE ReadPlan(c)
  <2>1. plan \in Nat \cup {Unlimited} /\ ceiling' \in Nat \cup {Unlimited}
    BY <1>3 DEF ReadPlan
  <2>2. QED
    BY <1>3, <2>1 DEF ReadPlan
<1>4. CASE PlanLookupFails(c) \/ CountKeys(c)
  BY <1>4 DEF PlanLookupFails, CountKeys
<1>5. CASE LimitReached(c) \/ InsertFails(c) \/ CreatorCrash(c)
  BY <1>5 DEF LimitReached, InsertFails, CreatorCrash, Rollback,
              EndTransaction, NoCreate
<1>6. ASSUME NEW k \in Keys, InsertKey(c, k)
      PROVE  TypeOK'
  BY <1>6 DEF InsertKey, EndTransaction, NoCreate, KeyRow
<1>7. QED
  BY <1>1, <1>2, <1>3, <1>4, <1>5, <1>6 DEF CreatorStep

\* Decide leaves calls and history well-typed, whatever agent it is given.
LEMMA DecideTypes ==
  ASSUME TypeOK, NEW q \in Calls, NEW k \in Keys, NEW wants \in SUBSET Agents,
         NEW agent, Decide(q, k, wants, agent)
  PROVE  /\ call' \in [Calls -> [step: CallSteps, key: Keys \cup {None},
                                 wants: SUBSET Agents,
                                 agent: Agents \cup {None}]]
         /\ served' \in [Keys -> SUBSET Agents]
         /\ \A p \in Calls : call'[p].step # "idle" =>
                                call'[p].key # None /\ call'[p].agent # None
<1> USE ApiKeysAssumption DEF TypeOK, CallSteps
<1>1. CASE wants = {agent}
  <2>1. agent \in Agents /\ agent # None /\ k # None
    BY <1>1
  <2>2. QED
    BY <1>1, <2>1 DEF Decide
<1>2. CASE wants # {agent}
  BY <1>2 DEF Decide, NoCall
<1>3. QED
  BY <1>1, <1>2

\* The statements of an authenticated call keep the registry well-formed.
LEMMA CallTypes ==
  ASSUME TypeOK, NEW q \in Calls, CallStep(q)
  PROVE  TypeOK'
<1> USE ApiKeysAssumption DEF TypeOK
<1>1. ASSUME NEW k \in Keys, NEW wants \in SUBSET Agents,
             VerifyBound(q, k, wants)
      PROVE  TypeOK'
  BY <1>1, DecideTypes DEF VerifyBound
<1>2. ASSUME NEW k \in Keys, NEW wants \in SUBSET Agents, NEW a \in Agents,
             VerifyUnassigned(q, k, wants, a)
      PROVE  TypeOK'
  BY <1>2 DEF VerifyUnassigned, CallSteps
<1>3. CASE ClaimInsertAgent(q)
  BY <1>3 DEF ClaimInsertAgent, CallSteps
<1>4. CASE ClaimWins(q)
  <2>1. /\ call[q].key \in Keys /\ call[q].wants \in SUBSET Agents
        /\ Decide(q, call[q].key, call[q].wants, call[q].agent)
    BY <1>4 DEF ClaimWins
  <2>2. keys' \in [Keys -> KeyRow]
    BY <1>4 DEF ClaimWins, KeyRow
  <2>3. QED
    BY <1>4, <2>1, <2>2, DecideTypes DEF ClaimWins
<1>5. CASE ClaimRejected(q) \/ ClaimLoses(q) \/ Serve(q) \/ CallCrash(q)
  BY <1>5 DEF ClaimRejected, ClaimLoses, Serve, CallCrash, NoCall, CallSteps
<1>6. CASE ReadWinner(q)
  <2>1. call[q].key \in Keys /\ call[q].wants \in SUBSET Agents
    BY <1>6 DEF ReadWinner
  <2>2. CASE keys[call[q].key].state = "active"
    BY <1>6, <2>1, <2>2, DecideTypes DEF ReadWinner
  <2>3. CASE keys[call[q].key].state # "active"
    BY <1>6, <2>3 DEF ReadWinner, NoCall, CallSteps
  <2>4. QED
    BY <2>2, <2>3
<1>7. QED
  BY <1>1, <1>2, <1>3, <1>4, <1>5, <1>6 DEF CallStep

\* Every step keeps the registry well-formed.
LEMMA KeyTypeStep == TypeOK /\ [Next]_vars => TypeOK'
<1> SUFFICES ASSUME TypeOK, [Next]_vars PROVE TypeOK'
  OBVIOUS
<1>1. ASSUME NEW c \in Creators, CreatorStep(c) PROVE TypeOK'
  BY <1>1, CreatorTypes
<1>2. ASSUME NEW q \in Calls, CallStep(q) PROVE TypeOK'
  BY <1>2, CallTypes
<1>3. CASE DashboardStep
  BY <1>3 DEF DashboardStep, Revoke, DeleteAgent, SelectPlan, TypeOK, KeyRow
<1>4. CASE UNCHANGED vars
  BY <1>4 DEF vars, TypeOK
<1>5. QED
  BY <1>1, <1>2, <1>3, <1>4 DEF Next

\* Every reachable state of the key registry is well-formed.
THEOREM KeyTypeCorrect == Spec => []TypeOK
  BY KeyTypeInit, KeyTypeStep, PTL DEF Spec

-----------------------------------------------------------------------------
(* One key, one agent *)

\* No key has been admitted for anything at the start.
LEMMA BindingInit == Init => BindingInv
  BY KeyTypeInit DEF Init, BindingInv, OneKeyOneAgent

\* What a step may do to the registry: a call admits a working key for the
\* agent it is bound to then, or binds it; a create mints an unused one.
RegistryEffect ==
    \/ UNCHANGED <<keys, served>>
    \/ \E k \in Keys, a \in Agents :
          /\ keys[k].state = "active"
          /\ keys[k].agent \in {None, a}
          /\ keys' = [keys EXCEPT ![k].agent = a]
          /\ served' \in {served, [served EXCEPT ![k] = @ \cup {a}]}
    \/ \E k \in Keys, a \in Agents \cup {None} :
          /\ keys[k].state = "unused"
          /\ keys' = [keys EXCEPT ![k] = [state |-> "active", agent |-> a]]
          /\ UNCHANGED served
    \/ \E k \in Keys : Revoke(k)
    \/ \E a \in Agents : DeleteAgent(a)

\* Every step has one of the effects above on keys and admissions.
LEMMA StepHasRegistryEffect ==
  ASSUME TypeOK, [Next]_vars
  PROVE  RegistryEffect
<1> USE DEF RegistryEffect
<1>1. ASSUME NEW c \in Creators, CreatorStep(c) PROVE RegistryEffect
  <2>1. ASSUME NEW k \in Keys, InsertKey(c, k) PROVE RegistryEffect
    BY <2>1 DEF InsertKey, TypeOK
  <2>2. QED
    BY <1>1, <2>1 DEF CreatorStep, BeginCreate, TakeLock, ReadPlan,
         PlanLookupFails, CountKeys, LimitReached, InsertFails, CreatorCrash,
         Rollback
<1>2. ASSUME NEW q \in Calls, CallStep(q) PROVE RegistryEffect
  <2>1. ASSUME NEW k \in Keys, NEW wants \in SUBSET Agents,
               VerifyBound(q, k, wants)
        PROVE  RegistryEffect
    <3>1. /\ keys[k].state = "active" /\ keys[k].agent \in Agents
          /\ UNCHANGED keys
          /\ Decide(q, k, wants, keys[k].agent)
      BY <2>1 DEF VerifyBound, TypeOK, KeyRow
    <3>2. keys' = [keys EXCEPT ![k].agent = keys[k].agent]
      BY <3>1 DEF TypeOK, KeyRow
    <3>3. \/ UNCHANGED served
          \/ served' = [served EXCEPT ![k] = @ \cup {keys[k].agent}]
      BY <3>1 DEF Decide
    <3>4. QED
      BY <3>1, <3>2, <3>3
  <2>2. CASE ClaimWins(q)
    <3>1. /\ call[q].key \in Keys /\ call[q].agent \in Agents
          /\ call[q].wants \in SUBSET Agents
      BY <2>2 DEF ClaimWins, TypeOK
    <3>2. /\ Claimable(call[q].key)
          /\ keys' = [keys EXCEPT ![call[q].key].agent = call[q].agent]
          /\ Decide(q, call[q].key, call[q].wants, call[q].agent)
      BY <2>2 DEF ClaimWins
    <3>3. \/ UNCHANGED served
          \/ served' = [served EXCEPT ![call[q].key] = @ \cup {call[q].agent}]
      BY <3>1, <3>2 DEF Decide
    <3>4. QED
      BY <3>1, <3>2, <3>3 DEF Claimable
  <2>3. CASE ReadWinner(q)
    <3> DEFINE k == call[q].key
    <3>1. k \in Keys /\ call[q].wants \in SUBSET Agents /\ UNCHANGED keys
      BY <2>3 DEF ReadWinner, TypeOK
    <3>2. CASE keys[k].state = "active" /\ served' # served
      <4>1. /\ Decide(q, k, call[q].wants, keys[k].agent)
            /\ keys[k].agent \in Agents \cup {None}
        BY <2>3, <3>1, <3>2 DEF ReadWinner, TypeOK, KeyRow
      <4>2. /\ keys[k].agent \in Agents
            /\ served' = [served EXCEPT ![k] = @ \cup {keys[k].agent}]
        BY <3>1, <3>2, <4>1, ApiKeysAssumption DEF Decide
      <4>3. keys' = [keys EXCEPT ![k].agent = keys[k].agent]
        BY <3>1 DEF TypeOK, KeyRow
      <4>4. QED
        BY <3>1, <3>2, <4>2, <4>3
    <3>3. CASE served' = served
      BY <3>1, <3>3
    <3>4. CASE keys[k].state # "active"
      BY <2>3, <3>1, <3>4 DEF ReadWinner
    <3>5. QED
      BY <3>2, <3>3, <3>4
  <2>4. QED
    BY <1>2, <2>1, <2>2, <2>3 DEF CallStep, VerifyUnassigned, ClaimInsertAgent,
         ClaimRejected, ClaimLoses, Serve, CallCrash
<1>3. CASE DashboardStep
  BY <1>3 DEF DashboardStep, SelectPlan
<1>4. CASE UNCHANGED vars
  BY <1>4 DEF vars
<1>5. QED
  BY <1>1, <1>2, <1>3, <1>4 DEF Next

\* No step admits a key for an agent it is not bound to.
LEMMA BindingStep == BindingInv /\ [Next]_vars => BindingInv'
<1> SUFFICES ASSUME BindingInv, [Next]_vars PROVE BindingInv'
  OBVIOUS
<1> USE ApiKeysAssumption DEF BindingInv
<1>1. TypeOK'
  BY KeyTypeStep
<1>2. /\ \A k \in Keys : served'[k] \subseteq {keys'[k].agent}
      /\ \A k \in Keys : keys'[k].state = "unused" => keys'[k].agent = None
  <2>1. CASE UNCHANGED <<keys, served>>
    BY <2>1
  <2>2. ASSUME NEW k \in Keys, NEW a \in Agents, keys[k].state = "active",
               keys[k].agent \in {None, a},
               keys' = [keys EXCEPT ![k].agent = a],
               served' \in {served, [served EXCEPT ![k] = @ \cup {a}]}
        PROVE  <1>2!1 /\ <1>2!2
    BY <2>2 DEF TypeOK, KeyRow
  <2>3. ASSUME NEW k \in Keys, NEW a \in Agents \cup {None},
               keys[k].state = "unused", UNCHANGED served,
               keys' = [keys EXCEPT ![k] = [state |-> "active", agent |-> a]]
        PROVE  <1>2!1 /\ <1>2!2
    BY <2>3 DEF TypeOK, KeyRow
  <2>4. ASSUME NEW k \in Keys, Revoke(k)
        PROVE  <1>2!1 /\ <1>2!2
    BY <2>4 DEF Revoke, TypeOK, KeyRow
  <2>5. ASSUME NEW a \in Agents, DeleteAgent(a)
        PROVE  <1>2!1 /\ <1>2!2
    BY <2>5 DEF DeleteAgent, TypeOK, KeyRow
  <2>6. QED
    BY <2>1, <2>2, <2>3, <2>4, <2>5, StepHasRegistryEffect DEF RegistryEffect
<1>3. OneKeyOneAgent'
  BY <1>2 DEF OneKeyOneAgent
<1>4. QED
  BY <1>1, <1>2, <1>3

\* A key has been admitted for the agent it is bound to and for no other.
THEOREM BindingInvariant == Spec => []BindingInv
  BY BindingInit, BindingStep, PTL DEF Spec

\* No key is ever admitted for two agents, however many claims race for it
\* with revocations, deletions and crashes.
THEOREM OneAgentPerKey == Spec => []OneKeyOneAgent
<1>1. BindingInv => OneKeyOneAgent
  BY DEF BindingInv
<1>2. QED
  BY <1>1, BindingInvariant, PTL

\* Bindings are for good; revoked and deleted keys stay what they are.
THEOREM BindingsLast == Spec => KeysOnlyAge
<1> DEFINE Ages ==
      \A k \in Keys :
        /\ keys[k].agent # None => keys'[k].agent = keys[k].agent
        /\ keys[k].state \in {"revoked", "deleted"} =>
              /\ keys'[k].state \in {keys[k].state, "deleted"}
              /\ keys'[k].agent = keys[k].agent
              /\ served'[k] = served[k]
<1>1. ASSUME BindingInv, [Next]_vars PROVE Ages
  <2> USE <1>1 DEF BindingInv
  <2>1. CASE UNCHANGED <<keys, served>>
    BY <2>1
  <2>2. ASSUME NEW k \in Keys, NEW a \in Agents, keys[k].state = "active",
               keys[k].agent \in {None, a},
               keys' = [keys EXCEPT ![k].agent = a],
               served' \in {served, [served EXCEPT ![k] = @ \cup {a}]}
        PROVE  Ages
    BY <2>2 DEF TypeOK, KeyRow
  <2>3. ASSUME NEW k \in Keys, NEW a \in Agents \cup {None},
               keys[k].state = "unused", UNCHANGED served,
               keys' = [keys EXCEPT ![k] = [state |-> "active", agent |-> a]]
        PROVE  Ages
    BY <2>3 DEF TypeOK, KeyRow
  <2>4. ASSUME NEW k \in Keys, Revoke(k)
        PROVE  Ages
    BY <2>4 DEF Revoke, TypeOK, KeyRow
  <2>5. ASSUME NEW a \in Agents, DeleteAgent(a)
        PROVE  Ages
    BY <2>5 DEF DeleteAgent, TypeOK, KeyRow
  <2>6. QED
    BY <2>1, <2>2, <2>3, <2>4, <2>5, StepHasRegistryEffect DEF RegistryEffect
<1>2. BindingInv /\ [Next]_vars => [Ages]_vars
  BY <1>1
<1>3. QED
  BY <1>2, BindingInvariant, PTL DEF Spec, KeysOnlyAge

-----------------------------------------------------------------------------
(* The quota *)

\* Active keys can be counted.
LEMMA ActiveIsFinite ==
  /\ IsFiniteSet(Active)
  /\ Cardinality(Active) \in Nat
<1>1. Active \subseteq Keys
  BY DEF Active
<1>2. QED
  BY <1>1, ApiKeysAssumption, FS_Subset, FS_CardinalityType

\* Fewer active keys take no more room.
LEMMA FewerKeys ==
  ASSUME Active' \subseteq Active
  PROVE  /\ Cardinality(Active') \in Nat
         /\ Cardinality(Active') <= Cardinality(Active)
  BY ActiveIsFinite, FS_Subset, FS_CardinalityType

\* The quota holds of an empty registry.
LEMMA QuotaInit == Init => QuotaInv
<1> SUFFICES ASSUME Init PROVE QuotaInv
  OBVIOUS
<1>1. TypeOK
  BY KeyTypeInit
<1>2. Active = {}
  BY DEF Init, Active
<1>3. QuotaHolds
  BY <1>2, FS_EmptySet, ApiKeysAssumption DEF QuotaHolds, WithinLimit, Init
<1>4. LockHeld /\ SlotReserved
  BY DEF Init, LockHeld, SlotReserved, NoCreate
<1>5. QED
  BY <1>1, <1>3, <1>4 DEF QuotaInv

\* Outside the creates, keys only disappear.
LEMMA QuotaElsewhere ==
  ASSUME QuotaInv, TypeOK', Active' \subseteq Active,
         UNCHANGED <<create, lock, ceiling>>
  PROVE  QuotaInv'
<1> USE FewerKeys, ActiveIsFinite DEF QuotaInv, WithinLimit
<1>1. QuotaHolds'
  BY ApiKeysAssumption DEF QuotaHolds, TypeOK
<1>2. Enforced => LockHeld'
  BY DEF LockHeld
<1>3. ASSUME Enforced PROVE SlotReserved'
  <2>1. ASSUME NEW c \in Creators, create[c].limit # Unlimited, SlotFree(c)
        PROVE  SlotFree(c)'
    <3>1. create[c].limit \in Nat
      BY <2>1, ApiKeysAssumption DEF TypeOK
    <3>2. QED
      BY <2>1, <3>1 DEF SlotFree
  <2>2. QED
    BY <1>3, <2>1 DEF SlotReserved
<1>4. QED
  BY <1>1, <1>2, <1>3

\* A create that ends without a key.
LEMMA QuotaRollback ==
  ASSUME QuotaInv, TypeOK', NEW c \in Creators, Rollback(c)
  PROVE  QuotaInv'
<1> USE DEF QuotaInv
<1>1. Active' = Active /\ ceiling' = ceiling
  BY DEF Rollback, Active
<1>2. create'[c] = NoCreate /\ \A d \in Creators \ {c} : create'[d] = create[d]
  BY DEF Rollback, EndTransaction, TypeOK
<1>3. QuotaHolds'
  BY <1>1 DEF QuotaHolds
<1>4. ASSUME Enforced PROVE LockHeld'
  BY <1>2, <1>4 DEF LockHeld, Rollback, EndTransaction, NoCreate
<1>5. ASSUME Enforced PROVE SlotReserved'
  BY <1>1, <1>2, <1>5 DEF SlotReserved, SlotFree, NoCreate
<1>6. QED
  BY <1>3, <1>4, <1>5

\* A create that reads the plan may raise the ceiling, never lower it.
LEMMA QuotaPlan ==
  ASSUME QuotaInv, TypeOK', NEW c \in Creators, ReadPlan(c)
  PROVE  QuotaInv'
<1> USE ApiKeysAssumption, ActiveIsFinite DEF QuotaInv
<1>1. Active' = Active /\ lock' = lock
  BY DEF ReadPlan, Active
<1>2. /\ create'[c].step = (IF plan = Unlimited THEN "insert" ELSE "count")
      /\ create'[c].limit = plan
      /\ \A d \in Creators \ {c} : create'[d] = create[d]
  BY DEF ReadPlan, TypeOK
<1>3. /\ WithinLimit(plan, ceiling')
      /\ \A n \in Nat \cup {Unlimited} :
            WithinLimit(n, ceiling) => WithinLimit(n, ceiling')
  BY DEF ReadPlan, WithinLimit, TypeOK
<1>4. QuotaHolds'
  BY <1>1, <1>3 DEF QuotaHolds
<1>5. ASSUME Enforced PROVE LockHeld'
  BY <1>1, <1>2, <1>5 DEF LockHeld, ReadPlan
<1>6. ASSUME Enforced PROVE SlotReserved'
  <2>1. ASSUME NEW d \in Creators \ {c}
        PROVE  create[d].limit \in Nat \cup {Unlimited}
    BY DEF TypeOK
  <2>2. QED
    BY <1>1, <1>2, <1>3, <1>6, <2>1 DEF SlotReserved, SlotFree
<1>7. QED
  BY <1>4, <1>5, <1>6

\* The only step that adds a key adds it to a slot that is still free: every
\* other create waits for the lock.
LEMMA QuotaInsert ==
  ASSUME QuotaInv, TypeOK', NEW c \in Creators, NEW k \in Keys,
         InsertKey(c, k)
  PROVE  QuotaInv'
<1> USE ApiKeysAssumption, ActiveIsFinite DEF QuotaInv
<1>1. Active' = Active \cup {k} /\ k \notin Active /\ ceiling' = ceiling
  BY DEF InsertKey, Active, TypeOK
<1>2. Cardinality(Active') = Cardinality(Active) + 1
  BY <1>1, FS_AddElement
<1>3. create'[c] = NoCreate /\ \A d \in Creators \ {c} : create'[d] = create[d]
  BY DEF InsertKey, EndTransaction, TypeOK
<1>4. ASSUME Enforced PROVE LockHeld'
  BY <1>3, <1>4 DEF LockHeld, InsertKey, EndTransaction, NoCreate
<1>5. ASSUME Enforced PROVE SlotReserved'
  <2>1. ASSUME NEW d \in Creators \ {c} PROVE create[d].step # "insert"
    BY <1>5 DEF InsertKey, LockHeld
  <2>2. QED
    BY <1>1, <1>3, <1>5, <2>1 DEF SlotReserved, NoCreate
<1>6. ASSUME Enforced PROVE WithinLimit(Cardinality(Active'), ceiling')
  <2>1. /\ create[c].limit \in Nat \cup {Unlimited}
        /\ ceiling \in Nat \cup {Unlimited}
    BY DEF TypeOK
  <2>2. /\ WithinLimit(create[c].limit, ceiling)
        /\ create[c].limit # Unlimited =>
              Cardinality(Active) < create[c].limit
    BY <1>6 DEF InsertKey, SlotReserved, SlotFree
  <2>3. QED
    BY <1>1, <1>2, <2>1, <2>2 DEF WithinLimit
<1>7. QED
  BY <1>4, <1>5, <1>6 DEF QuotaHolds

\* Every statement of a create keeps the quota.
LEMMA QuotaCreator ==
  ASSUME QuotaInv, TypeOK', NEW c \in Creators, CreatorStep(c)
  PROVE  QuotaInv'
<1> USE DEF QuotaInv
<1>1. ASSUME NEW kind \in {"new_agent", "agent_key", "unassigned"},
             NEW a \in Agents \cup {None}, BeginCreate(c, kind, a)
      PROVE  QuotaInv'
  <2>1. Active' = Active /\ lock' = lock /\ ceiling' = ceiling
    BY <1>1 DEF BeginCreate, Active
  <2>2. /\ Enforced => create'[c].step = "lock"
        /\ \A d \in Creators \ {c} : create'[d] = create[d]
    BY <1>1 DEF BeginCreate, TypeOK
  <2>3. QED
    BY <2>1, <2>2 DEF QuotaHolds, LockHeld, SlotReserved, SlotFree
<1>2. CASE TakeLock(c)
  <2>1. Active' = Active /\ lock = None /\ lock' = c /\ ceiling' = ceiling
    BY <1>2 DEF TakeLock, Active
  <2>2. /\ create'[c].step = "plan"
        /\ \A d \in Creators \ {c} : create'[d] = create[d]
    BY <1>2 DEF TakeLock, TypeOK
  <2>3. Enforced => LockHeld'
    BY <2>1, <2>2, ApiKeysAssumption DEF LockHeld
  <2>4. QED
    BY <2>1, <2>2, <2>3 DEF QuotaHolds, SlotReserved, SlotFree
<1>3. CASE ReadPlan(c)
  BY <1>3, QuotaPlan
<1>4. CASE PlanLookupFails(c)
  <2>1. Active' = Active /\ lock' = lock /\ ceiling' = ceiling
    BY <1>4 DEF PlanLookupFails, Active
  <2>2. /\ create'[c].step = "aborted" /\ create[c].step = "plan"
        /\ \A d \in Creators \ {c} : create'[d] = create[d]
    BY <1>4 DEF PlanLookupFails, TypeOK
  <2>3. QED
    BY <2>1, <2>2 DEF QuotaHolds, LockHeld, SlotReserved, SlotFree
<1>5. CASE CountKeys(c)
  <2>1. Active' = Active /\ lock' = lock /\ ceiling' = ceiling
    BY <1>5 DEF CountKeys, Active
  <2>2. /\ create[c].step = "count" /\ create'[c].step = "insert"
        /\ create'[c].limit = create[c].limit /\ SlotFree(c)
        /\ \A d \in Creators \ {c} : create'[d] = create[d]
    BY <1>5 DEF CountKeys, TypeOK
  <2>3. QED
    BY <2>1, <2>2 DEF QuotaHolds, LockHeld, SlotReserved, SlotFree
<1>6. CASE LimitReached(c) \/ InsertFails(c) \/ CreatorCrash(c)
  BY <1>6, QuotaRollback DEF LimitReached, InsertFails, CreatorCrash
<1>7. ASSUME NEW k \in Keys, InsertKey(c, k) PROVE QuotaInv'
  BY <1>7, QuotaInsert
<1>8. QED
  BY <1>1, <1>2, <1>3, <1>4, <1>5, <1>6, <1>7 DEF CreatorStep

\* Every step keeps the quota.
LEMMA QuotaStep == QuotaInv /\ [Next]_vars => QuotaInv'
<1> SUFFICES ASSUME QuotaInv, [Next]_vars PROVE QuotaInv'
  OBVIOUS
<1> USE DEF QuotaInv
<1>1. TypeOK'
  BY KeyTypeStep
<1>2. ASSUME NEW c \in Creators, CreatorStep(c) PROVE QuotaInv'
  BY <1>1, <1>2, QuotaCreator
<1>3. ASSUME NEW q \in Calls, CallStep(q) PROVE QuotaInv'
  <2>1. UNCHANGED <<create, lock, ceiling>>
    BY <1>3 DEF CallStep, VerifyBound, VerifyUnassigned, ClaimInsertAgent,
         ClaimWins, ClaimRejected, ClaimLoses, ReadWinner, Serve, CallCrash
  <2>2. Active' \subseteq Active
    <3>1. CASE ClaimWins(q)
      BY <3>1 DEF ClaimWins, Claimable, Active, TypeOK, KeyRow
    <3>2. CASE UNCHANGED keys
      BY <3>2 DEF Active
    <3>3. QED
      BY <1>3, <3>1, <3>2
         DEF CallStep, VerifyBound, VerifyUnassigned, ClaimInsertAgent,
             ClaimRejected, ClaimLoses, ReadWinner, Serve, CallCrash
  <2>3. QED
    BY <1>1, <2>1, <2>2, QuotaElsewhere
<1>4. CASE DashboardStep
  <2>1. UNCHANGED <<create, lock, ceiling>>
    BY <1>4 DEF DashboardStep, Revoke, DeleteAgent, SelectPlan
  <2>2. Active' \subseteq Active
    BY <1>4 DEF DashboardStep, Revoke, DeleteAgent, SelectPlan, Active, TypeOK,
         KeyRow
  <2>3. QED
    BY <1>1, <2>1, <2>2, QuotaElsewhere
<1>5. CASE UNCHANGED vars
  BY <1>1, <1>5, QuotaElsewhere DEF vars, Active
<1>6. QED
  BY <1>2, <1>3, <1>4, <1>5 DEF Next

\* Between lock and INSERT a create is alone, so the slot it has counted is
\* still free when it inserts.
THEOREM QuotaInvariant == Spec => []QuotaInv
  BY QuotaInit, QuotaStep, PTL DEF Spec

\* The advisory lock makes count-then-insert safe: active keys never exceed
\* the most generous limit a create has read.
THEOREM TenantWithinQuota == Spec => []QuotaHolds
<1>1. QuotaInv => QuotaHolds
  BY DEF QuotaInv
<1>2. QED
  BY <1>1, QuotaInvariant, PTL
=============================================================================
