--------------------------- MODULE EventStoreProofs ---------------------------
(***************************************************************************)
(* Proofs about EventLog and EventStore, for every set of tenants, agents, *)
(* subjects, writers and erasers, every batch limit and every combination  *)
(* of faults.  MaxEvents may be any number.                                *)
(***************************************************************************)
EXTENDS EventStore, SequenceTheorems, WellFoundedInduction, TLAPS

-----------------------------------------------------------------------------
(* The log *)

\* The empty log is sound.
LEMMA LogInvInit == LogInit => LogInv
<1> SUFFICES ASSUME LogInit PROVE LogInv
  OBVIOUS
<1>1. Live = {}
  BY DEF LogInit, Live
<1>2. QED
  BY <1>1, EventLogAssumption
     DEF LogInit, LogInv, LogTypeOK, NumbersDrawn, LineageSound, EventId

\* A row appended behind a parent of its tenant keeps the log sound.
LEMMA AppendKeepsLogInv ==
  ASSUME LogInv, NEW row \in Row, AppendRow(row)
  PROVE  LogInv'
<1> USE EventLogAssumption, NoneIsNoRow DEF EventId
<1>1. LogTypeOK'
  BY DEF LogInv, LogTypeOK, AppendRow, Draw
<1>2. /\ Live' = Live \cup {nextSeq}
      /\ events'[nextSeq] = row
      /\ \A e \in Live : e # nextSeq /\ events'[e] = events[e]
  BY DEF LogInv, LogTypeOK, NumbersDrawn, AppendRow, Live
<1>3. NumbersDrawn'
  BY <1>2 DEF LogInv, LogTypeOK, NumbersDrawn, AppendRow, Draw, Live
<1>4. LineageSound'
  <2> SUFFICES ASSUME NEW e \in Live', events'[e].parent # None
               PROVE  LET p == events'[e].parent
                      IN  /\ p \in Live'
                          /\ p < e
                          /\ TenantOf[events'[p].agent] =
                               TenantOf[events'[e].agent]
    BY DEF LineageSound
  <2>1. CASE e = nextSeq
    <3>1. /\ row.parent \in Live
          /\ TenantOf[events[row.parent].agent] = TenantOf[row.agent]
      BY <2>1, <1>2 DEF AppendRow, AllowedParent
    <3>2. row.parent < nextSeq /\ events'[row.parent] = events[row.parent]
      BY <3>1, <1>2 DEF LogInv, NumbersDrawn
    <3>3. QED
      BY <2>1, <3>1, <3>2, <1>2
  <2>2. CASE e \in Live
    BY <2>2, <1>2 DEF LogInv, LineageSound
  <2>3. QED
    BY <2>1, <2>2, <1>2
<1>5. QED
  BY <1>1, <1>3, <1>4 DEF LogInv

\* An erasure that orphans no row keeps the log sound.
LEMMA EraseKeepsLogInv ==
  ASSUME LogInv, NEW S \in SUBSET EventId, Erase(S)
  PROVE  LogInv'
<1> USE EventLogAssumption, NoneIsNoRow DEF EventId
<1>1. LogTypeOK'
  BY DEF LogInv, LogTypeOK, Erase
<1>2. /\ Live' = Live \ S
      /\ \A e \in Live' : events'[e] = events[e]
  BY DEF LogInv, LogTypeOK, Erase, Live
<1>3. NumbersDrawn'
  BY <1>2 DEF LogInv, NumbersDrawn, Erase
<1>4. LineageSound'
  <2> SUFFICES ASSUME NEW e \in Live', events'[e].parent # None
               PROVE  LET p == events'[e].parent
                      IN  /\ p \in Live'
                          /\ p < e
                          /\ TenantOf[events'[p].agent] =
                               TenantOf[events'[e].agent]
    BY DEF LineageSound
  <2>1. e \in Live \ S /\ events'[e] = events[e]
    BY <1>2
  <2>2. /\ events[e].parent \in Live /\ events[e].parent < e
        /\ TenantOf[events[events[e].parent].agent] = TenantOf[events[e].agent]
    BY <2>1 DEF LogInv, LineageSound
  <2>3. events[e].parent \in Live'
    BY <1>2, <2>1, <2>2 DEF Erase, Severable
  <2> QED
    BY <1>2, <2>1, <2>2, <2>3
<1>5. QED
  BY <1>1, <1>3, <1>4 DEF LogInv

\* Every step of the log keeps it sound.
LEMMA LogStep == LogInv /\ [LogNext]_logVars => LogInv'
<1> SUFFICES ASSUME LogInv, [LogNext]_logVars PROVE LogInv'
  OBVIOUS
<1>1. ASSUME NEW row \in Row, AppendRow(row) PROVE LogInv'
  BY <1>1, AppendKeepsLogInv
<1>2. CASE Burn
  <2>1. Live' = Live
    BY <1>2 DEF Burn, Live
  <2>2. QED
    BY <1>2, <2>1, EventLogAssumption
       DEF Burn, Draw, LogInv, LogTypeOK, NumbersDrawn, LineageSound, EventId, Live
<1>3. ASSUME NEW S \in SUBSET EventId, Erase(S) PROVE LogInv'
  BY <1>3, EraseKeepsLogInv
<1>4. CASE UNCHANGED logVars
  BY <1>4 DEF logVars, LogInv, LogTypeOK, NumbersDrawn, LineageSound, Live
<1>5. QED
  BY <1>1, <1>2, <1>3, <1>4 DEF LogNext

\* In every behaviour of the log, parent links lead to older rows of the same
\* tenant that are there.
THEOREM LogLineage == LogSpec => [](LogInv /\ LineageSound)
<1>1. LogInv => LineageSound
  BY DEF LogInv
<1>2. QED
  BY <1>1, LogInvInit, LogStep, PTL DEF LogSpec

\* A step of the log changes a row only by appending or erasing it.
LEMMA LogStepAppends ==
  ASSUME LogInv, [LogNext]_logVars, NEW e \in EventId, events'[e] # events[e]
  PROVE  \/ events'[e] = None
         \/ events[e] = None /\ e = nextSeq /\ nextSeq' = nextSeq + 1
<1>1. ASSUME NEW row \in Row, AppendRow(row)
      PROVE  events[e] = None /\ e = nextSeq /\ nextSeq' = nextSeq + 1
  BY <1>1, EventLogAssumption
     DEF AppendRow, Draw, LogInv, LogTypeOK, NumbersDrawn, Live, EventId
<1>2. CASE Burn
  BY <1>2 DEF Burn
<1>3. ASSUME NEW S \in SUBSET EventId, Erase(S) PROVE events'[e] = None
  BY <1>3 DEF Erase
<1>4. CASE UNCHANGED logVars
  BY <1>4 DEF logVars
<1>5. QED
  BY <1>1, <1>2, <1>3, <1>4 DEF LogNext

\* The log is append-only but for erasure, and reuses no number.
THEOREM LogAppendOnly == LogSpec => AppendOnly
<1>1. LogInv /\ [LogNext]_logVars =>
        [\A e \in EventId :
           events'[e] # events[e] =>
             \/ events'[e] = None
             \/ events[e] = None /\ e = nextSeq /\ nextSeq' = nextSeq + 1]_logVars
  BY LogStepAppends
<1>2. QED
  BY <1>1, LogLineage, PTL DEF LogSpec, AppendOnly

-----------------------------------------------------------------------------
(* Types of the dual write *)

\* The empty store is well-formed.
LEMMA StoreTypeInit == Init => TypeOK
  BY LogInvInit, EventLogAssumption, EventStoreAssumption
     DEF Init, TypeOK, LogInv, NoErasure, Indexers, EventId, WriterSteps,
         IndexSteps, EraserSteps

\* The statements of write_event keep the store well-formed.
LEMMA WriterTypes ==
  ASSUME TypeOK, WriterStep
  PROVE  TypeOK'
<1> USE EventLogAssumption, EventStoreAssumption, NoneIsNoRow, NoneIsNoItem,
        NoneIsNoRequest
    DEF TypeOK, LogTypeOK, Indexers, WriterSteps, IndexSteps
<1> PICK w \in Writers :
        \/ \E row \in Row, mode \in EmbedModes : BeginWrite(w, row, mode)
        \/ UpsertAgent(w) \/ InsertEvent(w) \/ InsertRejected(w)
        \/ EmbedSkipped(w) \/ ApiCrash(w)
  BY DEF WriterStep
<1>1. ASSUME NEW row \in Row, NEW mode \in EmbedModes, BeginWrite(w, row, mode)
      PROVE  TypeOK'
  BY <1>1 DEF BeginWrite, store, Request
<1>2. CASE UpsertAgent(w)
  BY <1>2 DEF UpsertAgent, Request, Row
<1>3. CASE InsertEvent(w)
  BY <1>3 DEF InsertEvent, Draw, Request, Row, Item, InitialStatus, EventId
<1>4. CASE InsertRejected(w)
  BY <1>4 DEF InsertRejected, Draw, EventId
<1>5. CASE EmbedSkipped(w)
  BY <1>5 DEF EmbedSkipped, Finish, store
<1>6. CASE ApiCrash(w)
  BY <1>6 DEF ApiCrash, Stop, GivenUp, store, Live
<1>7. QED
  BY <1>1, <1>2, <1>3, <1>4, <1>5, <1>6

\* Indexing a row keeps the store well-formed.
LEMMA IndexTypes ==
  ASSUME TypeOK, IndexStep
  PROVE  TypeOK'
<1> USE NoneIsNoItem DEF TypeOK, LogTypeOK, Indexers, WriterSteps, IndexSteps
<1> PICK p \in Indexers :
        \/ EmbedSucceeds(p) \/ SetIndexed(p) \/ UpsertVector(p)
        \/ EmbedFails(p) \/ UpsertFails(p) \/ SetFailed(p)
  BY DEF IndexStep
<1>1. CASE EmbedSucceeds(p) \/ EmbedFails(p) \/ UpsertFails(p)
  BY <1>1 DEF EmbedSucceeds, EmbedFails, UpsertFails, GoTo, store
<1>2. CASE SetIndexed(p)
  BY <1>2 DEF SetIndexed, SetStatus, GoTo
<1>3. CASE UpsertVector(p)
  BY <1>3 DEF UpsertVector, Finish, Item
<1>4. CASE SetFailed(p)
  BY <1>4 DEF SetFailed, SetStatus, Finish
<1>5. QED
  BY <1>1, <1>2, <1>3, <1>4

\* The worker's batch consists of rows that are there.
LEMMA BatchIsLive ==
  ASSUME TypeOK
  PROVE  \A i \in Batch : i \in Item /\ i.id \in Live
<1> TAKE i \in Batch
<1>1. PICK e \in Retryable : i = [id |-> e, agent |-> events[e].agent]
  BY DEF Batch
<1>2. e \in EventId /\ events[e] \in Row
  BY <1>1 DEF Retryable, Live, TypeOK, LogTypeOK
<1>3. QED
  BY <1>1, <1>2 DEF Item, Row, Retryable

\* The worker's loop keeps the store well-formed.
LEMMA WorkerTypes ==
  ASSUME TypeOK, WorkerFetch \/ WorkerNext \/ WorkerCrash
  PROVE  TypeOK'
<1> USE NoneIsNoItem DEF TypeOK, LogTypeOK, Indexers, WriterSteps, IndexSteps
<1>1. CASE WorkerFetch
  BY <1>1, BatchIsLive DEF WorkerFetch, store
<1>2. CASE WorkerNext
  BY <1>2 DEF WorkerNext, store
<1>3. CASE WorkerCrash
  BY <1>3 DEF WorkerCrash, Stop, GivenUp, store, Live
<1>4. QED
  BY <1>1, <1>2, <1>3

\* The two erasures keep the store well-formed.
LEMMA EraserTypes ==
  ASSUME TypeOK, EraserStep
  PROVE  TypeOK'
<1> USE EventLogAssumption
    DEF TypeOK, LogTypeOK, EraserSteps, SetErasure, store, procs
<1> PICK r \in Erasers :
        \/ \E tenant \in Tenants, subject \in Subjects,
              scope \in Agents \cup {None} :
                 ForgetSelect(r, tenant, subject, scope)
        \/ ForgetDelete(r) \/ ForgetRejected(r) \/ PurgeForgotten(r)
        \/ \E a \in Agents : DeleteAgentFind(r, a)
        \/ DeleteAgentCommit(r) \/ DeleteAgentRollback(r) \/ PurgeAgent(r)
        \/ PurgeFails(r) \/ EraserCrash(r)
  BY DEF EraserStep
<1>1. ASSUME NEW tenant \in Tenants, NEW subject \in Subjects,
             NEW scope \in Agents \cup {None},
             ForgetSelect(r, tenant, subject, scope)
      PROVE  TypeOK'
  BY <1>1 DEF ForgetSelect, Matching, Live
<1>2. CASE ForgetDelete(r)
  BY <1>2 DEF ForgetDelete, DeleteRows, Erase
<1>3. CASE ForgetRejected(r) \/ DeleteAgentRollback(r) \/ PurgeFails(r)
           \/ EraserCrash(r)
  BY <1>3 DEF ForgetRejected, DeleteAgentRollback, PurgeFails, EraserCrash
<1>4. CASE PurgeForgotten(r)
  BY <1>4 DEF PurgeForgotten
<1>5. ASSUME NEW a \in Agents, DeleteAgentFind(r, a)
      PROVE  TypeOK'
  BY <1>5 DEF DeleteAgentFind
<1>6. CASE DeleteAgentCommit(r)
  BY <1>6 DEF DeleteAgentCommit, DeleteRows, Erase
<1>7. CASE PurgeAgent(r)
  BY <1>7 DEF PurgeAgent, Live
<1>8. QED
  BY <1>1, <1>2, <1>3, <1>4, <1>5, <1>6, <1>7

\* Every step keeps the store well-formed.
LEMMA TypeStep == TypeOK /\ [Next]_vars => TypeOK'
<1> SUFFICES ASSUME TypeOK, [Next]_vars PROVE TypeOK'
  OBVIOUS
<1>1. CASE WriterStep
  BY <1>1, WriterTypes
<1>2. CASE IndexStep
  BY <1>2, IndexTypes
<1>3. CASE WorkerFetch \/ WorkerNext \/ WorkerCrash
  BY <1>3, WorkerTypes
<1>4. CASE EraserStep
  BY <1>4, EraserTypes
<1>5. ASSUME NEW a \in Agents, CreateAgent(a) PROVE TypeOK'
  BY <1>5 DEF CreateAgent, TypeOK, LogTypeOK, procs
<1>6. CASE ReindexEvents
  BY <1>6 DEF ReindexEvents, TypeOK, LogTypeOK, procs
<1>7. CASE UNCHANGED vars
  BY <1>7 DEF vars, TypeOK, LogTypeOK
<1>8. QED
  BY <1>1, <1>2, <1>3, <1>4, <1>5, <1>6, <1>7 DEF Next

\* Every reachable state of the dual write is well-formed, and a process has
\* a request, a row or an agent at hand exactly in the steps that use it.
THEOREM StoreTypeCorrect == Spec => []TypeOK
  BY StoreTypeInit, TypeStep, PTL DEF Spec

-----------------------------------------------------------------------------
(* The invariant of the dual write.  The log part of a step first: each step *)
(* appends the row of a request, spends a number, erases, or leaves it.      *)

LogEffect ==
    \/ \E w \in Writers : InsertEvent(w)
    \/ \E w \in Writers : InsertRejected(w)
    \/ \E r \in Erasers : ForgetDelete(r)
    \/ \E r \in Erasers : DeleteAgentCommit(r)
    \/ UNCHANGED <<events, nextSeq>>

\* Every step has one of the effects above on the log.
LEMMA StepHasLogEffect == [Next]_vars => LogEffect
<1> SUFFICES ASSUME [Next]_vars PROVE LogEffect
  OBVIOUS
<1> USE DEF LogEffect, store
<1>1. CASE WriterStep
  BY <1>1 DEF WriterStep, BeginWrite, UpsertAgent, EmbedSkipped, ApiCrash
<1>2. CASE IndexStep
  BY <1>2 DEF IndexStep, EmbedSucceeds, SetIndexed, UpsertVector, EmbedFails,
              UpsertFails, SetFailed, SetStatus
<1>3. CASE WorkerFetch \/ WorkerNext \/ WorkerCrash
  BY <1>3 DEF WorkerFetch, WorkerNext, WorkerCrash
<1>4. CASE EraserStep
  BY <1>4 DEF EraserStep, ForgetSelect, ForgetRejected, PurgeForgotten,
              DeleteAgentFind, DeleteAgentRollback, PurgeAgent, PurgeFails,
              EraserCrash
<1>5. CASE \/ \E a \in Agents : CreateAgent(a)
           \/ ReindexEvents
           \/ UNCHANGED vars
  BY <1>5 DEF CreateAgent, ReindexEvents, vars
<1>6. QED
  BY <1>1, <1>2, <1>3, <1>4, <1>5 DEF Next

\* An insert that passes the foreign keys is an append the log allows: the
\* tenant of the parent was checked two statements before.
LEMMA InsertAppends ==
  ASSUME TypeOK, RequestsChecked, NEW w \in Writers, InsertEvent(w)
  PROVE  request[w].row \in Row /\ AppendRow(request[w].row)
<1>1. request[w] \in Request /\ request[w] # None
  BY DEF InsertEvent, TypeOK, Indexers
<1>2. AllowedParent(request[w].row)
  BY <1>1, EventLogAssumption
     DEF InsertEvent, ForeignKeysHold, RequestsChecked, AllowedParent, Request,
         Row, Live
<1>3. QED
  BY <1>1, <1>2 DEF InsertEvent, AppendRow, Request

\* Every step of the store is a step of the log or leaves it alone.
LEMMA LogSimulation ==
  ASSUME TypeOK, RequestsChecked, [Next]_vars
  PROVE  [LogNext]_logVars
<1>1. ASSUME NEW w \in Writers, InsertEvent(w) PROVE LogNext
  BY <1>1, InsertAppends DEF LogNext
<1>2. ASSUME NEW w \in Writers, InsertRejected(w) PROVE LogNext
  BY <1>2 DEF InsertRejected, Burn, LogNext
<1>3. ASSUME NEW r \in Erasers, ForgetDelete(r) PROVE LogNext
  BY <1>3 DEF ForgetDelete, DeleteRows, LogNext, TypeOK
<1>4. ASSUME NEW r \in Erasers, DeleteAgentCommit(r) PROVE LogNext
  <2>1. EventsOf(erasure[r].agent) \in SUBSET EventId
    BY DEF EventsOf, Live
  <2>2. Erase(EventsOf(erasure[r].agent))
    BY <1>4 DEF DeleteAgentCommit, DeleteRows
  <2>3. QED
    BY <2>1, <2>2 DEF LogNext
<1>5. CASE UNCHANGED <<events, nextSeq>>
  BY <1>5 DEF logVars
<1>6. QED
  BY <1>1, <1>2, <1>3, <1>4, <1>5, StepHasLogEffect DEF LogEffect

\* A row with a number already drawn stays as it is until it is erased.
LEMMA OldRowsStay ==
  ASSUME LogInv, [LogNext]_logVars
  PROVE  /\ nextSeq' >= nextSeq
         /\ \A e \in EventId : e < nextSeq /\ e \in Live' =>
               e \in Live /\ events'[e] = events[e]
<1>1. nextSeq' >= nextSeq
  BY EventLogAssumption
     DEF LogInv, LogTypeOK, LogNext, logVars, AppendRow, Burn, Erase, Draw,
         EventId
<1>2. ASSUME NEW e \in EventId, e < nextSeq, e \in Live'
      PROVE  e \in Live /\ events'[e] = events[e]
  <2>1. events'[e] # None
    BY <1>2 DEF Live
  <2>2. nextSeq \in Nat
    BY EventLogAssumption DEF LogInv, LogTypeOK
  <2>3. events'[e] = events[e]
    BY <1>2, <2>1, <2>2, LogStepAppends DEF EventId
  <2>4. QED
    BY <2>1, <2>3 DEF Live
<1>3. QED
  BY <1>1, <1>2

\* A call in flight was in flight before the step, or begins with it.
LEMMA RequestEffect ==
  ASSUME TypeOK, [Next]_vars, NEW w \in Writers, request'[w] # None
  PROVE  \/ request'[w] = request[w]
         \/ \E row \in Row, mode \in EmbedModes : BeginWrite(w, row, mode)
<1>1. CASE WriterStep
  BY <1>1 DEF WriterStep, BeginWrite, UpsertAgent, InsertEvent, InsertRejected,
              EmbedSkipped, Finish, ApiCrash, TypeOK
<1>2. CASE IndexStep
  BY <1>2 DEF IndexStep, EmbedSucceeds, SetIndexed, UpsertVector, EmbedFails,
              UpsertFails, SetFailed, GoTo, Finish
<1>3. CASE WorkerFetch \/ WorkerNext \/ WorkerCrash
  BY <1>3 DEF WorkerFetch, WorkerNext, WorkerCrash
<1>4. CASE EraserStep
  BY <1>4 DEF EraserStep, ForgetSelect, ForgetDelete, ForgetRejected,
              PurgeForgotten, DeleteAgentFind, DeleteAgentCommit,
              DeleteAgentRollback, PurgeAgent, PurgeFails, EraserCrash, procs
<1>5. CASE \/ \E a \in Agents : CreateAgent(a)
           \/ ReindexEvents
           \/ UNCHANGED vars
  BY <1>5 DEF CreateAgent, ReindexEvents, vars, procs
<1>6. QED
  BY <1>1, <1>2, <1>3, <1>4, <1>5 DEF Next

\* What the parent check established outlives every step.
LEMMA RequestsStep ==
  ASSUME StoreInv, [Next]_vars
  PROVE  RequestsChecked'
<1> SUFFICES ASSUME NEW w \in Writers, request'[w] # None,
                    request'[w].row.parent # None
             PROVE  LET row == request'[w].row
                    IN  /\ row.parent < nextSeq'
                        /\ row.parent \in Live' =>
                             TenantOf[events'[row.parent].agent] =
                               TenantOf[row.agent]
  BY DEF RequestsChecked
<1> DEFINE row == request'[w].row
<1>1. row.parent \in EventId /\ nextSeq \in Nat /\ nextSeq' \in Nat
  <2>1. TypeOK'
    BY TypeStep DEF StoreInv
  <2>2. QED
    BY <2>1, EventLogAssumption
       DEF StoreInv, TypeOK, LogTypeOK, Request, Row
<1>2. /\ row.parent < nextSeq
      /\ row.parent \in Live =>
            TenantOf[events[row.parent].agent] = TenantOf[row.agent]
  <2>1. CASE request'[w] = request[w]
    BY <2>1 DEF StoreInv, RequestsChecked
  <2>2. ASSUME NEW r \in Row, NEW mode \in EmbedModes, BeginWrite(w, r, mode)
        PROVE  <1>2!1 /\ <1>2!2
    <3>1. row = r
      BY <2>2 DEF BeginWrite, StoreInv, TypeOK
    <3>2. QED
      BY <2>2, <3>1 DEF BeginWrite, AllowedParent, StoreInv, LogInv,
                        NumbersDrawn
  <2>3. QED
    BY <2>1, <2>2, RequestEffect DEF StoreInv
<1>3. QED
  BY <1>1, <1>2, OldRowsStay, LogSimulation, EventLogAssumption
     DEF StoreInv, EventId

\* A forget in flight was in flight before the step, or moves one statement on.
LEMMA ErasureEffect ==
  ASSUME TypeOK, [Next]_vars, NEW r \in Erasers,
         erasure'[r].step \in {"forget", "purge"}
  PROVE  \/ erasure'[r] = erasure[r]
         \/ \E tenant \in Tenants, subject \in Subjects,
               scope \in Agents \cup {None} :
                  ForgetSelect(r, tenant, subject, scope)
         \/ ForgetDelete(r)
<1>1. CASE EraserStep
  BY <1>1 DEF EraserStep, ForgetSelect, ForgetDelete, ForgetRejected,
              PurgeForgotten, DeleteAgentFind, DeleteAgentCommit,
              DeleteAgentRollback, PurgeAgent, PurgeFails, EraserCrash,
              SetErasure, TypeOK
<1>2. CASE WriterStep
  BY <1>2 DEF WriterStep, BeginWrite, UpsertAgent, InsertEvent, InsertRejected,
              EmbedSkipped, Finish, ApiCrash
<1>3. CASE IndexStep
  BY <1>3 DEF IndexStep, EmbedSucceeds, SetIndexed, UpsertVector, EmbedFails,
              UpsertFails, SetFailed, GoTo, Finish
<1>4. CASE \/ WorkerFetch \/ WorkerNext \/ WorkerCrash
           \/ \E a \in Agents : CreateAgent(a)
           \/ ReindexEvents
           \/ UNCHANGED vars
  BY <1>4 DEF WorkerFetch, WorkerNext, WorkerCrash, CreateAgent, ReindexEvents,
              vars
<1>5. QED
  BY <1>1, <1>2, <1>3, <1>4 DEF Next

\* What a forget has deleted stays deleted until it purges.
LEMMA ForgottenStep ==
  ASSUME StoreInv, [Next]_vars
  PROVE  ForgottenAreDead'
<1> SUFFICES ASSUME NEW r \in Erasers, erasure'[r].step \in {"forget", "purge"}
             PROVE  /\ \A e \in erasure'[r].ids : e < nextSeq'
                    /\ erasure'[r].step = "purge" =>
                          erasure'[r].ids \cap Live' = {}
  BY DEF ForgottenAreDead
<1> DEFINE Goal == /\ \A e \in erasure'[r].ids : e < nextSeq'
                   /\ erasure'[r].step = "purge" =>
                         erasure'[r].ids \cap Live' = {}
<1> USE DEF StoreInv
<1>1. [LogNext]_logVars
  BY LogSimulation
<1>2. /\ nextSeq \in Nat /\ nextSeq' \in Nat /\ nextSeq' >= nextSeq
      /\ \A e \in EventId : e < nextSeq /\ e \in Live' => e \in Live
  BY <1>1, TypeStep, OldRowsStay, EventLogAssumption DEF TypeOK, LogTypeOK
<1>3. CASE erasure'[r] = erasure[r]
  <2>1. erasure[r].ids \subseteq EventId
    BY DEF TypeOK
  <2>2. QED
    BY <1>2, <1>3, <2>1 DEF ForgottenAreDead, EventId
<1>4. ASSUME NEW tenant \in Tenants, NEW subject \in Subjects,
             NEW scope \in Agents \cup {None},
             ForgetSelect(r, tenant, subject, scope)
      PROVE  Goal
  <2>1. /\ erasure'[r].step = "forget"
        /\ erasure'[r].ids = Matching(tenant, subject, scope)
    BY <1>4 DEF ForgetSelect, SetErasure, TypeOK
  <2>2. \A e \in Matching(tenant, subject, scope) : e \in EventId /\ e < nextSeq
    BY DEF Matching, LogInv, NumbersDrawn, Live
  <2>3. QED
    BY <2>1, <2>2, <1>2 DEF EventId
<1>5. CASE ForgetDelete(r)
  <2>1. erasure'[r].ids = erasure[r].ids /\ erasure[r].step = "forget"
    BY <1>5 DEF ForgetDelete, SetErasure, TypeOK
  <2>2. \A e \in erasure[r].ids : e \in EventId /\ e < nextSeq
    BY <2>1 DEF TypeOK, ForgottenAreDead
  <2>3. erasure[r].ids \cap Live' = {}
    BY <1>5 DEF ForgetDelete, DeleteRows, Erase, Live
  <2>4. QED
    BY <2>1, <2>2, <2>3, <1>2 DEF EventId
<1>6. QED
  BY <1>3, <1>4, <1>5, ErasureEffect

-----------------------------------------------------------------------------
(* The two writes of the dual write *)

\* What IndexedAccounted says of one row.
Accounted(e) ==
    \/ vectors[e] # None
    \/ \E p \in Indexers : Settling(p, e)
    \/ e \in lost

\* write_event loses track of no indexed row.
LEMMA WriterAccounts ==
  ASSUME TypeOK, IndexedAccounted, WriterStep,
         NEW e \in Live', status'[e] = "indexed"
  PROVE  Accounted(e)'
<1> USE DEF Accounted, Settling, Indexers
<1> PICK w \in Writers :
        \/ \E row \in Row, mode \in EmbedModes : BeginWrite(w, row, mode)
        \/ UpsertAgent(w) \/ InsertEvent(w) \/ InsertRejected(w)
        \/ EmbedSkipped(w) \/ ApiCrash(w)
  BY DEF WriterStep
<1>1. e \in EventId /\ (e \in Live /\ status[e] = "indexed" => Accounted(e))
  BY DEF Live, IndexedAccounted
<1>2. ASSUME NEW row \in Row, NEW mode \in EmbedModes, BeginWrite(w, row, mode)
      PROVE  Accounted(e)'
  BY <1>1, <1>2 DEF BeginWrite, store, Live, TypeOK
<1>3. CASE UpsertAgent(w) \/ InsertRejected(w)
  BY <1>1, <1>3 DEF UpsertAgent, InsertRejected, Live, TypeOK
<1>4. CASE InsertEvent(w)
  <2>1. e # nextSeq
    BY <1>4 DEF InsertEvent, InitialStatus, TypeOK
  <2>2. e \in Live /\ status[e] = "indexed"
    BY <2>1, <1>1, <1>4 DEF InsertEvent, Live, TypeOK, LogTypeOK
  <2>3. ASSUME NEW p \in Indexers, Settling(p, e)
        PROVE  Settling(p, e)'
    BY <1>4, <2>3 DEF InsertEvent, TypeOK
  <2>4. QED
    BY <1>1, <1>4, <2>2, <2>3 DEF InsertEvent
<1>5. CASE EmbedSkipped(w)
  BY <1>1, <1>5 DEF EmbedSkipped, Finish, store, Live, TypeOK
<1>6. CASE ApiCrash(w)
  <2>1. /\ e \in Live /\ status[e] = "indexed"
        /\ lost' = lost \cup GivenUp(w) /\ vectors' = vectors
    BY <1>1, <1>6 DEF ApiCrash, Stop, store, Live
  <2>2. CASE Settling(w, e)
    BY <2>1, <2>2, NoneIsNoItem
       DEF GivenUp, TypeOK, IndexSteps
  <2>3. ASSUME NEW p \in Indexers, p # w, Settling(p, e)
        PROVE  Settling(p, e)'
    BY <1>6, <2>3 DEF ApiCrash, Stop, TypeOK
  <2>4. QED
    BY <1>1, <2>1, <2>2, <2>3
<1>7. QED
  BY <1>2, <1>3, <1>4, <1>5, <1>6

\* Neither does an indexer, whichever of its calls fails ...
LEMMA IndexerAccounts ==
  ASSUME TypeOK, IndexedAccounted, IndexStep,
         NEW e \in Live', status'[e] = "indexed"
  PROVE  Accounted(e)'
<1> USE DEF Accounted, Settling
<1> PICK p \in Indexers :
        \/ EmbedSucceeds(p) \/ SetIndexed(p) \/ UpsertVector(p)
        \/ EmbedFails(p) \/ UpsertFails(p) \/ SetFailed(p)
  BY DEF IndexStep
<1>1. e \in EventId /\ (e \in Live /\ status[e] = "indexed" => Accounted(e))
  BY DEF Live, IndexedAccounted
<1>2. CASE EmbedSucceeds(p) \/ EmbedFails(p)
  BY <1>1, <1>2 DEF EmbedSucceeds, EmbedFails, GoTo, store, Live, TypeOK
<1>3. CASE UpsertFails(p)
  BY <1>1, <1>3 DEF UpsertFails, GoTo, store, Live, TypeOK
<1>4. CASE SetIndexed(p)
  BY <1>1, <1>4 DEF SetIndexed, SetStatus, GoTo, Live, TypeOK
<1>5. CASE UpsertVector(p)
  <2>1. target[p] \in Item
    BY <1>5 DEF UpsertVector, TypeOK, IndexSteps
  <2>2. CASE target[p].id = e
    BY <1>5, <2>1, <2>2, EventLogAssumption DEF UpsertVector, Item, TypeOK
  <2>3. CASE target[p].id # e
    BY <1>1, <1>5, <2>3 DEF UpsertVector, Finish, Live, TypeOK
  <2>4. QED
    BY <2>2, <2>3
<1>6. CASE SetFailed(p)
  <2>1. e \in Live /\ status[e] = "indexed" /\ target[p].id # e
    BY <1>1, <1>6 DEF SetFailed, SetStatus, Live, TypeOK
  <2>2. QED
    BY <1>1, <1>6, <2>1 DEF SetFailed, SetStatus, Finish, TypeOK
<1>7. QED
  BY <1>2, <1>3, <1>4, <1>5, <1>6

\* ... nor the worker's loop, nor its crash ...
LEMMA WorkerAccounts ==
  ASSUME TypeOK, IndexedAccounted, WorkerFetch \/ WorkerNext \/ WorkerCrash,
         NEW e \in Live', status'[e] = "indexed"
  PROVE  Accounted(e)'
<1> USE DEF Accounted, Settling
<1>1. e \in EventId /\ e \in Live /\ status[e] = "indexed"
  BY DEF WorkerFetch, WorkerNext, WorkerCrash, store, Live
<1>2. Accounted(e)
  BY <1>1 DEF IndexedAccounted
<1>3. CASE WorkerFetch
  BY <1>2, <1>3 DEF WorkerFetch, store
<1>4. CASE WorkerNext
  BY <1>2, <1>4 DEF WorkerNext, store, TypeOK
<1>5. CASE WorkerCrash
  <2>1. lost' = lost \cup GivenUp(Worker) /\ vectors' = vectors
    BY <1>5 DEF WorkerCrash, Stop, store
  <2>2. CASE Settling(Worker, e)
    BY <1>1, <2>1, <2>2, NoneIsNoItem
       DEF GivenUp, TypeOK, IndexSteps, Indexers
  <2>3. ASSUME NEW p \in Indexers, p # Worker, Settling(p, e)
        PROVE  Settling(p, e)'
    BY <1>5, <2>3 DEF WorkerCrash, Stop, TypeOK
  <2>4. QED
    BY <1>2, <2>1, <2>2, <2>3
<1>6. QED
  BY <1>3, <1>4, <1>5

\* ... nor an erasure, whose purges hit rows that are gone or given up.
LEMMA EraserAccounts ==
  ASSUME StoreInv, EraserStep, NEW e \in Live', status'[e] = "indexed"
  PROVE  Accounted(e)'
<1> USE DEF Accounted, Settling, procs, store
<1> PICK r \in Erasers :
        \/ \E tenant \in Tenants, subject \in Subjects,
              scope \in Agents \cup {None} :
                 ForgetSelect(r, tenant, subject, scope)
        \/ ForgetDelete(r) \/ ForgetRejected(r) \/ PurgeForgotten(r)
        \/ \E a \in Agents : DeleteAgentFind(r, a)
        \/ DeleteAgentCommit(r) \/ DeleteAgentRollback(r) \/ PurgeAgent(r)
        \/ PurgeFails(r) \/ EraserCrash(r)
  BY DEF EraserStep
<1>1. e \in EventId /\ (e \in Live /\ status[e] = "indexed" => Accounted(e))
  BY DEF Live, IndexedAccounted, StoreInv
<1>2. CASE \/ \E tenant \in Tenants, subject \in Subjects,
                 scope \in Agents \cup {None} :
                    ForgetSelect(r, tenant, subject, scope)
           \/ ForgetRejected(r)
           \/ \E a \in Agents : DeleteAgentFind(r, a)
           \/ DeleteAgentRollback(r) \/ PurgeFails(r) \/ EraserCrash(r)
  BY <1>1, <1>2 DEF ForgetSelect, ForgetRejected, DeleteAgentFind,
                    DeleteAgentRollback, PurgeFails, EraserCrash, Live
<1>3. CASE ForgetDelete(r)
  BY <1>1, <1>3 DEF ForgetDelete, DeleteRows, Erase, Live
<1>4. CASE DeleteAgentCommit(r)
  BY <1>1, <1>4 DEF DeleteAgentCommit, DeleteRows, Erase, Live
<1>5. CASE PurgeForgotten(r)
  <2>1. e \in Live /\ status[e] = "indexed"
    BY <1>1, <1>5 DEF PurgeForgotten, Live
  <2>2. e \notin erasure[r].ids
    BY <1>5, <2>1 DEF PurgeForgotten, StoreInv, ForgottenAreDead
  <2>3. QED
    BY <1>1, <1>5, <2>1, <2>2 DEF PurgeForgotten
<1>6. CASE PurgeAgent(r)
  BY <1>1, <1>6 DEF PurgeAgent, Live
<1>7. QED
  BY <1>2, <1>3, <1>4, <1>5, <1>6

\* Every step accounts for every indexed row.
LEMMA IndexedStep ==
  ASSUME StoreInv, [Next]_vars
  PROVE  IndexedAccounted'
<1> SUFFICES ASSUME NEW e \in Live', status'[e] = "indexed"
             PROVE  Accounted(e)'
  BY DEF IndexedAccounted, Accounted
<1> USE DEF StoreInv
<1>1. CASE WriterStep
  BY <1>1, WriterAccounts
<1>2. CASE IndexStep
  BY <1>2, IndexerAccounts
<1>3. CASE WorkerFetch \/ WorkerNext \/ WorkerCrash
  BY <1>3, WorkerAccounts
<1>4. CASE EraserStep
  BY <1>4, EraserAccounts
<1>5. CASE \/ \E a \in Agents : CreateAgent(a)
           \/ ReindexEvents
           \/ UNCHANGED vars
  BY <1>5 DEF CreateAgent, ReindexEvents, vars, procs, IndexedAccounted,
              Accounted, Settling, Live
<1>6. QED
  BY <1>1, <1>2, <1>3, <1>4, <1>5 DEF Next

\* The empty store satisfies the invariant.
LEMMA StoreInvInit == Init => StoreInv
<1> SUFFICES ASSUME Init PROVE StoreInv
  OBVIOUS
<1>1. TypeOK /\ LogInv
  BY StoreTypeInit, LogInvInit DEF Init
<1>2. RequestsChecked /\ ForgottenAreDead
  BY DEF Init, RequestsChecked, ForgottenAreDead, NoErasure
<1>3. IndexedAccounted
  BY DEF Init, LogInit, IndexedAccounted, Live
<1>4. QED
  BY <1>1, <1>2, <1>3 DEF StoreInv

\* Every step keeps the invariant.
LEMMA StoreInvStep == StoreInv /\ [Next]_vars => StoreInv'
<1> SUFFICES ASSUME StoreInv, [Next]_vars PROVE StoreInv'
  OBVIOUS
<1>1. TypeOK'
  BY TypeStep DEF StoreInv
<1>2. LogInv'
  BY LogSimulation, LogStep DEF StoreInv
<1>3. QED
  BY <1>1, <1>2, RequestsStep, ForgottenStep, IndexedStep DEF StoreInv

\* The invariant behind the theorems that follow: types, the log's own
\* invariant, what in-flight calls may still assume, and the dual write.
THEOREM StoreInvariant == Spec => []StoreInv
  BY StoreInvInit, StoreInvStep, PTL DEF Spec

\* Whatever fails and in whatever order the processes take their steps, a row
\* marked indexed has its vector unless it is being settled or was given up
\* in one of the two known ways.
THEOREM IndexedRowsAccounted == Spec => []IndexedAccounted
<1>1. StoreInv => IndexedAccounted
  BY DEF StoreInv
<1>2. QED
  BY <1>1, StoreInvariant, PTL

\* Parent links never dangle, never point forward and never leave the tenant,
\* though the check and the insert are separate statements.
THEOREM StoreLineage == Spec => []LineageSound
<1>1. StoreInv => LineageSound
  BY DEF StoreInv, LogInv
<1>2. QED
  BY <1>1, StoreInvariant, PTL

\* The dual write implements the append-only log.
THEOREM StoreImplementsLog == Spec => LogSpec
<1>1. Init => LogInit
  BY DEF Init
<1>2. StoreInv /\ [Next]_vars => [LogNext]_logVars
  BY LogSimulation DEF StoreInv
<1>3. QED
  BY <1>1, <1>2, StoreInvariant, PTL DEF Spec, LogSpec

\* What was proved of the log therefore holds of the dual write.
THEOREM StoreAppendOnly == Spec => AppendOnly
  BY StoreImplementsLog, LogAppendOnly, PTL

-----------------------------------------------------------------------------
(* Walks along parent_event_id: the recursive query of why, the chains of  *)
(* the dashboard and of the SDKs.                                          *)

\* From an event to its parent, as far as the walk goes.
ParentWalk(walk) ==
    /\ walk \in Seq(Live)
    /\ \A i \in 1 .. Len(walk) - 1 : events[walk[i]].parent = walk[i + 1]

\* A walk has at most as many events as the number of its first, meets none twice,
\* and stays within one tenant.
WalksAreShort ==
    \A walk : ParentWalk(walk) /\ walk # <<>> =>
       /\ Len(walk) <= walk[1]
       /\ \A i, j \in 1 .. Len(walk) : i < j => walk[j] < walk[i]
       /\ \A i \in 1 .. Len(walk) :
             TenantOf[events[walk[i]].agent] = TenantOf[events[walk[1]].agent]

LEMMA LeastNatural ==
  ASSUME NEW T \in SUBSET Nat, T # {}
  PROVE  \E n \in T : \A m \in T : n <= m
<1>1. IsWellFoundedOn(OpToRel(<, Nat), Nat)
  BY NatLessThanWellFounded
<1>2. PICK n \in T : \A m \in T : <<m, n>> \notin OpToRel(<, Nat)
  BY <1>1, WFMin
<1>3. \A m \in T : ~(m < n)
  BY <1>2 DEF OpToRel
<1>4. QED
  BY <1>3

\* What holds of the first, and of the next when it holds of one, holds of all.
LEMMA AllAlong ==
  ASSUME NEW n \in Nat, NEW Good \in SUBSET (1 .. n), n > 0 => 1 \in Good,
         \A i \in 1 .. n - 1 : i \in Good => i + 1 \in Good
  PROVE  \A i \in 1 .. n : i \in Good
<1> SUFFICES ASSUME NEW k \in 1 .. n, k \notin Good PROVE FALSE
  OBVIOUS
<1> DEFINE Bad == {i \in 1 .. n : i \notin Good}
<1>1. Bad \in SUBSET Nat /\ Bad # {}
  OBVIOUS
<1>2. PICK i \in Bad : \A j \in Bad : i <= j
  BY <1>1, LeastNatural
<1>3. i \in 1 .. n /\ i # 1
  BY <1>2
<1>4. i - 1 \in 1 .. n - 1 /\ i - 1 \in 1 .. n /\ ~(i <= i - 1)
  BY <1>3
<1>5. i - 1 \in Good
  BY <1>2, <1>4
<1>6. (i - 1) + 1 \in Good
  BY <1>4, <1>5
<1> QED
  BY <1>2, <1>3, <1>6

\* One link of a walk goes back in the log, within the tenant.
LEMMA WalkLinks ==
  ASSUME LogInv, NEW walk, ParentWalk(walk)
  PROVE  /\ Len(walk) \in Nat
         /\ \A i \in 1 .. Len(walk) : walk[i] \in Live /\ walk[i] \in Nat \ {0}
         /\ \A i \in 1 .. Len(walk) - 1 :
               /\ walk[i + 1] < walk[i]
               /\ TenantOf[events[walk[i + 1]].agent] = TenantOf[events[walk[i]].agent]
<1>1. Len(walk) \in Nat /\ \A i \in 1 .. Len(walk) : walk[i] \in Live
  BY DEF ParentWalk
<1>2. \A e \in Live : e \in Nat \ {0} /\ e # None
  BY EventLogAssumption DEF Live, EventId
<1>3. ASSUME NEW i \in 1 .. Len(walk) - 1
      PROVE  /\ walk[i + 1] < walk[i]
             /\ TenantOf[events[walk[i + 1]].agent] = TenantOf[events[walk[i]].agent]
  <2>1. i \in 1 .. Len(walk) /\ i + 1 \in 1 .. Len(walk) /\ events[walk[i]].parent = walk[i + 1]
    BY <1>1 DEF ParentWalk
  <2>2. walk[i] \in Live /\ events[walk[i]].parent # None
    BY <1>1, <1>2, <2>1
  <2> QED
    BY <2>1, <2>2 DEF LogInv, LineageSound
<1> QED
  BY <1>1, <1>2, <1>3

LEMMA WalkGoesBack ==
  ASSUME LogInv, NEW walk, ParentWalk(walk), walk # <<>>
  PROVE  /\ Len(walk) <= walk[1]
         /\ \A i, j \in 1 .. Len(walk) : i < j => walk[j] < walk[i]
         /\ \A i \in 1 .. Len(walk) :
               TenantOf[events[walk[i]].agent] = TenantOf[events[walk[1]].agent]
<1> DEFINE n == Len(walk)
<1>1. /\ n \in Nat
      /\ \A i \in 1 .. n : walk[i] \in Nat \ {0}
      /\ \A i \in 1 .. n - 1 :
            /\ walk[i + 1] < walk[i]
            /\ TenantOf[events[walk[i + 1]].agent] = TenantOf[events[walk[i]].agent]
  BY WalkLinks
<1>2. n > 0
  BY EmptySeq, <1>1 DEF ParentWalk
<1> HIDE DEF n
<1> DEFINE Same == {i \in 1 .. n : TenantOf[events[walk[i]].agent] = TenantOf[events[walk[1]].agent]}
<1>3. \A i \in 1 .. n : i \in Same
  <2>1. n > 0 => 1 \in Same
    BY <1>1
  <2>2. \A i \in 1 .. n - 1 : i \in Same => i + 1 \in Same
    BY <1>1
  <2>3. Same \in SUBSET (1 .. n)
    OBVIOUS
  <2> HIDE DEF Same
  <2> QED
    BY <1>1, <2>1, <2>2, <2>3, AllAlong
<1> DEFINE Low == {i \in 1 .. n : walk[i] + i <= walk[1] + 1}
<1>4. \A i \in 1 .. n : i \in Low
  <2>1. n > 0 => 1 \in Low
    BY <1>1
  <2>2. \A i \in 1 .. n - 1 : i \in Low => i + 1 \in Low
    <3> SUFFICES ASSUME NEW i \in 1 .. n - 1, i \in Low PROVE i + 1 \in Low
      OBVIOUS
    <3>1. i \in 1 .. n /\ i + 1 \in 1 .. n /\ 1 \in 1 .. n
      BY <1>1
    <3>2. walk[i] \in Nat /\ walk[i + 1] \in Nat /\ walk[i + 1] < walk[i] /\ walk[1] \in Nat
      BY <1>1, <3>1
    <3>3. walk[i] + i <= walk[1] + 1
      OBVIOUS
    <3> QED
      BY <3>1, <3>2, <3>3
  <2>3. Low \in SUBSET (1 .. n)
    OBVIOUS
  <2> HIDE DEF Low
  <2> QED
    BY <1>1, <2>1, <2>2, <2>3, AllAlong
<1>5. n <= walk[1]
  <2>1. n \in Low /\ n \in 1 .. n /\ 1 \in 1 .. n
    BY <1>1, <1>2, <1>4
  <2>2. walk[n] \in Nat \ {0} /\ walk[1] \in Nat
    BY <1>1, <2>1
  <2>3. walk[n] + n <= walk[1] + 1
    BY <2>1
  <2> QED
    BY <1>1, <2>2, <2>3
<1>6. ASSUME NEW i \in 1 .. n PROVE \A j \in 1 .. n : i < j => walk[j] < walk[i]
  <2> DEFINE Back == {j \in 1 .. n : i < j => walk[j] < walk[i]}
  <2>1. n > 0 => 1 \in Back
    BY <1>1
  <2>2. \A j \in 1 .. n - 1 : j \in Back => j + 1 \in Back
    <3> SUFFICES ASSUME NEW j \in 1 .. n - 1, j \in Back, i < j + 1 PROVE walk[j + 1] < walk[i]
      BY <1>1
    <3>1. j \in 1 .. n /\ j + 1 \in 1 .. n
      BY <1>1
    <3>2. walk[i] \in Nat /\ walk[j] \in Nat /\ walk[j + 1] \in Nat /\ walk[j + 1] < walk[j]
      BY <1>1, <3>1
    <3>3. i = j \/ i < j
      BY <1>1
    <3> QED
      BY <3>1, <3>2, <3>3
  <2>3. Back \in SUBSET (1 .. n)
    OBVIOUS
  <2> HIDE DEF Back
  <2>4. \A j \in 1 .. n : j \in Back
    BY <1>1, <2>1, <2>2, <2>3, AllAlong
  <2> QED
    BY <2>4 DEF Back
<1> QED
  BY <1>3, <1>5, <1>6 DEF n

\* The walk of why ends, meets no event twice and never leaves the tenant
\* (core/api/events.py:141-165: the recursive query has no other guard against
\* a cycle than its bound on the depth).
THEOREM WalksEnd == Spec => []WalksAreShort
<1>1. StoreInv => WalksAreShort
  BY WalkGoesBack DEF StoreInv, WalksAreShort
<1> QED
  BY <1>1, StoreInvariant, PTL

\* As long as an event is there, so is every event it is walked to, by the same links.
ChainStays ==
    \A walk : ParentWalk(walk) /\ walk # <<>> /\ walk[1] \in Live' => ParentWalk(walk)'

LEMMA LogKeepsChains ==
  ASSUME LogInv, LogInv', [LogNext]_logVars
  PROVE  ChainStays
<1> SUFFICES ASSUME NEW walk, ParentWalk(walk), walk # <<>>, walk[1] \in Live'
             PROVE  ParentWalk(walk)'
  BY DEF ChainStays
<1> DEFINE n == Len(walk)
<1>1. n \in Nat /\ \A i \in 1 .. n : walk[i] \in Live
  BY WalkLinks
<1>2. \A e \in Live : e \in Live' => events'[e] = events[e]
  <2>1. \A e \in EventId : events'[e] # events[e] => events'[e] = None \/ events[e] = None
    BY LogStepAppends
  <2> QED
    BY <2>1 DEF Live
<1>3. \A e \in Live : e \in EventId /\ e # None
  BY EventLogAssumption DEF Live
<1> DEFINE There == {i \in 1 .. n : walk[i] \in Live'}
<1>4. \A i \in 1 .. n - 1 : i \in There => i + 1 \in There
  <2> SUFFICES ASSUME NEW i \in 1 .. n - 1, i \in There PROVE i + 1 \in There
    OBVIOUS
  <2>1. i \in 1 .. n /\ i + 1 \in 1 .. n /\ events[walk[i]].parent = walk[i + 1]
    BY <1>1 DEF ParentWalk
  <2>2. walk[i] \in Live /\ walk[i + 1] \in Live /\ walk[i] \in Live'
    BY <1>1, <2>1
  <2>3. events'[walk[i]].parent = walk[i + 1] /\ walk[i + 1] # None
    BY <1>2, <1>3, <2>1, <2>2
  <2>4. walk[i + 1] \in Live'
    BY <2>2, <2>3 DEF LogInv, LineageSound
  <2> QED
    BY <2>1, <2>4
<1>5. \A i \in 1 .. n : i \in There
  <2>1. n > 0 => 1 \in There
    BY <1>1
  <2>2. There \in SUBSET (1 .. n)
    OBVIOUS
  <2> HIDE DEF There
  <2> QED
    BY <1>1, <1>4, <2>1, <2>2, AllAlong
<1>6. \A i \in 1 .. n : walk[i] \in Live' /\ events'[walk[i]] = events[walk[i]]
  BY <1>1, <1>2, <1>5
<1>7. walk \in Seq(Live')
  <2>1. walk = [i \in 1 .. n |-> walk[i]]
    BY DEF ParentWalk
  <2> QED
    BY <1>1, <1>6, <2>1
<1>8. \A i \in 1 .. n - 1 : events'[walk[i]].parent = walk[i + 1]
  <2> TAKE i \in 1 .. n - 1
  <2>1. i \in 1 .. n /\ events[walk[i]].parent = walk[i + 1]
    BY <1>1 DEF ParentWalk
  <2> QED
    BY <1>6, <2>1
<1> QED
  BY <1>7, <1>8 DEF ParentWalk

\* What why answers for an event never changes while the event is there: no write,
\* no fault and no erasure takes a row out of the middle of its chain or links it anew
\* (core/api/events.py:141-165 beside the foreign key of core/db/schema.sql:99).
THEOREM ChainsStay == Spec => [][ChainStays]_vars
<1>1. StoreInv /\ StoreInv' /\ [Next]_vars => ChainStays
  <2> SUFFICES ASSUME StoreInv, StoreInv', [Next]_vars PROVE ChainStays
    OBVIOUS
  <2>1. LogInv /\ LogInv' /\ [LogNext]_logVars
    BY LogSimulation DEF StoreInv
  <2> QED
    BY <2>1, LogKeepsChains
<1> QED
  BY <1>1, StoreInvariant, PTL DEF Spec

-----------------------------------------------------------------------------
(* Erasure is final *)

\* Nothing reads an erased row back from Postgres.
LEMMA StaysUnheld ==
  ASSUME StoreInv, [Next]_vars, NEW e \in EventId, Gone(e)
  PROVE  Unheld(e)'
<1> USE DEF Gone, Unheld
<1>1. CASE WriterStep
  BY <1>1, EventLogAssumption, SMTT(30)
     DEF WriterStep, BeginWrite, UpsertAgent, InsertEvent, InsertRejected,
         EmbedSkipped, Finish, ApiCrash, Stop, StoreInv, TypeOK, LogTypeOK,
         EventId
<1>2. CASE IndexStep
  BY <1>2 DEF IndexStep, EmbedSucceeds, SetIndexed, UpsertVector, EmbedFails,
              UpsertFails, SetFailed, GoTo, Finish, StoreInv, TypeOK
<1>3. CASE WorkerFetch
  BY <1>3, BatchIsLive DEF WorkerFetch, StoreInv
<1>4. CASE WorkerNext \/ WorkerCrash
  BY <1>4 DEF WorkerNext, WorkerCrash, Stop, StoreInv, TypeOK
<1>5. CASE EraserStep
  BY <1>5 DEF EraserStep, ForgetSelect, ForgetDelete, ForgetRejected,
              PurgeForgotten, DeleteAgentFind, DeleteAgentCommit,
              DeleteAgentRollback, PurgeAgent, PurgeFails, EraserCrash, procs
<1>6. CASE \/ \E a \in Agents : CreateAgent(a)
           \/ ReindexEvents
           \/ UNCHANGED vars
  BY <1>6 DEF CreateAgent, ReindexEvents, vars, procs
<1>7. QED
  BY <1>1, <1>2, <1>3, <1>4, <1>5, <1>6 DEF Next

\* Only an indexer that holds the row creates its point.
LEMMA StaysWithoutVector ==
  ASSUME StoreInv, [Next]_vars, NEW e \in EventId, Gone(e)
  PROVE  vectors'[e] = None
<1> USE DEF Gone, store
<1>1. CASE WriterStep
  BY <1>1 DEF WriterStep, BeginWrite, UpsertAgent, InsertEvent, InsertRejected,
              EmbedSkipped, ApiCrash
<1>2. CASE IndexStep
  <2>1. ASSUME NEW p \in Indexers, UpsertVector(p)
        PROVE  vectors'[e] = None
    <3>1. target[p] # None
      BY <2>1 DEF UpsertVector, StoreInv, TypeOK, IndexSteps
    <3>2. target[p].id # e
      BY <3>1 DEF Unheld, Indexers
    <3>3. QED
      BY <2>1, <3>2 DEF UpsertVector, StoreInv, TypeOK
  <2>2. QED
    BY <1>2, <2>1 DEF IndexStep, EmbedSucceeds, SetIndexed, EmbedFails,
                      UpsertFails, SetFailed, SetStatus
<1>3. CASE WorkerFetch \/ WorkerNext \/ WorkerCrash
  BY <1>3 DEF WorkerFetch, WorkerNext, WorkerCrash
<1>4. CASE EraserStep
  BY <1>4 DEF EraserStep, ForgetSelect, ForgetDelete, ForgetRejected,
              PurgeForgotten, DeleteAgentFind, DeleteAgentCommit, DeleteRows,
              DeleteAgentRollback, PurgeAgent, PurgeFails, EraserCrash
<1>5. CASE \/ \E a \in Agents : CreateAgent(a)
           \/ ReindexEvents
           \/ UNCHANGED vars
  BY <1>5 DEF CreateAgent, ReindexEvents, vars
<1>6. QED
  BY <1>1, <1>2, <1>3, <1>4, <1>5 DEF Next

\* A row that is gone stays gone.
LEMMA GoneStep ==
  ASSUME StoreInv, [Next]_vars, NEW e \in EventId, Gone(e)
  PROVE  Gone(e)'
<1>1. e < nextSeq' /\ e \notin Live'
  <2>1. nextSeq \in Nat /\ nextSeq' \in Nat
    BY TypeStep, EventLogAssumption DEF StoreInv, TypeOK, LogTypeOK
  <2>2. QED
    BY <2>1, LogSimulation, OldRowsStay DEF StoreInv, Gone, EventId
<1>2. QED
  BY <1>1, StaysUnheld, StaysWithoutVector DEF Gone

\* A row that is erased from both stores while no indexer holds it never
\* comes back to either.
THEOREM ErasureFinal == Spec => ErasureIsFinal
<1>1. StoreInv /\ [Next]_vars =>
        [\A e \in EventId : Gone(e) => Gone(e)']_vars
  BY GoneStep
<1>2. QED
  BY <1>1, StoreInvariant, PTL DEF Spec, ErasureIsFinal
=============================================================================
