------------------------------ MODULE EventStore ------------------------------
(***************************************************************************)
(* The dual write of ZizkaDB: events go to Postgres (tables agents and     *)
(* events) and, once embedded, to the Qdrant collection agent_events.      *)
(*                                                                         *)
(*   Writers   one write_event call at a time each    event_write.py       *)
(*   Worker    the embed worker                       embed_worker.py      *)
(*   Erasers   one DELETE /v1/memory/forget or        memory.py, agents.py *)
(*             DELETE /v1/agents/{id} at a time each                       *)
(*                                                                         *)
(* Every SQL statement and every Qdrant call is one atomic step; between   *)
(* two of them anything may happen.  Postgres enforces the foreign keys    *)
(* of schema.sql, Qdrant none.  An event is named by its sequence_no: the  *)
(* INSERT that draws its UUID draws the number too, and its timestamp is   *)
(* taken to follow the number.                                             *)
(***************************************************************************)
EXTENDS EventLog, FiniteSets

CONSTANTS
    Writers, Erasers, Worker,   \* the processes
    BatchLimit,   \* LIMIT of the worker's SELECT (50 in the code)
    EmbedModes,   \* how the deployments in use embed: "off", "worker", "sync"
    Keyless,      \* tenants for which generate_embedding returns None
    Faults        \* what may go wrong in a run, a subset of FaultKinds

FaultKinds == {"embed", "upsert", "purge", "worker_crash", "api_crash"}

ASSUME EventStoreAssumption ==
    /\ Worker \notin Writers
    /\ BatchLimit \in Nat \ {0}
    /\ EmbedModes \subseteq {"off", "worker", "sync"}
    /\ Keyless \subseteq Tenants
    /\ Faults \subseteq FaultKinds

Indexers == Writers \cup {Worker}

\* What an indexer keeps of a row it read: the point it will upsert.
Item == [id: EventId, agent: Agents]

ASSUME NoneIsNoItem == None \notin Item

Request == [row: Row, mode: EmbedModes]

ASSUME NoneIsNoRequest == None \notin Request

VARIABLES
    agents,       \* the rows of agents
    status,       \* events.index_status, "none" where there is no row
    vectors,      \* vectors[e]: payload agent of point e in Qdrant, or None
    pc,           \* where each indexer stands
    request,      \* the call each writer is serving, or None
    target,       \* the item an indexer is indexing, or None
    todo,         \* the rest of the worker's batch
    erasure,      \* the call each eraser is serving
    lost          \* history: rows whose vector was given up (see below)

vars == <<events, nextSeq, agents, status, vectors, pc, request, target,
          todo, erasure, lost>>
store == <<events, nextSeq, agents, status, vectors>>
procs == <<pc, request, target, todo>>

NoErasure == [step |-> "idle", agent |-> None, ids |-> {}]

Init ==
    /\ LogInit
    /\ agents = {}
    /\ status = [e \in EventId |-> "none"]
    /\ vectors = [e \in EventId |-> None]
    /\ pc = [p \in Indexers |-> "idle"]
    /\ request = [w \in Writers |-> None]
    /\ target = [p \in Indexers |-> None]
    /\ todo = {}
    /\ erasure = [r \in Erasers |-> NoErasure]
    /\ lost = {}

-----------------------------------------------------------------------------
(* write_event *)

\* The parent check, then the call goes on; a 400 changes nothing.  The
\* caller may name any event it has heard of as the parent.
BeginWrite(w, row, mode) ==
    /\ pc[w] = "idle"
    /\ nextSeq \in EventId
    /\ AllowedParent(row)
    /\ pc' = [pc EXCEPT ![w] = "upsert"]
    /\ request' = [request EXCEPT ![w] = [row |-> row, mode |-> mode]]
    /\ UNCHANGED <<store, target, todo, erasure, lost>>

UpsertAgent(w) ==
    /\ pc[w] = "upsert"
    /\ agents' = agents \cup {request[w].row.agent}
    /\ pc' = [pc EXCEPT ![w] = "insert"]
    /\ UNCHANGED <<events, nextSeq, status, vectors, request, target, todo,
                   erasure, lost>>

\* Mutation of ForeignKeysHold: parent_event_id without REFERENCES.
AgentKeyHolds(row) == row.agent \in agents

\* The foreign keys of events: its agent's row, and its parent if it has one.
ForeignKeysHold(row) ==
    /\ row.agent \in agents
    /\ row.parent \in Live \cup {None}

InitialStatus(mode) == IF mode = "off" THEN "skipped" ELSE "pending"

\* Without EMBED_SYNC the call is over, but for the usage meter.
InsertEvent(w) ==
    LET row == request[w].row
        sync == request[w].mode = "sync"
    IN  /\ pc[w] = "insert"
        /\ nextSeq \in EventId
        /\ ForeignKeysHold(row)
        /\ events' = [events EXCEPT ![nextSeq] = row]
        /\ status' = [status EXCEPT ![nextSeq] =
                                        InitialStatus(request[w].mode)]
        /\ Draw
        /\ pc' = [pc EXCEPT ![w] = IF sync THEN "embed" ELSE "idle"]
        /\ target' = [target EXCEPT ![w] =
                          IF sync THEN [id |-> nextSeq, agent |-> row.agent]
                                  ELSE None]
        /\ request' = [request EXCEPT ![w] = None]
        /\ UNCHANGED <<agents, vectors, todo, erasure, lost>>

\* The parent or the agent went away since the earlier statements: 500, and
\* the sequence number is spent.
InsertRejected(w) ==
    /\ pc[w] = "insert"
    /\ nextSeq \in EventId
    /\ ~ ForeignKeysHold(request[w].row)
    /\ UNCHANGED <<events, agents, status, vectors, target, todo, erasure,
                   lost>>
    /\ Draw
    /\ pc' = [pc EXCEPT ![w] = "idle"]
    /\ request' = [request EXCEPT ![w] = None]

-----------------------------------------------------------------------------
(* The embed worker's loop around the indexing of one row *)

\* Mutation of Retryable: failed rows are not fetched again.
PendingOnly == {e \in Live : status[e] = "pending"}

Retryable == {e \in Live : status[e] \in {"pending", "failed"}}

\* ORDER BY timestamp ASC LIMIT BatchLimit
Batch ==
    LET head == {e \in Retryable :
                    Cardinality({d \in Retryable : d < e}) < BatchLimit}
    IN  {[id |-> e, agent |-> events[e].agent] : e \in head}

WorkerFetch ==
    /\ pc[Worker] = "idle"
    /\ todo = {}
    /\ Retryable # {}
    /\ todo' = Batch
    /\ UNCHANGED <<store, pc, request, target, erasure, lost>>

WorkerNext ==
    /\ pc[Worker] = "idle"
    /\ \E i \in todo :
        /\ \A j \in todo : i.id <= j.id
        /\ target' = [target EXCEPT ![Worker] = i]
        /\ todo' = todo \ {i}
    /\ pc' = [pc EXCEPT ![Worker] = "embed"]
    /\ UNCHANGED <<store, request, erasure, lost>>

-----------------------------------------------------------------------------
(* Indexing one row: the same statements in write_event (EMBED_SYNC) and in *)
(* process_pending_batch, each working from its own copy of the row         *)

GoTo(p, step) ==
    /\ pc' = [pc EXCEPT ![p] = step]
    /\ UNCHANGED <<request, target, todo, erasure, lost>>

\* Mutation of Finish: the row stays the current one.
FinishKeepingTarget(p) ==
    /\ pc' = [pc EXCEPT ![p] = "idle"]
    /\ UNCHANGED <<request, target, todo, erasure, lost>>

\* p is done with its row.
Finish(p) ==
    /\ pc' = [pc EXCEPT ![p] = "idle"]
    /\ target' = [target EXCEPT ![p] = None]
    /\ UNCHANGED <<request, todo, erasure, lost>>

EmbeddingAvailable(p) == TenantOf[target[p].agent] \notin Keyless

EmbedSucceeds(p) ==
    /\ pc[p] = "embed"
    /\ EmbeddingAvailable(p)
    /\ GoTo(p, "embedded")
    /\ UNCHANGED store

\* An UPDATE ... WHERE event_id = e: nothing happens if the row is gone.
SetStatus(e, s) ==
    /\ status' = IF e \in Live THEN [status EXCEPT ![e] = s] ELSE status
    /\ UNCHANGED <<events, nextSeq, agents, vectors>>

SetIndexed(p) ==
    /\ pc[p] = "embedded"
    /\ SetStatus(target[p].id, "indexed")
    /\ GoTo(p, "marked")

UpsertVector(p) ==
    /\ pc[p] = "marked"
    /\ vectors' = [vectors EXCEPT ![target[p].id] = target[p].agent]
    /\ Finish(p)
    /\ UNCHANGED <<events, nextSeq, agents, status>>

\* generate_embedding returns None: write_event leaves the row pending ...
EmbedSkipped(w) ==
    /\ pc[w] = "embed"
    /\ EmbeddingAvailable(w) => "embed" \in Faults
    /\ Finish(w)
    /\ UNCHANGED store

\* ... while the worker raises; in both an exception ends in "failing".
EmbedFails(p) ==
    /\ pc[p] = "embed"
    /\ \/ "embed" \in Faults
       \/ p = Worker /\ ~ EmbeddingAvailable(p)
    /\ GoTo(p, "failing")
    /\ UNCHANGED store

\* Mutation of UpsertFails: the failure is logged and not recorded.
UpsertFailureSwallowed(p) ==
    /\ "upsert" \in Faults
    /\ pc[p] = "marked"
    /\ Finish(p)
    /\ UNCHANGED store

UpsertFails(p) ==
    /\ "upsert" \in Faults
    /\ pc[p] = "marked"
    /\ GoTo(p, "failing")
    /\ UNCHANGED store

SetFailed(p) ==
    /\ pc[p] = "failing"
    /\ SetStatus(target[p].id, "failed")
    /\ Finish(p)

-----------------------------------------------------------------------------
(* Processes that stop between two statements *)

\* The row p was indexing, if its vector is given up: it is marked indexed,
\* has no point, and nobody will look at it again on p's behalf.
GivenUp(p) ==
    {e \in Live : /\ target[p] # None /\ e = target[p].id
                  /\ status[e] = "indexed" /\ vectors[e] = None}

Stop(p) ==
    /\ pc' = [pc EXCEPT ![p] = "idle"]
    /\ target' = [target EXCEPT ![p] = None]
    /\ lost' = lost \cup GivenUp(p)

\* The container restarts (restart: unless-stopped) with an empty batch.
WorkerCrash ==
    /\ "worker_crash" \in Faults
    /\ pc[Worker] # "idle" \/ todo # {}
    /\ Stop(Worker)
    /\ todo' = {}
    /\ UNCHANGED <<store, request, erasure>>

ApiCrash(w) ==
    /\ "api_crash" \in Faults
    /\ pc[w] # "idle"
    /\ Stop(w)
    /\ request' = [request EXCEPT ![w] = None]
    /\ UNCHANGED <<store, todo, erasure>>

-----------------------------------------------------------------------------
(* DELETE /v1/memory/forget *)

SetErasure(r, step, agent, ids) ==
    erasure' = [erasure EXCEPT ![r] =
                   [step |-> step, agent |-> agent, ids |-> ids]]

\* scope is the agent of an agent-scoped API key, None for a full key.
Matching(tenant, subject, scope) ==
    {e \in Live : /\ TenantOf[events[e].agent] = tenant
                  /\ events[e].subject = subject
                  /\ scope \in {None, events[e].agent}}

ForgetSelect(r, tenant, subject, scope) ==
    LET ids == Matching(tenant, subject, scope)
    IN  /\ erasure[r].step = "idle"
        /\ ids # {}
        /\ SetErasure(r, "forget", None, ids)
        /\ UNCHANGED <<store, procs, lost>>

DeleteRows(S) ==
    /\ Erase(S)
    /\ status' = [e \in EventId |-> IF e \in S THEN "none" ELSE status[e]]
    /\ UNCHANGED vectors

ForgetDelete(r) ==
    /\ erasure[r].step = "forget"
    /\ DeleteRows(erasure[r].ids)
    /\ SetErasure(r, "purge", None, erasure[r].ids)
    /\ UNCHANGED <<agents, procs, lost>>

\* A row that stays has a parent among ids: the whole DELETE fails, 500.
ForgetRejected(r) ==
    /\ erasure[r].step = "forget"
    /\ ~ Severable(erasure[r].ids)
    /\ SetErasure(r, "idle", None, {})
    /\ UNCHANGED <<store, procs, lost>>

PurgeForgotten(r) ==
    /\ erasure[r].step = "purge"
    /\ vectors' = [e \in EventId |->
                      IF e \in erasure[r].ids THEN None ELSE vectors[e]]
    /\ SetErasure(r, "idle", None, {})
    /\ UNCHANGED <<events, nextSeq, agents, status, procs, lost>>

-----------------------------------------------------------------------------
(* POST /v1/agents and DELETE /v1/agents/{agent_id} *)

CreateAgent(a) ==
    /\ a \notin agents
    /\ agents' = agents \cup {a}
    /\ UNCHANGED <<events, nextSeq, status, vectors, procs, erasure, lost>>

EventsOf(a) == {e \in Live : events[e].agent = a}

DeleteAgentFind(r, a) ==
    /\ erasure[r].step = "idle"
    /\ a \in agents
    /\ SetErasure(r, "delete", a, {})
    /\ UNCHANGED <<store, procs, lost>>

\* The transaction: clear own parents, delete own events, delete the row.
DeleteAgentCommit(r) ==
    LET a == erasure[r].agent
    IN  /\ erasure[r].step = "delete"
        /\ DeleteRows(EventsOf(a))
        /\ agents' = agents \ {a}
        /\ SetErasure(r, "purge_agent", a, {})
        /\ UNCHANGED <<procs, lost>>

\* It rolls back when another agent's event has its parent here, or when an
\* event of the agent is inserted between its second and third statement.
DeleteAgentRollback(r) ==
    /\ erasure[r].step = "delete"
    /\ EventsOf(erasure[r].agent) # {}
    /\ SetErasure(r, "idle", None, {})
    /\ UNCHANGED <<store, procs, lost>>

\* By payload filter: also the points of rows written since the transaction.
PurgeAgent(r) ==
    LET hit == {e \in EventId : vectors[e] = erasure[r].agent}
    IN  /\ erasure[r].step = "purge_agent"
        /\ vectors' = [e \in EventId |-> IF e \in hit THEN None ELSE vectors[e]]
        /\ lost' = lost \cup (hit \cap Live)
        /\ SetErasure(r, "idle", None, {})
        /\ UNCHANGED <<events, nextSeq, agents, status, procs>>

\* Both purges log a Qdrant failure and answer 200 all the same.
PurgeFails(r) ==
    /\ "purge" \in Faults
    /\ erasure[r].step \in {"purge", "purge_agent"}
    /\ SetErasure(r, "idle", None, {})
    /\ UNCHANGED <<store, procs, lost>>

EraserCrash(r) ==
    /\ "api_crash" \in Faults
    /\ erasure[r].step # "idle"
    /\ SetErasure(r, "idle", None, {})
    /\ UNCHANGED <<store, procs, lost>>

-----------------------------------------------------------------------------
\* scripts/reindex-events.py, run by an operator at any time.
ReindexEvents ==
    /\ \E e \in Live : status[e] = "failed"
    /\ status' = [e \in EventId |->
                     IF e \in Retryable THEN "pending" ELSE status[e]]
    /\ UNCHANGED <<events, nextSeq, agents, vectors, procs, erasure, lost>>

WriterStep ==
    \E w \in Writers :
        \/ \E row \in Row, mode \in EmbedModes : BeginWrite(w, row, mode)
        \/ UpsertAgent(w) \/ InsertEvent(w) \/ InsertRejected(w)
        \/ EmbedSkipped(w) \/ ApiCrash(w)

IndexStep ==
    \E p \in Indexers :
        \/ EmbedSucceeds(p) \/ SetIndexed(p) \/ UpsertVector(p)
        \/ EmbedFails(p) \/ UpsertFails(p) \/ SetFailed(p)

EraserStep ==
    \E r \in Erasers :
        \/ \E tenant \in Tenants, subject \in Subjects,
              scope \in Agents \cup {None} :
                 ForgetSelect(r, tenant, subject, scope)
        \/ ForgetDelete(r) \/ ForgetRejected(r) \/ PurgeForgotten(r)
        \/ \E a \in Agents : DeleteAgentFind(r, a)
        \/ DeleteAgentCommit(r) \/ DeleteAgentRollback(r) \/ PurgeAgent(r)
        \/ PurgeFails(r) \/ EraserCrash(r)

Next ==
    \/ WriterStep
    \/ IndexStep
    \/ WorkerFetch \/ WorkerNext \/ WorkerCrash
    \/ EraserStep
    \/ \E a \in Agents : CreateAgent(a)
    \/ ReindexEvents

Spec == Init /\ [][Next]_vars

-----------------------------------------------------------------------------
WriterSteps == {"idle", "upsert", "insert", "embed", "embedded", "marked",
                "failing"}
IndexSteps == {"embed", "embedded", "marked", "failing"}
EraserSteps == {"idle", "forget", "purge", "delete", "purge_agent"}

\* Every variable holds a value of its kind, and what a process keeps of its
\* call (row, item, ids) is there exactly as long as its step needs it.
TypeOK ==
    /\ LogTypeOK
    /\ agents \subseteq Agents
    /\ status \in [EventId ->
                      {"none", "pending", "failed", "indexed", "skipped"}]
    /\ vectors \in [EventId -> Agents \cup {None}]
    /\ pc \in [Indexers -> WriterSteps]
    /\ request \in [Writers -> Request \cup {None}]
    /\ target \in [Indexers -> Item \cup {None}]
    /\ todo \subseteq Item
    /\ erasure \in [Erasers -> [step: EraserSteps, agent: Agents \cup {None},
                                 ids: SUBSET EventId]]
    /\ lost \subseteq EventId
    /\ \A p \in Indexers : target[p] # None <=> pc[p] \in IndexSteps
    /\ \A w \in Writers : request[w] # None <=> pc[w] \in {"upsert", "insert"}
    /\ pc[Worker] \notin {"upsert", "insert"}
    /\ \A r \in Erasers :
          erasure[r].step \in {"delete", "purge_agent"} => erasure[r].agent # None

\* p is between the UPDATE that marks row e indexed and its outcome.
Settling(p, e) ==
    pc[p] \in {"marked", "failing"} /\ target[p].id = e

\* The two writes of the dual write agree, or it is known why not: a row
\* marked indexed has its point in Qdrant, or an indexer is still at it, or
\* the vector was given up in one of two places the code does not look at
\* again: an indexer that stopped between the two writes, and the purge of
\* an agent that was written to anew before the purge ran.
IndexedAccounted ==
    \A e \in Live :
        status[e] = "indexed" =>
            \/ vectors[e] # None
            \/ \E p \in Indexers : Settling(p, e)
            \/ e \in lost

\* A call that passed the parent check may find its parent gone, but never
\* replaced by a row of another tenant.
RequestsChecked ==
    \A w \in Writers :
        LET row == request[w].row
        IN  request[w] # None /\ row.parent # None =>
                /\ row.parent < nextSeq
                /\ row.parent \in Live =>
                      TenantOf[events[row.parent].agent] = TenantOf[row.agent]

\* What forget deletes was there once, and is gone by the time it purges.
ForgottenAreDead ==
    \A r \in Erasers :
        /\ erasure[r].step \in {"forget", "purge"} =>
              \A e \in erasure[r].ids : e < nextSeq
        /\ erasure[r].step = "purge" => erasure[r].ids \cap Live = {}

\* The inductive invariant of the proofs.
StoreInv ==
    /\ TypeOK
    /\ LogInv
    /\ RequestsChecked
    /\ ForgottenAreDead
    /\ IndexedAccounted

\* No indexer has read row e and may still upsert it.
Unheld(e) ==
    /\ \A p \in Indexers : target[p] # None => target[p].id # e
    /\ \A i \in todo : i.id # e

\* Row e existed or was rejected, and no trace of it is left.
Gone(e) == e < nextSeq /\ e \notin Live /\ vectors[e] = None /\ Unheld(e)

\* An erasure that finds no indexer holding the row is final: the row stays
\* out of both stores whatever is fetched, retried, reindexed or restarted.
ErasureIsFinal == [][\A e \in EventId : Gone(e) => Gone(e)']_vars

\* forget answers "Vectors removed from search index.": once no eraser has
\* the id on its list, an erased event has no point in Qdrant.
ErasedHasNoVector ==
    \A e \in EventId :
        e < nextSeq /\ e \notin Live /\ vectors[e] # None =>
            \E r \in Erasers :
                \/ erasure[r].step = "purge" /\ e \in erasure[r].ids
                \/ erasure[r].step = "purge_agent" /\ erasure[r].agent = vectors[e]

-----------------------------------------------------------------------------
(* Liveness.  Docker restarts the worker and every call it makes has a       *)
(* timeout, so it takes its steps (weak fairness) and does not crash for     *)
(* ever; an API call that has begun to index a row goes on with it.  The     *)
(* embedding provider and Qdrant may fail any number of times, but not for   *)
(* ever (strong fairness of the two calls that succeed).                     *)
Settle(p) ==
    SetIndexed(p) \/ UpsertVector(p) \/ UpsertFails(p) \/ SetFailed(p)

WorkerStep ==
    \/ WorkerFetch \/ WorkerNext
    \/ SetIndexed(Worker) \/ SetFailed(Worker)
    \/ EmbedFails(Worker)

Fairness ==
    /\ WF_vars(WorkerStep)
    /\ SF_vars(EmbedSucceeds(Worker))
    /\ SF_vars(UpsertVector(Worker))
    /\ \A w \in Writers : WF_vars(Settle(w))
    /\ <>[][~ WorkerCrash]_vars

LiveSpec == Spec /\ Fairness

\* A row waiting to be indexed, or to be retried, becomes searchable unless
\* it is deleted first or its vector is given up (see IndexedAccounted).  A
\* tenant without an embedding key does not get its rows indexed, and must
\* not keep the rows of others from it.
Indexable(e) ==
    e \in Retryable /\ TenantOf[events[e].agent] \notin Keyless

\* Whatever fails and is restarted, an indexable row does not stay unindexed.
EventuallySearchable ==
    \A e \in EventId :
        Indexable(e) ~> (e \notin Live \/ vectors[e] # None \/ e \in lost)

\* "Qdrant and Postgres can temporarily diverge": whenever an indexed row has
\* no point, or a point no row, it does not stay so.
Diverged(e) ==
    \/ e \in Live /\ status[e] = "indexed" /\ vectors[e] = None
    \/ e \notin Live /\ vectors[e] # None

EraserProgress(r) ==
    \/ ForgetDelete(r) \/ ForgetRejected(r) \/ PurgeForgotten(r)
    \/ DeleteAgentCommit(r) \/ DeleteAgentRollback(r)
    \/ PurgeAgent(r) \/ PurgeFails(r)

\* Erasures that have begun are carried through, the operator does run the
\* script, and Qdrant fails no more after a while.
RepairSpec ==
    /\ LiveSpec
    /\ \A r \in Erasers : WF_vars(EraserProgress(r))
    /\ WF_vars(ReindexEvents)
    /\ <>[][\A r \in Erasers : ~ PurgeFails(r)]_vars

\* Every divergence of the two stores is repaired in time (ADR 002).
DivergenceIsTemporary ==
    \A e \in EventId : Diverged(e) ~> ~ Diverged(e)
=============================================================================
