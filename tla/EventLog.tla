------------------------------- MODULE EventLog -------------------------------
(***************************************************************************)
(* What ZizkaDB promises its callers about table events: an append-only    *)
(* log.  A row enters the log once, under a sequence number never used     *)
(* before, behind a parent that is already there and belongs to the same   *)
(* tenant; it never changes; it leaves only by an explicit erasure, which  *)
(* never takes the parent of a row that stays.                             *)
(*                                                                         *)
(* Nothing here says how a write is split into statements, who indexes the *)
(* rows or what may fail: EventStore.tla does, and implements this module. *)
(***************************************************************************)
EXTENDS Naturals

CONSTANTS
    Tenants,      \* tenants(tenant_id)
    Agents,       \* possible rows of agents, i.e. pairs (agent_id, tenant_id)
    TenantOf,     \* the tenant_id half of such a pair
    Subjects,     \* what a forget filter can tell apart in events.data
    MaxEvents,    \* bound: sequence numbers handed out
    None          \* SQL NULL, and the absence of a row

EventId == 1..MaxEvents

ASSUME EventLogAssumption ==
    /\ TenantOf \in [Agents -> Tenants]
    /\ MaxEvents \in Nat
    /\ None \notin EventId
    /\ None \notin Agents

Row == [agent: Agents, parent: EventId \cup {None}, subject: Subjects]

ASSUME NoneIsNoRow == None \notin Row

VARIABLES
    events,       \* events[e]: the row with sequence number e, or None
    nextSeq       \* the next value of the BIGSERIAL sequence_no

logVars == <<events, nextSeq>>

Live == {e \in EventId : events[e] # None}

LogInit ==
    /\ events = [e \in EventId |-> None]
    /\ nextSeq = 1

\* Mutation of AllowedParent: existence is checked, the tenant is not.
AnyLiveParent(row) == row.parent # None => row.parent \in Live

\* A row may follow parent p only if p is there, in the same tenant.
AllowedParent(row) ==
    row.parent # None =>
        /\ row.parent \in Live
        /\ TenantOf[events[row.parent].agent] = TenantOf[row.agent]

\* The rows of S can go without leaving a dangling parent_event_id behind.
Severable(S) == \A c \in Live \ S : events[c].parent \notin S

\* Mutation of Draw: SELECT MAX(sequence_no) + 1 in place of the sequence.
DrawMaxPlusOne ==
    nextSeq' = CHOOSE n \in 1..(MaxEvents + 1) :
                  /\ \A e \in EventId : events'[e] # None => e < n
                  /\ n = 1 \/ events'[n - 1] # None

\* nextval of the sequence behind sequence_no.
Draw == nextSeq' = nextSeq + 1

AppendRow(row) ==
    /\ nextSeq \in EventId
    /\ AllowedParent(row)
    /\ events' = [events EXCEPT ![nextSeq] = row]
    /\ Draw

\* A rejected insert consumes its sequence number and leaves no row.
Burn ==
    /\ nextSeq \in EventId
    /\ UNCHANGED events
    /\ Draw

\* Mutation of Erase: ON DELETE SET NULL on parent_event_id.
EraseDetaching(S) ==
    /\ events' = [e \in EventId |->
                     IF e \in S \/ e \notin Live THEN None
                     ELSE IF events[e].parent \in S
                          THEN [events[e] EXCEPT !.parent = None]
                          ELSE events[e]]
    /\ UNCHANGED nextSeq

Erase(S) ==
    /\ Severable(S)
    /\ events' = [e \in EventId |-> IF e \in S THEN None ELSE events[e]]
    /\ UNCHANGED nextSeq

LogNext ==
    \/ \E row \in Row : AppendRow(row)
    \/ Burn
    \/ \E S \in SUBSET EventId : Erase(S)

\* What table events promises: it starts empty, and every step is an append
\* behind an allowed parent, a burned number, an erasure or no step at all.
LogSpec == LogInit /\ [][LogNext]_logVars

-----------------------------------------------------------------------------
LogTypeOK ==
    /\ events \in [EventId -> Row \cup {None}]
    /\ nextSeq \in 1..(MaxEvents + 1)

\* Every parent link leads to a row that is there, is older and belongs to
\* the same tenant: walking parent_event_id (why, sessions, lineage in the
\* SDKs) ends, and never leaves the tenant.
LineageSound ==
    \A e \in Live :
        LET p == events[e].parent
        IN  p # None => /\ p \in Live
                        /\ p < e
                        /\ TenantOf[events[p].agent] = TenantOf[events[e].agent]

\* Every row was written under a number already drawn.
NumbersDrawn == \A e \in Live : e < nextSeq

\* LineageSound made inductive: a fresh row can only point back.
LogInv == LogTypeOK /\ NumbersDrawn /\ LineageSound

\* The log only grows at its end and only shrinks by erasure: no step edits
\* a row in place, fills an old gap or brings an erased row back.
AppendOnly ==
    [][\A e \in EventId :
          events'[e] # events[e] =>
              \/ events'[e] = None
              \/ events[e] = None /\ e = nextSeq /\ nextSeq' = nextSeq + 1]_logVars
=============================================================================
