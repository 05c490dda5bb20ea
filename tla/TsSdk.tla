-------------------------------- MODULE TsSdk ---------------------------------
(***************************************************************************)
(* The TypeScript SDK: a client that calls the API over HTTP and, inside   *)
(* LineageContext.run, links each event it logs to the one before it in    *)
(* the same context (AsyncLocalStorage).  Calls overlap, the network loses *)
(* requests and answers, and the timeout of a call runs only until the     *)
(* head of the answer is there.                                            *)
(***************************************************************************)
EXTENDS Basics, Naturals, FiniteSets

CONSTANTS
    Contexts,   \* lineage contexts made by track()
    AgentOf,    \* the agent each context was made for
    MaxLogs     \* bound: calls of the client

ASSUME SdkAssumption ==
    /\ None \notin Contexts /\ None \notin Nat
    /\ AgentOf \in [Contexts -> Agents]
    /\ MaxLogs \in Nat

VARIABLES
    recorded,   \* the server: the events it has recorded
    serverSeq,  \* the server: the last id it has given out
    lineage,    \* LineageState of each context
    logCalls,   \* calls that have not settled, and abandoned requests
    issued,     \* calls made
    client,     \* the process: clients constructed, beacons sent
    hasty       \* contexts whose logs were not awaited one by one, failed, or
                \* lost an event to an erasure

sdkVars == <<recorded, serverSeq, lineage, logCalls, issued, client, hasty>>

-----------------------------------------------------------------------------
(* Lineage. *)

InContext(c, agent) == c # None /\ AgentOf[c] = agent

\* resolveLogLineage, when log() is called: an explicit parent wins, then the
\* fork, then the last event of the context.
resolveParent(c, agent, parent) ==
    CASE parent # None -> parent
      [] parent = None /\ ~InContext(c, agent) -> None
      [] OTHER -> IF lineage[c].fork # None THEN lineage[c].fork ELSE lineage[c].last

\* Mutant: an event of another agent becomes the last one of the context.
recordAnyAgent(c, agent, id) ==
    IF c # None /\ lineage[c].fork = None
    THEN [lineage EXCEPT ![c].last = id]
    ELSE lineage

\* Mutant: an event logged in a fork becomes the last one of the context.
recordInFork(c, agent, id) ==
    IF InContext(c, agent) THEN [lineage EXCEPT ![c].last = id] ELSE lineage

\* recordLogResult, when the answer has been read: by then the fork may have
\* ended, or another call may have answered first.
recordLogResult(c, agent, id) ==
    IF InContext(c, agent) /\ lineage[c].fork = None
    THEN [lineage EXCEPT ![c].last = id]
    ELSE lineage

CallsOf(c) == {l \in logCalls : l.ctx = c /\ l.phase # "abandoned"}

\* What makes the links of a context depend on the order of answers.
Hurries(c) == hasty' = IF c # None /\ CallsOf(c) # {} THEN hasty \cup {c} ELSE hasty

fork(c) ==
    /\ lineage' = [lineage EXCEPT ![c].fork = lineage[c].last]
    /\ Hurries(c)
    /\ UNCHANGED <<recorded, serverSeq, logCalls, issued, client>>

endFork(c) ==
    /\ lineage[c].fork # None
    /\ lineage' = [lineage EXCEPT ![c].fork = None]
    /\ Hurries(c)
    /\ UNCHANGED <<recorded, serverSeq, logCalls, issued, client>>

-----------------------------------------------------------------------------
(* Calls. *)

\* log(): lineage is resolved and the request goes out in the same turn.  Outside
\* of a context the agent makes no difference (None); "chain" is the context that
\* the event belongs to.  A session id that the caller gives replaces the one of
\* the context in the request, and changes no link.
log(c, agent, parent) ==
    /\ issued < MaxLogs
    /\ issued' = issued + 1
    /\ logCalls' = logCalls \cup
         {[no |-> issued + 1, op |-> "log", ctx |-> c, agent |-> agent,
           chain |-> IF InContext(c, agent) THEN c ELSE None,
           parent |-> resolveParent(c, agent, parent), inferred |-> parent = None,
           branch |-> InContext(c, agent) /\ lineage[c].fork # None,
           phase |-> "sent", id |-> None]}
    /\ Hurries(c)
    /\ UNCHANGED <<recorded, serverSeq, lineage, client>>

\* What the other methods of a client send, and how: they read, or forget.
EventCalls == [query |-> "GET", why |-> "GET", search |-> "POST", at |-> "GET"]
MemoryCalls == [contextFor |-> "POST", contextForFull |-> "POST", memoryDiff |-> "GET",
                forget |-> "DELETE"]
AgentCalls == [agents |-> "GET", baseline |-> "GET", tokenUsage |-> "GET",
               tokenOptimization |-> "GET", suggestions |-> "GET", report |-> "GET",
               behaviorChange |-> "GET"]

Methods == DOMAIN EventCalls \cup DOMAIN MemoryCalls \cup DOMAIN AgentCalls

\* The calls of all but one differ in what they return, not in what they do.
opOf(method) == IF method = "forget" THEN "forget" ELSE "read"

call(op) ==
    /\ issued < MaxLogs
    /\ issued' = issued + 1
    /\ logCalls' = logCalls \cup
         {[no |-> issued + 1, op |-> op,
           ctx |-> None, agent |-> None, chain |-> None, parent |-> None,
           inferred |-> FALSE, branch |-> FALSE, phase |-> "sent", id |-> None]}
    /\ UNCHANGED <<recorded, serverSeq, lineage, client, hasty>>

Move(l, phase, id) == (logCalls \ {l}) \cup {[l EXCEPT !.phase = phase, !.id = id]}

\* The request has been handled, also if its caller has given up.
Handled(l, id) == IF l.phase = "sent" THEN Move(l, "handled", id) ELSE logCalls \ {l}

\* The server records the event, if the parent it names is there.
ServerRecords(l) ==
    /\ l.phase \in {"sent", "abandoned"} /\ l.op = "log"
    /\ l.parent = None \/ l.parent \in {e.id : e \in recorded}
    /\ serverSeq' = serverSeq + 1
    /\ recorded' = recorded \cup
         {[id |-> serverSeq + 1, parent |-> l.parent, chain |-> l.chain,
           inferred |-> l.inferred, branch |-> l.branch]}
    /\ logCalls' = Handled(l, serverSeq + 1)
    /\ UNCHANGED <<lineage, issued, client, hasty>>

ServerReads(l) ==
    /\ l.phase = "sent" /\ l.op = "read"
    /\ logCalls' = Handled(l, None)
    /\ UNCHANGED <<recorded, serverSeq, lineage, issued, client, hasty>>

\* The events that the filter matches go, and the ones they caused stay, without
\* a parent.  A context is not told that its last event has gone.
ServerErases(l, gone) ==
    /\ l.phase \in {"sent", "abandoned"} /\ l.op = "forget"
    /\ recorded' = {[e EXCEPT !.parent = IF @ \in {g.id : g \in gone} THEN None ELSE @] :
                       e \in recorded \ gone}
    /\ logCalls' = Handled(l, None)
    /\ hasty' = hasty \cup ({e.chain : e \in gone} \ {None})
    /\ UNCHANGED <<serverSeq, lineage, issued, client>>

\* The head of the answer arrives: fetch resolves, and "return this.handle(res)"
\* leaves the try block, so the timer is cleared before the body is read.
HeadArrives(l) ==
    /\ l.phase = "handled"
    /\ logCalls' = Move(l, "reading", l.id)
    /\ UNCHANGED <<recorded, serverSeq, lineage, issued, client, hasty>>

\* res.json() resolves; log() records the result and returns, the other methods
\* only translate it.
BodyArrives(l) ==
    /\ l.phase = "reading"
    /\ lineage' = recordLogResult(l.ctx, l.agent, l.id)
    /\ logCalls' = logCalls \ {l}
    /\ UNCHANGED <<recorded, serverSeq, issued, client, hasty>>

\* The call rejects and the context does not move on, whatever the server did.
Rejects(l, left) ==
    /\ logCalls' = (logCalls \ {l}) \cup left
    /\ hasty' = IF l.ctx = None THEN hasty ELSE hasty \cup {l.ctx}
    /\ UNCHANGED <<recorded, serverSeq, lineage, issued, client>>

\* handle: the server refuses the call (401, 403, 404, 429 or another error, as
\* for an event whose parent is not there).
Denied(l) == l.phase = "sent" /\ Rejects(l, {})

\* Mutant: the timer is cleared when the request has reached the server.
TimesOutUnsent(l) ==
    /\ l.phase = "sent"
    /\ Rejects(l, {[l EXCEPT !.phase = "abandoned"]})

\* The timeout aborts the fetch; a request on its way may still be recorded, or
\* never be.
TimesOut(l) ==
    /\ l.phase \in {"sent", "handled"}
    /\ Rejects(l, IF l.phase = "sent" THEN {[l EXCEPT !.phase = "abandoned"]} ELSE {})

\* The connection breaks, before the head or within the body.
ConnectionLost(l) == l.phase \in {"handled", "reading"} /\ Rejects(l, {})

\* The body stops coming on a connection that stays open; no timer runs.
BodyStalls(l) ==
    /\ l.phase = "reading"
    /\ logCalls' = Move(l, "stalled", l.id)
    /\ UNCHANGED <<recorded, serverSeq, lineage, issued, client, hasty>>

-----------------------------------------------------------------------------
(* The process. *)

\* _sendTelemetry: the first client that is constructed sends the beacon,
\* unless ZIZKADB_TELEMETRY turns it off; its answer is never awaited.
_sendTelemetry == IF client.optOut \/ client.telemetrySent THEN client.beacons ELSE client.beacons + 1

\* The key of a client: given, from the environment, or the development key,
\* which a host that is not local does not get.
keyFor(given, local, env) ==
    CASE given -> "given"
      [] ~given /\ env -> "env"
      [] ~given /\ ~env /\ local -> "dev"
      [] OTHER -> None

\* new ZizkaDB(config): neither a key nor a host, or a remote host without a
\* key, is an error, thrown before the beacon.  Bound: two clients.
construct(given, host, env) ==
    /\ client.made < 2
    /\ client' =
         IF (~given /\ host = None) \/ keyFor(given, host = "local", env) = None
         THEN [client EXCEPT !.made = @ + 1]
         ELSE [client EXCEPT !.made = @ + 1, !.beacons = _sendTelemetry,
                             !.telemetrySent = @ \/ ~client.optOut]
    /\ UNCHANGED <<recorded, serverSeq, lineage, logCalls, issued, hasty>>

\* The environment variable is read anew each time.
optOut ==
    /\ client.made < 2
    /\ client' = [client EXCEPT !.optOut = ~@]
    /\ UNCHANGED <<recorded, serverSeq, lineage, logCalls, issued, hasty>>

-----------------------------------------------------------------------------
SdkInit ==
    /\ recorded = {}
    /\ serverSeq = 0
    /\ lineage = [c \in Contexts |-> [last |-> None, fork |-> None]]
    /\ logCalls = {}
    /\ issued = 0
    /\ client = [made |-> 0, beacons |-> 0, telemetrySent |-> FALSE, optOut |-> FALSE]
    /\ hasty = {}

\* Bound: the parent a caller names itself is the first event.
Named == {e.id : e \in recorded} \cap {1}

\* What can be relied on: the timer fires, and a body that has begun comes or
\* stalls.  No head has to arrive.
SdkSettles == \E l \in logCalls : BodyArrives(l) \/ TimesOut(l)

LogNext ==
    \/ \E c \in Contexts, a \in Agents, p \in Named \cup {None} : log(c, a, p)
    \/ \E p \in Named \cup {None} : log(None, None, p)
    \/ \E op \in {opOf(method) : method \in Methods} : call(op)
    \/ \E c \in Contexts : fork(c)
    \/ \E c \in Contexts : endFork(c)
    \/ SdkSettles
    \/ \E l \in logCalls :
          \/ ServerRecords(l)
          \/ ServerReads(l)
          \/ \E gone \in SUBSET recorded : ServerErases(l, gone)
          \/ HeadArrives(l)
          \/ Denied(l)
          \/ ConnectionLost(l)
          \/ BodyStalls(l)

ClientNext ==
    \/ \E given, env \in BOOLEAN, host \in {None, "local", "remote"} : construct(given, host, env)
    \/ optOut

SdkNext == LogNext \/ ClientNext

SdkSpec == SdkInit /\ [][SdkNext]_sdkVars

-----------------------------------------------------------------------------
(* Properties. *)

Causal == INSTANCE CausalLog WITH events <- recorded

\* Whatever overlaps, fails, is lost or erased, the SDK links an event by itself
\* only to an event of the log that came through the same context (context.ts).
LinksAreCausal == Causal!Spec

\* The trunk of a context: what it logged outside its forks.
Trunk(c) == {e \in recorded : e.chain = c /\ ~e.branch}

\* If the logs of a context are awaited one by one, none fails and nothing of it is
\* erased, its trunk is one chain in the order of logging, from which the forks
\* branch off, and the next event continues its end, so the server will not refuse
\* it for its parent (track() of the SDK, context.ts:51-83).
AwaitedLogsFormAChain ==
    \A c \in Contexts \ hasty :
       /\ \A e \in Trunk(c) : e.inferred =>
             LET before == {f.id : f \in {g \in Trunk(c) : g.id < e.id}}
             IN  IF before = {} THEN e.parent = None
                 ELSE e.parent \in before /\ \A n \in before : n <= e.parent
       /\ CallsOf(c) = {} =>
             IF Trunk(c) = {}
             THEN lineage[c].last = None
             ELSE lineage[c].last \in {e.id : e \in Trunk(c)}
                    /\ \A e \in Trunk(c) : e.id <= lineage[c].last

\* A call whose answer keeps coming settles: the timer ends the ones that get
\* no answer (index.ts post).  A body that stalls is what no timer ends.
CallsSettle == []<>(\A l \in logCalls : l.phase \in {"abandoned", "stalled"})
=============================================================================
