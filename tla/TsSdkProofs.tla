----------------------------- MODULE TsSdkProofs ------------------------------
(***************************************************************************)
(* Proofs about TsSdk, for every set of contexts and agents and any number *)
(* of calls: the links that the SDK chooses implement CausalLog.           *)
(***************************************************************************)
EXTENDS TsSdk, TLAPS

-----------------------------------------------------------------------------
(* The inductive invariant *)

Id == Nat \cup {None}
Chain == Contexts \cup {None}

Phases == {"sent", "handled", "reading", "stalled", "abandoned"}

SdkCall == [no : Nat, op : {"log", "read", "forget"}, ctx : Chain, agent : Agents \cup {None}, chain : Chain,
         parent : Id, inferred : BOOLEAN, branch : BOOLEAN, phase : Phases, id : Id]

Event == [id : Nat, parent : Id, chain : Chain, inferred : BOOLEAN, branch : BOOLEAN]

SdkTypeOK ==
    /\ recorded \subseteq Event
    /\ serverSeq \in Nat
    /\ lineage \in [Contexts -> [last : Id, fork : Id]]
    /\ logCalls \subseteq SdkCall
    /\ issued \in Nat

\* Ids are given out in order, and not twice.
IdsDrawn == \A e \in recorded : e.id <= serverSeq

\* n has been given out, and is or was an event of the context c.
OfChain(n, c) ==
    n # None => n \in Nat /\ n <= serverSeq /\ \A f \in recorded : f.id = n => f.chain = c

\* What a context remembers is its own, also after it has been erased.
RemembersOwn ==
    \A c \in Contexts : OfChain(lineage[c].last, c) /\ OfChain(lineage[c].fork, c)

\* What a call carries belongs to the context it will be recorded in.
Own(l) ==
    /\ l.inferred => OfChain(l.parent, l.chain)
    /\ OfChain(l.id, l.chain)
    /\ InContext(l.ctx, l.agent) => l.chain = l.ctx

CarriesOwn == \A l \in logCalls : Own(l)

\* m carries what l does, but for its id.
CarriesAs(m, l, id) ==
    /\ m.inferred = l.inferred /\ m.parent = l.parent /\ m.chain = l.chain
    /\ m.ctx = l.ctx /\ m.agent = l.agent /\ m.id = id

SdkInv == SdkTypeOK /\ IdsDrawn /\ RemembersOwn /\ CarriesOwn

\* Only a log belongs to a context, and what is logged for a context is called in it.
BelongsOnce(l) ==
    /\ l.op # "log" => l.ctx = None /\ l.chain = None
    /\ l.chain # None => l.chain = l.ctx /\ InContext(l.ctx, l.agent)

IdsUnique == \A e, f \in recorded : e.id = f.id => e = f

\* Calls made in the context c, abandoned ones included.
CallsIn(c) == {l \in logCalls : l.ctx = c}

\* n is the last event of the trunk of c.
Tip(c, n) ==
    IF Trunk(c) = {}
    THEN n = None
    ELSE (\E e \in Trunk(c) : e.id = n) /\ \A e \in Trunk(c) : e.id <= n

OnTrunk(l, c) == l.chain = c /\ ~l.branch
Answering(l) == l.phase \in {"handled", "reading", "stalled"}

\* e continues what the trunk of its context had before it.
Follows(e, c) ==
    LET before == {f.id : f \in {g \in Trunk(c) : g.id < e.id}}
    IN  IF before = {} THEN e.parent = None
        ELSE e.parent \in before /\ \A n \in before : n <= e.parent

\* A context whose logs are awaited has one call at a time, made where the context still
\* stands, and it or the call's answer remembers the end of the trunk.
Awaited(c) ==
    /\ \A l, m \in CallsIn(c) : l = m
    /\ \A l \in CallsIn(c) :
          /\ l.phase # "abandoned"
          /\ l.chain = c => (l.branch <=> lineage[c].fork # None)
          /\ OnTrunk(l, c) /\ Answering(l) => Tip(c, l.id)
          /\ OnTrunk(l, c) /\ l.phase = "sent" /\ l.inferred => l.parent = lineage[c].last
    /\ (\A l \in CallsIn(c) : ~(OnTrunk(l, c) /\ Answering(l))) => Tip(c, lineage[c].last)
    /\ \A e \in Trunk(c) : e.inferred => Follows(e, c)

AwaitedInv ==
    /\ \A l \in logCalls : BelongsOnce(l)
    /\ IdsUnique
    /\ \A c \in Contexts \ hasty : Awaited(c)

-----------------------------------------------------------------------------
(* Lemmas *)

\* The invariant holds before the first call.
LEMMA SdkInitInv == SdkInit => SdkInv
  BY SdkAssumption
     DEF SdkInit, SdkInv, SdkTypeOK, IdsDrawn, RemembersOwn, CarriesOwn, OfChain, Id

\* A call that moves on keeps what it carries, but for its id.
LEMMA MovedCall ==
  ASSUME logCalls \subseteq SdkCall, NEW l \in logCalls, NEW phase \in Phases, NEW id \in Id,
         NEW m \in Move(l, phase, id)
  PROVE  /\ m \in SdkCall
         /\ m \in logCalls \/ CarriesAs(m, l, id)
  BY DEF Move, SdkCall, CarriesAs

\* Events may come and go: as long as ids stay drawn and those there were keep their
\* context, what was of a context still is.
LEMMA OfChainKept ==
  ASSUME SdkInv, serverSeq' \in Nat, serverSeq <= serverSeq',
         \A f \in recorded' : \/ \E e \in recorded : e.id = f.id /\ e.chain = f.chain
                              \/ serverSeq < f.id,
         NEW n \in Id, NEW c, OfChain(n, c)
  PROVE  OfChain(n, c)'
  BY DEF SdkInv, SdkTypeOK, OfChain

\* If the log stands still, calls that move on by themselves keep the invariant.
LEMMA CallsMoveOn ==
  ASSUME SdkInv, UNCHANGED <<recorded, serverSeq, lineage, issued>>,
         logCalls' \subseteq SdkCall,
         \A m \in logCalls' : m \in logCalls \/ \E l \in logCalls :
            CarriesAs(m, l, l.id) \/ CarriesAs(m, l, None)
  PROVE  SdkInv'
<1>1. SdkTypeOK' /\ IdsDrawn' /\ RemembersOwn'
  BY DEF SdkInv, SdkTypeOK, IdsDrawn, RemembersOwn, OfChain
<1>2. CarriesOwn'
  <2> SUFFICES ASSUME NEW m \in logCalls'
               PROVE  Own(m)'
    BY DEF CarriesOwn
  <2>1. \A n, c : OfChain(n, c)' = OfChain(n, c)
    BY DEF OfChain
  <2>2. CASE m \in logCalls
    BY <2>1, <2>2 DEF SdkInv, CarriesOwn, Own
  <2>3. CASE \E l \in logCalls : CarriesAs(m, l, l.id) \/ CarriesAs(m, l, None)
    <3>1. PICK l \in logCalls : CarriesAs(m, l, l.id) \/ CarriesAs(m, l, None)
      BY <2>3
    <3>2. OfChain(None, m.chain)
      BY DEF OfChain
    <3>3. QED
      BY <2>1, <3>1, <3>2 DEF SdkInv, CarriesOwn, Own, CarriesAs
  <2>4. QED
    BY <2>2, <2>3
<1>3. QED
  BY <1>1, <1>2 DEF SdkInv

\* One step of a call that moves on or rejects.
LEMMA CallMoves ==
  ASSUME SdkInv, NEW l \in logCalls,
         UNCHANGED <<recorded, serverSeq, lineage, issued>>,
         \/ \E phase \in Phases, id \in {l.id, None} : logCalls' = Move(l, phase, id)
         \/ \E left \in SUBSET {[l EXCEPT !.phase = "abandoned"]} :
               logCalls' = (logCalls \ {l}) \cup left
         \/ logCalls' = Handled(l, None)
  PROVE  SdkInv'
<1> USE DEF SdkInv, SdkTypeOK
<1>1. l.id \in Id /\ None \in Id
  BY DEF SdkCall, Id
<1>2. ASSUME NEW phase \in Phases, NEW id \in {l.id, None}, logCalls' = Move(l, phase, id)
      PROVE  SdkInv'
  <2>1. \A m \in Move(l, phase, id) :
           m \in SdkCall /\ (m \in logCalls \/ CarriesAs(m, l, id))
    BY <1>1, <1>2, MovedCall
  <2>2. QED
    BY <1>2, <2>1, CallsMoveOn
<1>3. ASSUME NEW left \in SUBSET {[l EXCEPT !.phase = "abandoned"]},
             logCalls' = (logCalls \ {l}) \cup left
      PROVE  SdkInv'
  <2>1. [l EXCEPT !.phase = "abandoned"] = [l EXCEPT !.phase = "abandoned", !.id = l.id]
    BY DEF SdkCall
  <2>2. \A m \in left : m \in Move(l, "abandoned", l.id)
    BY <2>1 DEF Move
  <2>3. \A m \in left :
           m \in SdkCall /\ (m \in logCalls \/ CarriesAs(m, l, l.id))
    BY <1>1, <2>2, MovedCall DEF Phases
  <2>4. QED
    BY <1>3, <2>3, CallsMoveOn
<1>4. CASE logCalls' = Handled(l, None)
  <2>1. CASE l.phase = "sent"
    BY <1>2, <1>4, <2>1 DEF Handled, Phases
  <2>2. CASE l.phase # "sent"
    <3>1. logCalls' = (logCalls \ {l}) \cup {}
      BY <1>4, <2>2 DEF Handled
    <3>2. QED
      BY <1>3, <3>1, {} \in SUBSET {[l EXCEPT !.phase = "abandoned"]}
  <2>3. QED
    BY <2>1, <2>2
<1>5. QED
  BY <1>2, <1>3, <1>4

\* The parent that the SDK chooses is of the context the event is logged in.
LEMMA LogKeeps ==
  ASSUME SdkInv, NEW c \in Contexts \cup {None}, NEW a \in Agents \cup {None}, NEW p \in Id,
         log(c, a, p)
  PROVE  SdkInv'
<1> DEFINE l == [no |-> issued + 1, op |-> "log", ctx |-> c, agent |-> a,
                 chain |-> IF InContext(c, a) THEN c ELSE None,
                 parent |-> resolveParent(c, a, p), inferred |-> p = None,
                 branch |-> InContext(c, a) /\ lineage[c].fork # None,
                 phase |-> "sent", id |-> None]
<1>1. InContext(c, a) => c \in Contexts
  BY DEF InContext
<1>2. resolveParent(c, a, p) \in Id /\ (p = None => OfChain(resolveParent(c, a, p), l.chain))
  <2>1. CASE p # None
    BY <2>1 DEF resolveParent
  <2>2. CASE p = None /\ ~InContext(c, a)
    BY <2>2 DEF resolveParent, OfChain, Id
  <2>3. CASE p = None /\ InContext(c, a)
    <3>1. resolveParent(c, a, p) \in {lineage[c].fork, lineage[c].last}
      BY <2>3 DEF resolveParent
    <3>2. QED
      BY <1>1, <2>3, <3>1 DEF SdkInv, SdkTypeOK, RemembersOwn
  <2>4. QED
    BY <2>1, <2>2, <2>3
<1>3. InContext(c, a) \in BOOLEAN /\ (InContext(c, a) /\ lineage[c].fork # None) \in BOOLEAN
      /\ (p = None) \in BOOLEAN
  BY DEF InContext
<1>4. issued + 1 \in Nat /\ l.chain \in Chain
  BY <1>1 DEF SdkInv, SdkTypeOK, Chain
<1>5. l \in SdkCall
  BY <1>2, <1>3, <1>4 DEF SdkCall, Chain, Id, Phases
<1>6. /\ logCalls' = logCalls \cup {l} /\ issued' = issued + 1
      /\ UNCHANGED <<recorded, serverSeq, lineage>>
  BY DEF log
<1>7. \A n, d : OfChain(n, d)' = OfChain(n, d)
  BY <1>6 DEF OfChain
<1>8. SdkTypeOK' /\ IdsDrawn' /\ RemembersOwn'
  BY <1>4, <1>5, <1>6, <1>7 DEF SdkInv, SdkTypeOK, IdsDrawn, RemembersOwn
<1>9. CarriesOwn'
  <2>1. Own(l)
    BY <1>2 DEF Own, OfChain
  <2>2. QED
    BY <1>6, <1>7, <2>1 DEF SdkInv, CarriesOwn, Own
<1>10. QED
  BY <1>8, <1>9 DEF SdkInv

\* A call of another method carries nothing.
LEMMA CallKeeps ==
  ASSUME SdkInv, NEW op \in {"read", "forget"}, call(op)
  PROVE  SdkInv'
<1> DEFINE l == [no |-> issued + 1, op |-> op,
                 ctx |-> None, agent |-> None, chain |-> None, parent |-> None,
                 inferred |-> FALSE, branch |-> FALSE, phase |-> "sent", id |-> None]
<1>1. /\ logCalls' = logCalls \cup {l} /\ issued' = issued + 1
      /\ UNCHANGED <<recorded, serverSeq, lineage>>
  BY DEF call
<1>2. l \in SdkCall /\ issued + 1 \in Nat
  BY DEF SdkInv, SdkTypeOK, SdkCall, Chain, Id, Phases
<1>3. \A n, d : OfChain(n, d)' = OfChain(n, d)
  BY <1>1 DEF OfChain
<1>4. SdkTypeOK' /\ IdsDrawn' /\ RemembersOwn'
  BY <1>1, <1>2, <1>3 DEF SdkInv, SdkTypeOK, IdsDrawn, RemembersOwn
<1>5. CarriesOwn'
  BY <1>1, <1>3 DEF SdkInv, CarriesOwn, Own, InContext, OfChain
<1>6. QED
  BY <1>4, <1>5 DEF SdkInv

\* A fork takes the last event of its own context, and ends without a trace.
LEMMA ForkKeeps ==
  ASSUME SdkInv, NEW c \in Contexts, fork(c) \/ endFork(c)
  PROVE  SdkInv'
<1>1. UNCHANGED <<recorded, serverSeq, logCalls, issued>>
  BY DEF fork, endFork
<1>2. \A n, d : OfChain(n, d)' = OfChain(n, d)
  BY <1>1 DEF OfChain
<1>3. PICK n \in {lineage[c].last, None} : lineage' = [lineage EXCEPT ![c].fork = n]
  BY DEF fork, endFork
<1>4. n \in Id /\ OfChain(n, c)
  BY <1>3 DEF SdkInv, SdkTypeOK, RemembersOwn, OfChain, Id
<1>5. /\ lineage' \in [Contexts -> [last : Id, fork : Id]]
      /\ \A d \in Contexts : /\ lineage'[d].last = lineage[d].last
                            /\ lineage'[d].fork = IF d = c THEN n ELSE lineage[d].fork
  BY <1>3, <1>4 DEF SdkInv, SdkTypeOK
<1>6. SdkTypeOK' /\ IdsDrawn'
  BY <1>1, <1>5 DEF SdkInv, SdkTypeOK, IdsDrawn
<1>7. RemembersOwn'
  BY <1>2, <1>4, <1>5 DEF SdkInv, RemembersOwn
<1>8. CarriesOwn'
  BY <1>1, <1>2 DEF SdkInv, CarriesOwn, Own
<1>9. QED
  BY <1>6, <1>7, <1>8 DEF SdkInv

\* A body that arrives moves its context to the event that was recorded for it.
LEMMA BodyKeeps ==
  ASSUME SdkInv, NEW l \in logCalls, BodyArrives(l)
  PROVE  SdkInv'
<1>1. UNCHANGED <<recorded, serverSeq, issued>> /\ logCalls' = logCalls \ {l}
  BY DEF BodyArrives
<1>2. \A n, d : OfChain(n, d)' = OfChain(n, d)
  BY <1>1 DEF OfChain
<1>3. /\ lineage' \in [Contexts -> [last : Id, fork : Id]]
      /\ RemembersOwn'
  <2>1. CASE lineage' = lineage
    BY <1>2, <2>1 DEF SdkInv, SdkTypeOK, RemembersOwn
  <2>2. CASE InContext(l.ctx, l.agent) /\ lineage' = [lineage EXCEPT ![l.ctx].last = l.id]
    <3>1. l.ctx \in Contexts /\ l.id \in Id /\ OfChain(l.id, l.ctx)
      BY <2>2 DEF SdkInv, SdkTypeOK, CarriesOwn, Own, InContext, SdkCall, Chain
    <3>2. /\ lineage' \in [Contexts -> [last : Id, fork : Id]]
          /\ \A d \in Contexts : /\ lineage'[d].fork = lineage[d].fork
                                /\ lineage'[d].last = IF d = l.ctx THEN l.id ELSE lineage[d].last
      BY <2>2, <3>1 DEF SdkInv, SdkTypeOK
    <3>3. QED
      BY <1>2, <3>1, <3>2 DEF SdkInv, RemembersOwn
  <2>3. QED
    BY <2>1, <2>2 DEF BodyArrives, recordLogResult
<1>4. SdkTypeOK' /\ IdsDrawn' /\ CarriesOwn'
  BY <1>1, <1>2, <1>3 DEF SdkInv, SdkTypeOK, IdsDrawn, CarriesOwn, Own
<1>5. QED
  BY <1>3, <1>4 DEF SdkInv

\* The server gives an event an id that none had.
LEMMA RecordKeeps ==
  ASSUME SdkInv, NEW l \in logCalls, ServerRecords(l)
  PROVE  SdkInv'
<1> PICK id : id = serverSeq + 1
  OBVIOUS
<1> DEFINE e == [id |-> id, parent |-> l.parent, chain |-> l.chain,
                 inferred |-> l.inferred, branch |-> l.branch]
<1> USE DEF SdkInv, SdkTypeOK
<1>1. /\ serverSeq' = id /\ id \in Nat /\ serverSeq < id
      /\ recorded' = recorded \cup {e}
      /\ logCalls' = Handled(l, id)
      /\ UNCHANGED <<lineage, issued>>
  BY DEF ServerRecords
<1>2. e \in Event /\ id \in Id
  BY <1>1 DEF SdkCall, Event, Id
<1>3. \A n \in Id : \A c : OfChain(n, c) => OfChain(n, c)'
  BY <1>1, OfChainKept
<1>4. OfChain(id, l.chain)'
  <2>1. \A f \in recorded : f.id # id
    BY <1>1 DEF IdsDrawn, Event
  <2>2. e.id = id /\ e.chain = l.chain
    OBVIOUS
  <2>3. QED
    BY <1>1, <2>1, <2>2 DEF OfChain
<1>5. \A m \in logCalls' :
         m \in SdkCall /\ (m \in logCalls \/ CarriesAs(m, l, id))
  <2>1. \A m \in Move(l, "handled", id) :
         m \in SdkCall /\ (m \in logCalls \/ CarriesAs(m, l, id))
    BY <1>2, MovedCall DEF Phases
  <2>2. QED
    BY <1>1, <2>1 DEF Handled
<1>6. SdkTypeOK' /\ IdsDrawn'
  BY <1>1, <1>2, <1>5 DEF IdsDrawn, Event
<1>7. RemembersOwn'
  BY <1>1, <1>3 DEF RemembersOwn
<1>8. CarriesOwn'
  <2> SUFFICES ASSUME NEW m \in logCalls'
               PROVE  Own(m)'
    BY DEF CarriesOwn
  <2>1. m.parent \in Id /\ m.id \in Id
    BY <1>5 DEF SdkCall
  <2>2. CASE m \in logCalls
    BY <1>3, <2>1, <2>2 DEF CarriesOwn, Own
  <2>3. CASE m \notin logCalls
    BY <1>3, <1>4, <1>5, <2>1, <2>3 DEF CarriesOwn, Own, CarriesAs
  <2>4. QED
    BY <2>2, <2>3
<1>9. QED
  BY <1>6, <1>7, <1>8

\* An erasure takes events away; what is left keeps its id and its context.
LEMMA EraseKeeps ==
  ASSUME SdkInv, NEW l \in logCalls, NEW gone \in SUBSET recorded, ServerErases(l, gone)
  PROVE  SdkInv'
<1> DEFINE Left(e) == [e EXCEPT !.parent = IF @ \in {g.id : g \in gone} THEN None ELSE @]
<1> USE DEF SdkInv, SdkTypeOK
<1>1. /\ recorded' = {Left(e) : e \in recorded \ gone}
      /\ logCalls' = Handled(l, None)
      /\ UNCHANGED <<serverSeq, lineage, issued>>
  BY DEF ServerErases
<1>2. \A e \in recorded : Left(e) \in Event /\ Left(e).id = e.id /\ Left(e).chain = e.chain
  BY DEF Event, Id
<1>3. /\ recorded' \subseteq Event
      /\ \A f \in recorded' : \E e \in recorded : e.id = f.id /\ e.chain = f.chain
  BY <1>1, <1>2
<1> HIDE DEF Left
<1>4. \A n \in Id : \A c : OfChain(n, c) => OfChain(n, c)'
  BY <1>1, <1>3, OfChainKept
<1>5. \A m \in logCalls' :
         m \in SdkCall /\ (m \in logCalls \/ CarriesAs(m, l, None))
  <2>1. \A m \in Move(l, "handled", None) :
         m \in SdkCall /\ (m \in logCalls \/ CarriesAs(m, l, None))
    BY MovedCall DEF Id, Phases
  <2>2. QED
    BY <1>1, <2>1 DEF Handled
<1>6. SdkTypeOK' /\ IdsDrawn'
  BY <1>1, <1>3, <1>5 DEF IdsDrawn
<1>7. RemembersOwn'
  BY <1>1, <1>4 DEF RemembersOwn
<1>8. CarriesOwn'
  <2> SUFFICES ASSUME NEW m \in logCalls'
               PROVE  Own(m)'
    BY DEF CarriesOwn
  <2>1. m.parent \in Id /\ m.id \in Id
    BY <1>5 DEF SdkCall
  <2>2. CASE m \in logCalls
    BY <1>4, <2>1, <2>2 DEF CarriesOwn, Own
  <2>3. CASE m \notin logCalls
    <3>1. OfChain(None, m.chain)'
      BY DEF OfChain
    <3>2. QED
      BY <1>4, <1>5, <2>1, <2>3, <3>1 DEF CarriesOwn, Own, CarriesAs
  <2>4. QED
    BY <2>2, <2>3
<1>9. QED
  BY <1>6, <1>7, <1>8

-----------------------------------------------------------------------------
(* Theorems *)

\* Every step keeps the invariant.
LEMMA SdkStep == SdkInv /\ [SdkNext]_sdkVars => SdkInv'
<1> SUFFICES ASSUME SdkInv, [SdkNext]_sdkVars PROVE SdkInv'
  OBVIOUS
<1> USE DEF SdkInv, SdkTypeOK
<1>1. ASSUME NEW c \in Contexts, NEW a \in Agents, NEW p \in Named \cup {None}, log(c, a, p)
      PROVE  SdkInv'
  BY <1>1, LogKeeps DEF Named, Event, Id
<1>2. ASSUME NEW p \in Named \cup {None}, log(None, None, p) PROVE SdkInv'
  BY <1>2, LogKeeps DEF Named, Event, Id
<1>3. ASSUME NEW method \in Methods, call(opOf(method)) PROVE SdkInv'
  BY <1>3, CallKeeps, opOf(method) \in {"read", "forget"} DEF opOf
<1>4. ASSUME NEW c \in Contexts, fork(c) \/ endFork(c) PROVE SdkInv'
  BY <1>4, ForkKeeps
<1>5. ASSUME NEW l \in logCalls, BodyArrives(l) PROVE SdkInv'
  BY <1>5, BodyKeeps
<1>6. ASSUME NEW l \in logCalls, ServerRecords(l) PROVE SdkInv'
  BY <1>6, RecordKeeps
<1>7. ASSUME NEW l \in logCalls, NEW gone \in SUBSET recorded, ServerErases(l, gone)
      PROVE  SdkInv'
  BY <1>7, EraseKeeps
<1>8. ASSUME NEW l \in logCalls, HeadArrives(l) PROVE SdkInv'
  BY <1>8, CallMoves DEF HeadArrives, Phases
<1>9. ASSUME NEW l \in logCalls, BodyStalls(l) PROVE SdkInv'
  BY <1>9, CallMoves DEF BodyStalls, Phases
<1>10. ASSUME NEW l \in logCalls, ServerReads(l) PROVE SdkInv'
  BY <1>10, CallMoves DEF ServerReads
<1>11. ASSUME NEW l \in logCalls, TimesOut(l) \/ Denied(l) \/ ConnectionLost(l) PROVE SdkInv'
  <2>1. PICK left \in SUBSET {[l EXCEPT !.phase = "abandoned"]} : Rejects(l, left)
    BY <1>11 DEF TimesOut, Denied, ConnectionLost
  <2>2. QED
    BY <2>1, CallMoves DEF Rejects
<1>12. CASE ClientNext \/ UNCHANGED sdkVars
  <2>1. UNCHANGED <<recorded, serverSeq, lineage, logCalls, issued>>
    BY <1>12 DEF ClientNext, construct, optOut, sdkVars
  <2>2. QED
    BY <2>1 DEF IdsDrawn, RemembersOwn, CarriesOwn, Own, OfChain
<1>13. QED
  BY <1>1, <1>2, <1>3, <1>4, <1>5, <1>6, <1>7, <1>8, <1>9, <1>10, <1>11, <1>12
     DEF SdkNext, LogNext, SdkSettles

\* What contexts remember and calls carry belongs to their context, whatever
\* overlaps, fails, is lost or erased (context.ts, index.ts log).
THEOREM SdkInvariant == SdkSpec => []SdkInv
  BY SdkInitInv, SdkStep, PTL DEF SdkSpec

\* A step of the SDK or the server is a step of the causal log, or leaves it alone.
LEMMA StepIsCausal ==
  ASSUME SdkInv, [SdkNext]_sdkVars
  PROVE  [Causal!Record \/ Causal!Erase]_recorded
<1>1. ASSUME NEW l \in logCalls, ServerRecords(l) PROVE Causal!Record
  <2> PICK id : id = serverSeq + 1
    OBVIOUS
  <2> DEFINE e == [id |-> id, parent |-> l.parent, chain |-> l.chain,
                   inferred |-> l.inferred, branch |-> l.branch]
  <2>1. recorded' = recorded \cup {e}
    BY <1>1 DEF ServerRecords
  <2>2. e.id \notin Causal!Ids(recorded)
    BY DEF SdkInv, SdkTypeOK, IdsDrawn, Event, Causal!Ids
  <2>3. ASSUME l.inferred, l.parent # None
        PROVE  \E f \in recorded : f.id = l.parent /\ f.chain = l.chain
    BY <1>1, <2>3 DEF ServerRecords, SdkInv, CarriesOwn, Own, OfChain
  <2>4. Causal!Continues(e)
    BY <2>2, <2>3 DEF Causal!Continues
  <2>5. e \notin recorded
    BY <2>2 DEF Causal!Ids
  <2>6. QED
    BY <2>1, <2>4, <2>5 DEF Causal!Record
<1>2. ASSUME NEW l \in logCalls, NEW gone \in SUBSET recorded, ServerErases(l, gone)
      PROVE  Causal!Erase
  BY <1>2 DEF ServerErases, Causal!Erase, Causal!Ids
<1>3. CASE ClientNext \/ UNCHANGED sdkVars
  BY <1>3 DEF ClientNext, construct, optOut, sdkVars
<1>4. ASSUME NEW l \in logCalls,
             \/ BodyArrives(l) \/ TimesOut(l) \/ ServerReads(l) \/ HeadArrives(l)
             \/ Denied(l) \/ ConnectionLost(l) \/ BodyStalls(l)
      PROVE  UNCHANGED recorded
  BY <1>4 DEF BodyArrives, TimesOut, ServerReads, HeadArrives, Denied, ConnectionLost,
              BodyStalls, Rejects
<1>5. ASSUME NEW c, NEW a, NEW p, log(c, a, p) \/ call(p) \/ fork(c) \/ endFork(c)
      PROVE  UNCHANGED recorded
  BY <1>5 DEF log, call, fork, endFork
<1>6. QED
  BY <1>1, <1>2, <1>3, <1>4, <1>5 DEF SdkNext, LogNext, SdkSettles

\* The SDK links an event by itself only to an event of the log that came through
\* the same context: with any number of contexts, calls, failures and erasures it
\* implements CausalLog (context.ts).
THEOREM LinksFollowContexts == SdkSpec => LinksAreCausal
<1>1. SdkInit => Causal!Init
  BY DEF SdkInit, Causal!Init
<1>2. SdkInv /\ [SdkNext]_sdkVars => [Causal!Record \/ Causal!Erase]_recorded
  BY StepIsCausal
<1>3. QED
  BY <1>1, <1>2, SdkInvariant, PTL DEF SdkSpec, LinksAreCausal, Causal!Spec

-----------------------------------------------------------------------------
(* Contexts whose logs are awaited one by one *)

\* Nothing happens in the context.
LEMMA AwaitsOn ==
  ASSUME NEW c, Awaited(c), CallsIn(c)' = CallsIn(c), Trunk(c)' = Trunk(c), lineage'[c] = lineage[c]
  PROVE  Awaited(c)'
<1>1. \A n : Tip(c, n)' <=> Tip(c, n)
  BY DEF Tip
<1>2. \A e : Follows(e, c)' <=> Follows(e, c)
  BY DEF Follows
<1>3. \A l \in CallsIn(c)' : OnTrunk(l, c)' <=> OnTrunk(l, c)
  BY DEF OnTrunk
<1>4. QED
  BY <1>1, <1>2, <1>3 DEF Awaited

\* What a call that moves on keeps.
LEMMA MovedFields ==
  ASSUME SdkTypeOK, NEW l \in logCalls, NEW phase, NEW id
  PROVE  LET m == [l EXCEPT !.phase = phase, !.id = id]
         IN  /\ m.op = l.op /\ m.ctx = l.ctx /\ m.agent = l.agent /\ m.chain = l.chain
             /\ m.parent = l.parent /\ m.inferred = l.inferred /\ m.branch = l.branch
             /\ m.phase = phase /\ m.id = id
  BY DEF SdkTypeOK, SdkCall

\* A call that moves on, or goes, belongs where it did.
LEMMA BelongOn ==
  ASSUME SdkTypeOK, AwaitedInv, NEW l \in logCalls, NEW phase, NEW id,
         logCalls' \subseteq Move(l, phase, id) \cup logCalls
  PROVE  /\ \A m \in logCalls' : BelongsOnce(m)
         /\ \A c : c # l.ctx /\ logCalls \ {l} \subseteq logCalls' => CallsIn(c)' = CallsIn(c)
<1> DEFINE m == [l EXCEPT !.phase = phase, !.id = id]
<1>1. /\ m.op = l.op /\ m.ctx = l.ctx /\ m.agent = l.agent /\ m.chain = l.chain
  BY MovedFields
<1>2. logCalls' \subseteq logCalls \cup {m}
  BY DEF Move
<1> HIDE DEF m
<1>3. BelongsOnce(m)
  BY <1>1 DEF AwaitedInv, BelongsOnce
<1>4. QED
  BY <1>1, <1>2, <1>3 DEF AwaitedInv, CallsIn

\* A call is made: no other is under way in its context, or the context is hasty.
LEMMA LogAwaits ==
  ASSUME SdkInv, AwaitedInv, NEW d \in Chain, NEW a, NEW p \in Id, log(d, a, p)
  PROVE  AwaitedInv'
<1> DEFINE l == [no |-> issued + 1, op |-> "log", ctx |-> d, agent |-> a,
                 chain |-> IF InContext(d, a) THEN d ELSE None,
                 parent |-> resolveParent(d, a, p), inferred |-> p = None,
                 branch |-> InContext(d, a) /\ lineage[d].fork # None,
                 phase |-> "sent", id |-> None]
<1>1. /\ logCalls' = logCalls \cup {l} /\ UNCHANGED <<recorded, lineage>>
      /\ hasty' = IF d # None /\ CallsOf(d) # {} THEN hasty \cup {d} ELSE hasty
  BY DEF log, Hurries
<1>2. /\ l.op = "log" /\ l.ctx = d /\ l.agent = a /\ l.phase = "sent"
      /\ l.chain = IF InContext(d, a) THEN d ELSE None
      /\ l.parent = resolveParent(d, a, p) /\ l.inferred = (p = None)
      /\ l.branch = (InContext(d, a) /\ lineage[d].fork # None)
  OBVIOUS
<1> HIDE DEF l
<1>3. BelongsOnce(l)
  BY <1>2 DEF BelongsOnce
<1>4. ASSUME NEW c \in Contexts \ hasty'
      PROVE  Awaited(c)'
  <2>1. Awaited(c) /\ c # None
    BY <1>1, <1>4, SdkAssumption DEF AwaitedInv
  <2>2. Trunk(c)' = Trunk(c)
    BY <1>1 DEF Trunk
  <2>3. CASE c # d
    <3>1. CallsIn(c)' = CallsIn(c)
      BY <1>1, <1>2, <2>3 DEF CallsIn
    <3>2. QED
      BY <1>1, <2>1, <2>2, <3>1, AwaitsOn
  <2>4. CASE c = d
    <3>1. CallsOf(c) = {}
      BY <1>1, <1>4, <2>1, <2>4
    <3>2. CallsIn(c) = {}
      BY <2>1, <3>1 DEF CallsIn, CallsOf, Awaited
    <3>3. CallsIn(c)' = {l}
      BY <1>1, <1>2, <2>4, <3>2 DEF CallsIn
    <3>4. Tip(c, lineage[c].last)
      BY <2>1, <3>2 DEF Awaited
    <3>5. \A n : Tip(c, n)' <=> Tip(c, n)
      BY <2>2 DEF Tip
    <3>6. \A e : Follows(e, c)' <=> Follows(e, c)
      BY <2>2 DEF Follows
    <3>7. l.chain = c => (l.branch <=> lineage[c].fork # None)
      BY <1>2, <2>1, <2>4
    <3>8. OnTrunk(l, c) /\ l.inferred => l.parent = lineage[c].last
      BY <1>2, <2>1, <2>4 DEF OnTrunk, resolveParent
    <3>9. QED
      BY <1>1, <1>2, <2>1, <2>2, <3>3, <3>4, <3>5, <3>6, <3>7, <3>8 DEF Awaited, OnTrunk, Answering
  <2>5. QED
    BY <2>3, <2>4
<1>5. QED
  BY <1>1, <1>3, <1>4 DEF AwaitedInv, IdsUnique

\* The other calls are made in no context.
LEMMA CallAwaits ==
  ASSUME SdkInv, AwaitedInv, NEW op \in {"read", "forget"}, call(op)
  PROVE  AwaitedInv'
<1> DEFINE l == [no |-> issued + 1, op |-> op,
                 ctx |-> None, agent |-> None, chain |-> None, parent |-> None,
                 inferred |-> FALSE, branch |-> FALSE, phase |-> "sent", id |-> None]
<1>1. logCalls' = logCalls \cup {l} /\ UNCHANGED <<recorded, lineage, hasty>>
  BY DEF call
<1>2. l.op = op /\ l.ctx = None /\ l.chain = None
  OBVIOUS
<1> HIDE DEF l
<1>3. BelongsOnce(l)
  BY <1>2 DEF BelongsOnce
<1>4. \A c \in Contexts : CallsIn(c)' = CallsIn(c) /\ Trunk(c)' = Trunk(c)
  BY <1>1, <1>2, SdkAssumption DEF CallsIn, Trunk
<1>5. QED
  BY <1>1, <1>3, <1>4, AwaitsOn DEF AwaitedInv, IdsUnique

\* A fork begins or ends with no call under way, or the context is hasty.
LEMMA ForkAwaits ==
  ASSUME SdkInv, AwaitedInv, NEW d \in Contexts, fork(d) \/ endFork(d)
  PROVE  AwaitedInv'
<1>1. /\ UNCHANGED <<recorded, logCalls>>
      /\ hasty' = IF d # None /\ CallsOf(d) # {} THEN hasty \cup {d} ELSE hasty
      /\ \A c \in Contexts \ {d} : lineage'[c] = lineage[c]
      /\ lineage'[d].last = lineage[d].last
  BY DEF fork, endFork, Hurries, SdkInv, SdkTypeOK
<1>2. ASSUME NEW c \in Contexts \ hasty'
      PROVE  Awaited(c)'
  <2>1. Awaited(c) /\ c # None
    BY <1>1, <1>2, SdkAssumption DEF AwaitedInv
  <2>2. Trunk(c)' = Trunk(c) /\ CallsIn(c)' = CallsIn(c)
    BY <1>1 DEF Trunk, CallsIn
  <2>3. CASE c # d
    BY <1>1, <2>1, <2>2, <2>3, AwaitsOn
  <2>4. CASE c = d
    <3>1. CallsIn(c) = {}
      <4>1. CallsOf(c) = {}
        BY <1>1, <1>2, <2>1, <2>4
      <4>2. QED
        BY <2>1, <4>1 DEF CallsIn, CallsOf, Awaited
    <3>2. \A n : Tip(c, n)' <=> Tip(c, n)
      BY <2>2 DEF Tip
    <3>3. \A e : Follows(e, c)' <=> Follows(e, c)
      BY <2>2 DEF Follows
    <3>4. QED
      BY <1>1, <2>1, <2>2, <2>4, <3>1, <3>2, <3>3 DEF Awaited
  <2>5. QED
    BY <2>3, <2>4
<1>3. QED
  BY <1>1, <1>2 DEF AwaitedInv, IdsUnique

\* The answer moves on, and brings no more than the server has recorded.
LEMMA AnswerAwaits ==
  ASSUME SdkInv, AwaitedInv, NEW l \in logCalls, NEW phase \in Phases \ {"sent", "abandoned"},
         l.phase \in {"handled", "reading"} \/ l.ctx = None,
         logCalls' = Move(l, phase, l.id), UNCHANGED <<recorded, lineage, hasty>>
  PROVE  AwaitedInv'
<1> DEFINE m == [l EXCEPT !.phase = phase, !.id = l.id]
<1>1. /\ m.op = l.op /\ m.ctx = l.ctx /\ m.agent = l.agent /\ m.chain = l.chain
      /\ m.parent = l.parent /\ m.inferred = l.inferred /\ m.branch = l.branch
      /\ m.phase = phase /\ m.id = l.id
  BY MovedFields DEF SdkInv
<1>2. logCalls' = (logCalls \ {l}) \cup {m}
  BY DEF Move
<1> HIDE DEF m
<1>3. /\ \A k \in logCalls' : BelongsOnce(k)
      /\ \A c : c # l.ctx => CallsIn(c)' = CallsIn(c)
  BY BelongOn DEF SdkInv, Move
<1>4. ASSUME NEW c \in Contexts \ hasty
      PROVE  Awaited(c)'
  <2>1. Awaited(c) /\ Trunk(c)' = Trunk(c) /\ c # None
    BY SdkAssumption DEF AwaitedInv, Trunk
  <2>2. CASE c # l.ctx
    BY <1>3, <2>1, <2>2, AwaitsOn
  <2>3. CASE c = l.ctx
    <3>1. CallsIn(c) = {l} /\ CallsIn(c)' = {m}
      BY <1>1, <1>2, <2>1, <2>3 DEF Awaited, CallsIn
    <3>2. \A n : Tip(c, n)' <=> Tip(c, n)
      BY <2>1 DEF Tip
    <3>3. \A e : Follows(e, c)' <=> Follows(e, c)
      BY <2>1 DEF Follows
    <3>4. l.phase \in {"handled", "reading"} /\ phase \in {"handled", "reading", "stalled"}
      BY <2>1, <2>3 DEF Phases
    <3>5. QED
      BY <1>1, <2>1, <3>1, <3>2, <3>3, <3>4 DEF Awaited, OnTrunk, Answering
  <2>4. QED
    BY <2>2, <2>3
<1>5. QED
  BY <1>3, <1>4 DEF AwaitedInv, IdsUnique

\* A call that fails makes its context hasty.
LEMMA RejectAwaits ==
  ASSUME SdkInv, AwaitedInv, NEW l \in logCalls, NEW left \in SUBSET {[l EXCEPT !.phase = "abandoned"]},
         Rejects(l, left)
  PROVE  AwaitedInv'
<1>1. /\ logCalls' = (logCalls \ {l}) \cup left /\ UNCHANGED <<recorded, lineage>>
      /\ hasty' = IF l.ctx = None THEN hasty ELSE hasty \cup {l.ctx}
  BY DEF Rejects
<1>2. [l EXCEPT !.phase = "abandoned"] = [l EXCEPT !.phase = "abandoned", !.id = l.id]
  BY DEF SdkInv, SdkTypeOK, SdkCall
<1>3. /\ \A k \in logCalls' : BelongsOnce(k)
      /\ \A c : c # l.ctx => CallsIn(c)' = CallsIn(c)
  BY <1>1, <1>2, BelongOn DEF SdkInv, Move
<1>4. ASSUME NEW c \in Contexts \ hasty'
      PROVE  Awaited(c)'
  <2>1. Awaited(c) /\ Trunk(c)' = Trunk(c) /\ c # l.ctx
    BY <1>1, SdkAssumption DEF AwaitedInv, Trunk
  <2>2. QED
    BY <1>1, <1>3, <2>1, AwaitsOn
<1>5. QED
  BY <1>1, <1>3, <1>4 DEF AwaitedInv, IdsUnique

\* A body that arrives brings its context to the end of the trunk.
LEMMA BodyAwaits ==
  ASSUME SdkInv, AwaitedInv, NEW l \in logCalls, BodyArrives(l)
  PROVE  AwaitedInv'
<1>1. /\ l.phase = "reading" /\ lineage' = recordLogResult(l.ctx, l.agent, l.id)
      /\ logCalls' = logCalls \ {l} /\ UNCHANGED <<recorded, hasty>>
  BY DEF BodyArrives
<1>2. /\ l.ctx \in Chain /\ lineage \in [Contexts -> [last : Id, fork : Id]]
      /\ BelongsOnce(l) /\ Own(l)
  BY DEF SdkInv, SdkTypeOK, SdkCall, AwaitedInv, CarriesOwn
<1>3. ASSUME NEW c \in Contexts \ hasty
      PROVE  Awaited(c)'
  <2>1. Awaited(c) /\ Trunk(c)' = Trunk(c) /\ c # None
    BY <1>1, SdkAssumption DEF AwaitedInv, Trunk
  <2>2. CASE c # l.ctx
    <3>1. CallsIn(c)' = CallsIn(c) /\ lineage'[c] = lineage[c]
      BY <1>1, <1>2, <2>2 DEF CallsIn, recordLogResult
    <3>2. QED
      BY <2>1, <3>1, AwaitsOn
  <2>3. CASE c = l.ctx
    <3>1. CallsIn(c) = {l} /\ CallsIn(c)' = {}
      BY <1>1, <2>1, <2>3 DEF Awaited, CallsIn
    <3>2. Tip(c, lineage'[c].last)
      <4>1. CASE InContext(l.ctx, l.agent) /\ lineage[c].fork = None
        <5>1. lineage'[c].last = l.id
          BY <1>1, <1>2, <2>3, <4>1 DEF recordLogResult
        <5>2. OnTrunk(l, c) /\ Answering(l)
          BY <1>1, <1>2, <2>1, <2>3, <3>1, <4>1 DEF Own, Awaited, OnTrunk, Answering
        <5>3. QED
          BY <2>1, <3>1, <5>1, <5>2 DEF Awaited
      <4>2. CASE ~(InContext(l.ctx, l.agent) /\ lineage[c].fork = None)
        <5>1. lineage'[c].last = lineage[c].last
          BY <1>1, <2>3, <4>2 DEF recordLogResult
        <5>2. ~OnTrunk(l, c)
          BY <1>2, <2>1, <2>3, <3>1, <4>2 DEF BelongsOnce, Awaited, OnTrunk
        <5>3. QED
          BY <2>1, <3>1, <5>1, <5>2 DEF Awaited
      <4>3. QED
        BY <4>1, <4>2
    <3>3. \A n : Tip(c, n)' <=> Tip(c, n)
      BY <2>1 DEF Tip
    <3>4. \A e : Follows(e, c)' <=> Follows(e, c)
      BY <2>1 DEF Follows
    <3>5. QED
      BY <2>1, <3>1, <3>2, <3>3, <3>4 DEF Awaited
  <2>4. QED
    BY <2>2, <2>3
<1>4. QED
  BY <1>1, <1>3 DEF AwaitedInv, IdsUnique

\* The event that is recorded is the newest, and ends the trunk if it is on it.
LEMMA RecordAwaits ==
  ASSUME SdkInv, AwaitedInv, NEW l \in logCalls, ServerRecords(l)
  PROVE  AwaitedInv'
<1> PICK id : id = serverSeq + 1
  OBVIOUS
<1> DEFINE e == [id |-> id, parent |-> l.parent, chain |-> l.chain,
                 inferred |-> l.inferred, branch |-> l.branch]
           m == [l EXCEPT !.phase = "handled", !.id = id]
<1>1. /\ recorded' = recorded \cup {e} /\ id \in Nat
      /\ logCalls' = IF l.phase = "sent" THEN (logCalls \ {l}) \cup {m} ELSE logCalls \ {l}
      /\ l.phase \in {"sent", "abandoned"} /\ UNCHANGED <<lineage, hasty>>
  BY DEF ServerRecords, Handled, Move, SdkInv, SdkTypeOK
<1>2. /\ e.id = id /\ e.parent = l.parent /\ e.chain = l.chain
      /\ e.inferred = l.inferred /\ e.branch = l.branch
  OBVIOUS
<1>3. \A f \in recorded : f.id \in Nat /\ f.id < id
  BY DEF SdkInv, SdkTypeOK, IdsDrawn, Event
<1>4. /\ m.op = l.op /\ m.ctx = l.ctx /\ m.agent = l.agent /\ m.chain = l.chain
      /\ m.parent = l.parent /\ m.inferred = l.inferred /\ m.branch = l.branch
      /\ m.phase = "handled" /\ m.id = id
  BY MovedFields DEF SdkInv
<1>5. /\ \A k \in logCalls' : BelongsOnce(k)
      /\ \A c : c # l.ctx => CallsIn(c)' = CallsIn(c)
  BY <1>1, BelongOn DEF SdkInv, Move
<1> HIDE DEF e, m
<1>6. IdsUnique'
  BY <1>1, <1>2, <1>3 DEF AwaitedInv, IdsUnique
<1>7. ASSUME NEW c \in Contexts \ hasty
      PROVE  Awaited(c)'
  <2>1. Awaited(c) /\ c # None
    BY SdkAssumption DEF AwaitedInv
  <2>2. Trunk(c)' = IF OnTrunk(l, c) THEN Trunk(c) \cup {e} ELSE Trunk(c)
    BY <1>1, <1>2 DEF Trunk, OnTrunk
  <2>3. OnTrunk(l, c) => l.ctx = c
    BY <2>1 DEF OnTrunk, AwaitedInv, BelongsOnce
  <2>4. CASE c # l.ctx
    <3>1. Trunk(c)' = Trunk(c) /\ CallsIn(c)' = CallsIn(c)
      BY <1>5, <2>2, <2>3, <2>4
    <3>2. QED
      BY <1>1, <2>1, <3>1, AwaitsOn
  <2>5. CASE c = l.ctx
    <3>1. CallsIn(c) = {l} /\ l.phase = "sent"
      BY <1>1, <2>1, <2>5 DEF Awaited, CallsIn
    <3>2. CallsIn(c)' = {m}
      BY <1>1, <1>4, <2>5, <3>1 DEF CallsIn
    <3>3. Tip(c, lineage[c].last)
      BY <2>1, <3>1 DEF Awaited, Answering
    <3>4. CASE ~OnTrunk(l, c)
      <4>1. Trunk(c)' = Trunk(c)
        BY <2>2, <3>4
      <4>2. \A n : Tip(c, n)' <=> Tip(c, n)
        BY <4>1 DEF Tip
      <4>3. \A f : Follows(f, c)' <=> Follows(f, c)
        BY <4>1 DEF Follows
      <4>4. QED
        BY <1>1, <1>4, <2>1, <3>1, <3>2, <3>3, <3>4, <4>1, <4>2, <4>3 DEF Awaited, OnTrunk
    <3>5. CASE OnTrunk(l, c)
      <4>1. Trunk(c)' = Trunk(c) \cup {e} /\ Trunk(c) \subseteq recorded
        BY <2>2, <3>5 DEF Trunk
      <4>2. Tip(c, id)'
        BY <1>1, <1>2, <1>3, <4>1 DEF Tip
      <4>3. ASSUME NEW f \in Trunk(c)', f.inferred
            PROVE  Follows(f, c)'
        <5>1. CASE f \in Trunk(c)
          <6>1. {g \in Trunk(c)' : g.id < f.id} = {g \in Trunk(c) : g.id < f.id}
            BY <1>2, <1>3, <4>1, <5>1
          <6>2. Follows(f, c)
            BY <2>1, <4>3, <5>1 DEF Awaited
          <6>3. QED
            BY <6>1, <6>2 DEF Follows
        <5>2. CASE f = e
          <6>1. {g \in Trunk(c)' : g.id < e.id} = Trunk(c)
            BY <1>1, <1>2, <1>3, <4>1
          <6>2. e.parent = lineage[c].last
            BY <1>2, <2>1, <3>1, <3>5, <4>3, <5>2 DEF Awaited
          <6>3. QED
            BY <3>3, <5>2, <6>1, <6>2 DEF Follows, Tip
        <5>3. QED
          BY <4>1, <4>3, <5>1, <5>2
      <4>4. m.chain = c => (m.branch <=> lineage'[c].fork # None)
        BY <1>1, <1>4, <2>1, <3>1 DEF Awaited
      <4>5. OnTrunk(m, c) /\ Answering(m)
        BY <1>4, <3>5 DEF OnTrunk, Answering
      <4>6. QED
        BY <1>4, <3>2, <4>2, <4>3, <4>4, <4>5 DEF Awaited, OnTrunk, Answering
    <3>6. QED
      BY <3>4, <3>5
  <2>6. QED
    BY <2>4, <2>5
<1>8. QED
  BY <1>1, <1>5, <1>6, <1>7 DEF AwaitedInv

\* An erasure makes the contexts it takes events of hasty, and leaves the links within
\* the trunk of any other.
LEMMA EraseAwaits ==
  ASSUME SdkInv, AwaitedInv, NEW l \in logCalls, NEW gone \in SUBSET recorded, ServerErases(l, gone)
  PROVE  AwaitedInv'
<1> DEFINE Left(e) == [e EXCEPT !.parent = IF @ \in {g.id : g \in gone} THEN None ELSE @]
<1>1. /\ recorded' = {Left(e) : e \in recorded \ gone}
      /\ hasty' = hasty \cup ({e.chain : e \in gone} \ {None})
      /\ logCalls' = Handled(l, None) /\ UNCHANGED lineage
      /\ l.op = "forget"
  BY DEF ServerErases
<1>2. \A e \in recorded :
         /\ Left(e).id = e.id /\ Left(e).chain = e.chain /\ Left(e).inferred = e.inferred
         /\ Left(e).branch = e.branch
         /\ Left(e).parent = IF e.parent \in {g.id : g \in gone} THEN None ELSE e.parent
         /\ e.id \in Nat
  BY DEF SdkInv, SdkTypeOK, Event
<1> HIDE DEF Left
<1>3. l.ctx = None
  BY <1>1 DEF AwaitedInv, BelongsOnce
<1>4. /\ \A k \in logCalls' : BelongsOnce(k)
      /\ \A c : c # None => CallsIn(c)' = CallsIn(c)
  <2>1. logCalls' \subseteq Move(l, "handled", None) \cup logCalls /\ logCalls \ {l} \subseteq logCalls'
    BY <1>1 DEF Handled, Move
  <2>2. QED
    BY <1>3, <2>1, BelongOn DEF SdkInv
<1>5. IdsUnique'
  BY <1>1, <1>2 DEF AwaitedInv, IdsUnique
<1>6. ASSUME NEW c \in Contexts \ hasty'
      PROVE  Awaited(c)'
  <2>1. Awaited(c) /\ c # None
    BY <1>1, SdkAssumption DEF AwaitedInv
  <2>2. \A e \in gone : e.chain # c
    BY <1>1, <2>1, <1>6
  <2>3. Trunk(c)' = {Left(e) : e \in Trunk(c)}
    BY <1>1, <1>2, <2>2 DEF Trunk
  <2>4. Trunk(c) \subseteq recorded
    BY DEF Trunk
  <2>5. \A n : Tip(c, n)' <=> Tip(c, n)
    BY <1>2, <2>3, <2>4 DEF Tip
  <2>6. ASSUME NEW f \in Trunk(c)', f.inferred
        PROVE  Follows(f, c)'
    <3>1. PICK e \in Trunk(c) : f = Left(e)
      BY <2>3
    <3>2. f.id = e.id /\ e.inferred
      BY <1>2, <2>4, <2>6, <3>1
    <3>3. {h.id : h \in {g \in Trunk(c)' : g.id < f.id}} = {h.id : h \in {g \in Trunk(c) : g.id < e.id}}
      BY <1>2, <2>3, <2>4, <3>2
    <3>4. Follows(e, c)
      BY <2>1, <3>2 DEF Awaited
    <3>5. f.parent = e.parent
      <4>1. CASE e.parent = None
        BY <1>2, <2>4, <3>1, <4>1
      <4>2. CASE e.parent # None
        <5>1. PICK g \in Trunk(c) : e.parent = g.id
          BY <3>4, <4>2 DEF Follows
        <5>2. g.chain = c /\ g \in recorded
          BY <5>1 DEF Trunk
        <5>3. \A h \in gone : h.id # e.parent
          BY <2>2, <5>1, <5>2 DEF AwaitedInv, IdsUnique
        <5>4. QED
          BY <1>2, <2>4, <3>1, <5>3
      <4>3. QED
        BY <4>1, <4>2
    <3>6. QED
      BY <3>3, <3>4, <3>5 DEF Follows
  <2>7. QED
    BY <1>1, <1>4, <2>1, <2>5, <2>6 DEF Awaited, OnTrunk
<1>7. QED
  BY <1>4, <1>5, <1>6 DEF AwaitedInv

LEMMA InitAwaits == ASSUME SdkInit PROVE AwaitedInv
  BY DEF SdkInit, AwaitedInv, IdsUnique, Awaited, CallsIn, Trunk, Tip

LEMMA StepAwaits == ASSUME SdkInv, AwaitedInv, [SdkNext]_sdkVars PROVE AwaitedInv'
<1>1. ASSUME NEW c \in Contexts, NEW a \in Agents, NEW p \in Named \cup {None}, log(c, a, p)
      PROVE  AwaitedInv'
  BY <1>1, LogAwaits DEF Named, Event, Id, Chain, SdkInv, SdkTypeOK
<1>2. ASSUME NEW p \in Named \cup {None}, log(None, None, p) PROVE AwaitedInv'
  BY <1>2, LogAwaits DEF Named, Event, Id, Chain, SdkInv, SdkTypeOK
<1>3. ASSUME NEW method \in Methods, call(opOf(method)) PROVE AwaitedInv'
  BY <1>3, CallAwaits, opOf(method) \in {"read", "forget"} DEF opOf
<1>4. ASSUME NEW c \in Contexts, fork(c) \/ endFork(c) PROVE AwaitedInv'
  BY <1>4, ForkAwaits
<1>5. ASSUME NEW l \in logCalls, BodyArrives(l) PROVE AwaitedInv'
  BY <1>5, BodyAwaits
<1>6. ASSUME NEW l \in logCalls, ServerRecords(l) PROVE AwaitedInv'
  BY <1>6, RecordAwaits
<1>7. ASSUME NEW l \in logCalls, NEW gone \in SUBSET recorded, ServerErases(l, gone)
      PROVE  AwaitedInv'
  BY <1>7, EraseAwaits
<1>8. ASSUME NEW l \in logCalls, HeadArrives(l) \/ BodyStalls(l) PROVE AwaitedInv'
  BY <1>8, AnswerAwaits DEF HeadArrives, BodyStalls, Phases
<1>9. ASSUME NEW l \in logCalls, ServerReads(l) PROVE AwaitedInv'
  <2>1. l.phase = "sent" /\ l.ctx = None /\ logCalls' = Move(l, "handled", None)
        /\ UNCHANGED <<recorded, lineage, hasty>>
    BY <1>9 DEF ServerReads, Handled, AwaitedInv, BelongsOnce
  <2>2. \A k \in logCalls' : BelongsOnce(k)
    BY <2>1, BelongOn DEF SdkInv
  <2>3. \A c : c # None => CallsIn(c)' = CallsIn(c)
    BY <2>1, BelongOn DEF SdkInv, Move
  <2>4. QED
    BY <2>1, <2>2, <2>3, AwaitsOn, SdkAssumption DEF AwaitedInv, IdsUnique, Trunk
<1>10. ASSUME NEW l \in logCalls, TimesOut(l) \/ Denied(l) \/ ConnectionLost(l) PROVE AwaitedInv'
  <2>1. PICK left \in SUBSET {[l EXCEPT !.phase = "abandoned"]} : Rejects(l, left)
    BY <1>10 DEF TimesOut, Denied, ConnectionLost
  <2>2. QED
    BY <2>1, RejectAwaits
<1>11. CASE ClientNext \/ UNCHANGED sdkVars
  <2>1. UNCHANGED <<recorded, lineage, logCalls, hasty>>
    BY <1>11 DEF ClientNext, construct, optOut, sdkVars
  <2>2. QED
    BY <2>1, AwaitsOn DEF AwaitedInv, BelongsOnce, IdsUnique, CallsIn, Trunk
<1>12. QED
  BY <1>1, <1>2, <1>3, <1>4, <1>5, <1>6, <1>7, <1>8, <1>9, <1>10, <1>11
     DEF SdkNext, LogNext, SdkSettles

\* If the logs of a context are awaited one by one, none fails and nothing of it is erased,
\* its trunk is one chain in the order of logging, and the next event will continue its
\* end, whatever other contexts do and whatever is erased elsewhere (context.ts).
THEOREM AwaitedLogsChain == SdkSpec => []AwaitedLogsFormAChain
<1>1. SdkInit => SdkInv /\ AwaitedInv
  BY SdkInitInv, InitAwaits
<1>2. SdkInv /\ AwaitedInv /\ [SdkNext]_sdkVars => (SdkInv /\ AwaitedInv)'
  BY SdkStep, StepAwaits
<1>3. AwaitedInv => AwaitedLogsFormAChain
  <2> SUFFICES ASSUME AwaitedInv, NEW c \in Contexts \ hasty
               PROVE  /\ \A e \in Trunk(c) : e.inferred => Follows(e, c)
                      /\ CallsOf(c) = {} => Tip(c, lineage[c].last)
    BY DEF AwaitedLogsFormAChain, Follows, Tip
  <2>1. Awaited(c)
    BY DEF AwaitedInv
  <2>2. CallsIn(c) = CallsOf(c)
    BY <2>1 DEF CallsIn, CallsOf, Awaited
  <2>3. QED
    BY <2>1, <2>2 DEF Awaited
<1>4. QED
  BY <1>1, <1>2, <1>3, PTL DEF SdkSpec
=============================================================================
