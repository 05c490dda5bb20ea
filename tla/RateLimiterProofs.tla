-------------------------- MODULE RateLimiterProofs ---------------------------
(***************************************************************************)
(* Proofs about RateLimiter, for every number of callers and workers,      *)
(* every limit and window, and any failures of Redis: how far a limiter    *)
(* that has its key for itself can be overshot.                            *)
(***************************************************************************)
EXTENDS RateLimiter, FiniteSetTheorems, SequenceTheorems, TLAPS

-----------------------------------------------------------------------------
(* The inductive invariant *)

\* No two limiters count under one key.
KeysApart == \A l, m \in Limiters : KeyOf[l] = KeyOf[m] => l = m

Hit == [no : Nat, at : Nat]

Check == [step : {"none", "prune", "count", "add", "expire"}, left : Seq(Limiters),
          cutoff : Int \cup {None}, hit : Hit \cup {None}]

Pass == [no : Nat, at : Nat, limiter : Limiters, by : Workers \cup {"redis"}]

LimiterTypeOK ==
    /\ clock \in Nat
    /\ zset \in [Keys -> SUBSET Hit]
    /\ \A k \in Keys : IsFiniteSet(zset[k])
    /\ ttl \in [Keys -> Nat \cup {None}]
    /\ memory \in [Workers -> [Keys -> SUBSET Hit]]
    /\ \A w \in Workers, k \in Keys : IsFiniteSet(memory[w][k])
    /\ checking \in [Callers -> Check]
    /\ passed \subseteq Pass
    /\ drawn \in Nat

\* What a caller has taken with it over an await is not of the future.
CallsInStep ==
    \A c \in Callers :
       /\ checking[c].step # "none" => checking[c].left # <<>>
       /\ checking[c].step = "prune" =>
             checking[c].cutoff \in Int /\ checking[c].cutoff + Window[LimiterOf(c)] <= clock
       /\ checking[c].step \in {"add", "expire"} =>
             checking[c].hit \in Hit /\ checking[c].hit.at <= clock

PassedPast == \A p \in passed : p.at <= clock

At(step, l) == {c \in Callers : checking[c].step = step /\ LimiterOf(c) = l}

\* A set holds less than the limit when it is counted; then come those that counted.
Crowd ==
    \A l \in Limiters :
       Cardinality(zset[KeyOf[l]]) + Cardinality(At("add", l))
         <= Limit[l] - 1 + Cardinality(Callers)

HitOf(p) == [no |-> p.no, at |-> p.at]

PassedBy(l, by) == {p \in passed : p.limiter = l /\ p.by = by}

\* A key outlives the window of the hits whose EXPIRE has been done, and, but for
\* that of a hit still in the set, of those whose EXPIRE has not.
Outlives(l) ==
    LET until == ttl[KeyOf[l]]
    IN  until # None =>
          /\ clock < until /\ until <= clock + Window[l]
          /\ \A p \in PassedBy(l, "redis") : p.at + Window[l] <= until
          /\ \A c \in At("expire", l) :
                checking[c].hit \in zset[KeyOf[l]] \/ checking[c].hit.at + Window[l] <= until

Outlived == \A l \in Limiters : Outlives(l)

\* Hits within the window that were added and have gone.
Lost(l) ==
    {h \in {HitOf(p) : p \in PassedBy(l, "redis")} \cup {checking[c].hit : c \in At("expire", l)} :
       h.at > clock - Window[l] /\ h \notin zset[KeyOf[l]]}

\* All of them went with the key the last time, between their ZADD and their EXPIRE.
LossBounded ==
    \A l \in Limiters :
       IsFiniteSet(Lost(l)) /\ Cardinality(Lost(l)) <= Cardinality(Callers)

\* The memory of a worker holds what it let through.
MemoryExact ==
    \A w \in Workers, l \in Limiters :
       /\ Cardinality(memory[w][KeyOf[l]]) <= Limit[l]
       /\ \A p \in PassedBy(l, w) :
             p.at > clock - Window[l] => HitOf(p) \in memory[w][KeyOf[l]]

LimiterInv ==
    LimiterTypeOK /\ CallsInStep /\ PassedPast /\ Crowd /\ Outlived /\ LossBounded /\ MemoryExact

-----------------------------------------------------------------------------
(* Lemmas *)

\* The keys of limiters are keys, workers are not Redis, and callers are counted.
LEMMA Basic ==
  /\ \A l \in Limiters : /\ KeyOf[l] \in Keys
                         /\ Limit[l] \in Nat /\ Limit[l] > 0
                         /\ Window[l] \in Nat /\ Window[l] > 0
  /\ \A c \in Callers : WorkerOf[c] \in Workers
  /\ Cardinality(Callers) \in Nat
  BY RateLimiterAssumption, FS_CardinalityType DEF Keys, Workers

\* Nothing has been asked yet.
LEMMA LimiterInitInv == LimiterInit => LimiterInv
<1> SUFFICES ASSUME LimiterInit PROVE LimiterInv
  OBVIOUS
<1> USE RateLimiterAssumption, Basic, FS_EmptySet DEF LimiterInit
<1>1. NotChecking \in Check
  BY DEF NotChecking, Check
<1>2. \A c \in Callers : checking[c].step = "none"
  BY DEF NotChecking
<1>3. LimiterTypeOK
  BY <1>1 DEF LimiterTypeOK
<1>4. CallsInStep
  BY <1>2 DEF CallsInStep
<1>11. PassedPast
  BY DEF PassedPast
<1>5. \A l \in Limiters, step \in {"add", "expire"} : At(step, l) = {}
  BY <1>2 DEF At
<1>6. Crowd
  <2> SUFFICES ASSUME NEW l \in Limiters
               PROVE  Cardinality(zset[KeyOf[l]]) + Cardinality(At("add", l))
                        <= Limit[l] - 1 + Cardinality(Callers)
    BY DEF Crowd
  <2>1. Cardinality(zset[KeyOf[l]]) = 0 /\ Cardinality(At("add", l)) = 0
    <3>1. zset[KeyOf[l]] = {} /\ At("add", l) = {}
      BY <1>5
    <3>2. QED
      BY <3>1
  <2>2. Limit[l] \in Nat /\ Limit[l] > 0 /\ Cardinality(Callers) \in Nat
    OBVIOUS
  <2>3. QED
    BY ONLY <2>1, <2>2
<1>7. Outlived
  BY DEF Outlived, Outlives
<1>8. LossBounded
  <2>1. \A l \in Limiters : Lost(l) = {}
    BY <1>5 DEF Lost, PassedBy
  <2>2. 0 <= Cardinality(Callers)
    OBVIOUS
  <2>3. QED
    BY <2>1, <2>2 DEF LossBounded
<1>9. MemoryExact
  BY DEF MemoryExact, PassedBy
<1>10. QED
  BY <1>3, <1>4, <1>11, <1>6, <1>7, <1>8, <1>9 DEF LimiterInv

\* The limiter a caller is at, and what is left of its route.
LEMMA HeadOfRoute ==
  ASSUME LimiterTypeOK, CallsInStep, NEW c \in Callers, checking[c].step # "none"
  PROVE  /\ LimiterOf(c) \in Limiters
         /\ KeyFor(c) = KeyOf[LimiterOf(c)] /\ KeyFor(c) \in Keys
         /\ Tail(checking[c].left) \in Seq(Limiters)
  BY HeadTailProperties, Basic DEF LimiterTypeOK, CallsInStep, Check, LimiterOf, KeyFor

\* A check begins with its cutoff.
LEMMA StartIsCheck ==
  ASSUME LimiterTypeOK, NEW left \in Seq(Limiters)
  PROVE  /\ Start(left) \in Check
         /\ Start(left).step \in {"none", "prune"}
         /\ Start(left).step = "prune" =>
              /\ Start(left).left # <<>>
              /\ Start(left).cutoff \in Int
              /\ Start(left).cutoff + Window[Head(Start(left).left)] <= clock
<1>1. CASE left = <<>>
  BY <1>1 DEF Start, NotChecking, Check
<1>2. CASE left # <<>>
  <2>1. Head(left) \in Limiters
    BY <1>2, HeadTailProperties
  <2>2. clock - Window[Head(left)] \in Int
        /\ (clock - Window[Head(left)]) + Window[Head(left)] <= clock
    BY <2>1, Basic DEF LimiterTypeOK
  <2>3. QED
    BY <1>2, <2>2 DEF Start, Check
<1>3. QED
  BY <1>1, <1>2

\* A set that does not grow, and callers that do not come, crowd no key.
LEMMA CrowdKept ==
  ASSUME LimiterInv, NEW l \in Limiters,
         zset'[KeyOf[l]] \subseteq zset[KeyOf[l]], At("add", l)' \subseteq At("add", l)
  PROVE  Cardinality(zset'[KeyOf[l]]) + Cardinality(At("add", l)')
           <= Limit[l] - 1 + Cardinality(Callers)
<1>1. IsFiniteSet(zset[KeyOf[l]]) /\ IsFiniteSet(At("add", l))
  BY Basic, RateLimiterAssumption, FS_Subset DEF LimiterInv, LimiterTypeOK, At
<1>2. /\ Cardinality(zset'[KeyOf[l]]) <= Cardinality(zset[KeyOf[l]])
      /\ Cardinality(At("add", l)') <= Cardinality(At("add", l))
      /\ IsFiniteSet(zset'[KeyOf[l]]) /\ IsFiniteSet(At("add", l)')
  BY <1>1, FS_Subset
<1>3. QED
  BY <1>1, <1>2, Basic, FS_CardinalityType DEF LimiterInv, Crowd

\* What is lost does not grow.
LEMMA LossKept ==
  ASSUME LimiterInv, \A l \in Limiters : Lost(l)' \subseteq Lost(l)
  PROVE  LossBounded'
<1> SUFFICES ASSUME NEW l \in Limiters
             PROVE  IsFiniteSet(Lost(l)') /\ Cardinality(Lost(l)') <= Cardinality(Callers)
  BY DEF LossBounded
<1>1. IsFiniteSet(Lost(l)) /\ Cardinality(Lost(l)) <= Cardinality(Callers)
  BY DEF LimiterInv, LossBounded
<1>2. IsFiniteSet(Lost(l)') /\ Cardinality(Lost(l)') <= Cardinality(Lost(l))
  BY <1>1, FS_Subset
<1>3. QED
  BY <1>1, <1>2, Basic, FS_CardinalityType

\* Caller c is where r says, and the others are where they were.
Moved(c, r) ==
    /\ checking' \in [Callers -> Check]
    /\ checking'[c] = r
    /\ \A d \in Callers : d # c => checking'[d] = checking[d]
    /\ \A step, l : r.step # step => At(step, l)' = At(step, l) \ {c}

\* It is in the step of r now, at the limiter it was at.
GoneOn(c, r) ==
    /\ LimiterOf(c)' = LimiterOf(c)
    /\ \A l : l # LimiterOf(c) => At(r.step, l)' = At(r.step, l)
    /\ At(r.step, LimiterOf(c))' = At(r.step, LimiterOf(c)) \cup {c}

\* A caller that goes on, or away, leaves the others where they are.
LEMMA CallerMoves ==
  ASSUME LimiterInv, NEW c \in Callers, NEW r \in Check, checking' = [checking EXCEPT ![c] = r]
  PROVE  Moved(c, r)
<1>1. /\ checking' \in [Callers -> Check]
      /\ checking'[c] = r
      /\ \A d \in Callers : d # c => checking'[d] = checking[d]
  BY DEF LimiterInv, LimiterTypeOK
<1>2. \A step, l : r.step # step => At(step, l)' = At(step, l) \ {c}
  BY <1>1 DEF At, LimiterOf
<1>3. QED
  BY <1>1, <1>2 DEF Moved

\* A caller that begins a check, or ends its request, keeps what was so of the others.
LEMMA CallerStarts ==
  ASSUME LimiterInv, NEW c \in Callers, NEW left \in Seq(Limiters), UNCHANGED clock,
         \/ checking' = [checking EXCEPT ![c] = Start(left)]
         \/ checking' = [checking EXCEPT ![c] = NotChecking]
  PROVE  /\ checking' \in [Callers -> Check]
         /\ CallsInStep'
         /\ \A step \in {"add", "expire"}, l \in Limiters :
              /\ At(step, l)' = At(step, l) \ {c}
              /\ \A d \in At(step, l)' : checking'[d].hit = checking[d].hit
<1>1. PICK r : /\ checking' = [checking EXCEPT ![c] = r]
               /\ r \in Check /\ r.step \in {"none", "prune"}
               /\ r.step = "prune" =>
                    /\ r.left # <<>>
                    /\ r.cutoff \in Int
                    /\ r.cutoff + Window[Head(r.left)] <= clock
  <2>1. CASE checking' = [checking EXCEPT ![c] = Start(left)]
    BY <2>1, StartIsCheck DEF LimiterInv
  <2>2. CASE checking' = [checking EXCEPT ![c] = NotChecking]
    <3>1. NotChecking \in Check /\ NotChecking.step = "none"
      BY DEF NotChecking, Check
    <3>2. QED
      BY <2>2, <3>1
  <2>3. QED
    BY <2>1, <2>2
<1>2. Moved(c, r)
  BY <1>1, CallerMoves
<1> USE DEF Moved
<1>3. CallsInStep'
  BY <1>1, <1>2 DEF LimiterInv, CallsInStep, LimiterOf
<1>4. ASSUME NEW step \in {"add", "expire"}, NEW l \in Limiters
      PROVE  At(step, l)' = At(step, l) \ {c}
  BY <1>1, <1>2
<1>5. ASSUME NEW step \in {"add", "expire"}, NEW l \in Limiters, NEW d \in At(step, l)'
      PROVE  checking'[d].hit = checking[d].hit
  <2>1. d \in Callers /\ d # c
    BY <1>4, <1>5 DEF At
  <2>2. QED
    BY <2>1, <1>2
<1>6. QED
  BY <1>2, <1>3, <1>4, <1>5

\* If ttl stands still and no hit in the window goes, a key outlives what it did.
LEMMA OutlivedKept ==
  ASSUME LimiterInv, NEW l \in Limiters, UNCHANGED clock,
         ttl'[KeyOf[l]] \in {ttl[KeyOf[l]], None},
         \A h \in zset[KeyOf[l]] \ zset'[KeyOf[l]] : h.at + Window[l] <= clock,
         PassedBy(l, "redis")' \subseteq PassedBy(l, "redis"),
         At("expire", l)' \subseteq At("expire", l),
         \A c \in At("expire", l)' : checking'[c].hit = checking[c].hit
  PROVE  Outlives(l)'
<1> SUFFICES ASSUME ttl'[KeyOf[l]] # None
             PROVE  /\ clock' < ttl'[KeyOf[l]] /\ ttl'[KeyOf[l]] <= clock' + Window[l]
                    /\ \A p \in PassedBy(l, "redis")' : p.at + Window[l] <= ttl'[KeyOf[l]]
                    /\ \A c \in At("expire", l)' :
                          \/ checking'[c].hit \in zset'[KeyOf[l]]
                          \/ checking'[c].hit.at + Window[l] <= ttl'[KeyOf[l]]
  BY DEF Outlives
<1>1. PICK until \in Nat : ttl[KeyOf[l]] = until /\ ttl'[KeyOf[l]] = until
  BY Basic DEF LimiterInv, LimiterTypeOK
<1>2. /\ clock < until /\ until <= clock + Window[l]
      /\ \A p \in PassedBy(l, "redis") : p.at + Window[l] <= until
      /\ \A c \in At("expire", l) :
            checking[c].hit \in zset[KeyOf[l]] \/ checking[c].hit.at + Window[l] <= until
  BY <1>1, Basic, RateLimiterAssumption DEF LimiterInv, Outlived, Outlives
<1>3. \A h \in zset[KeyOf[l]] \ zset'[KeyOf[l]] : h.at + Window[l] <= until
  <2>1. \A h \in zset[KeyOf[l]] : h.at \in Nat
    BY Basic DEF LimiterInv, LimiterTypeOK, Hit
  <2>2. clock \in Nat /\ Window[l] \in Nat
    BY Basic DEF LimiterInv, LimiterTypeOK
  <2>3. QED
    BY <1>2, <2>1, <2>2
<1>4. QED
  BY <1>1, <1>2, <1>3

\* If no more hits are of the past, memory that stands still is as exact.
LEMMA MemoryKept ==
  ASSUME LimiterInv, UNCHANGED memory, clock <= clock', clock' \in Nat,
         \A w \in Workers, l \in Limiters : PassedBy(l, w)' \subseteq PassedBy(l, w)
  PROVE  MemoryExact'
<1> SUFFICES ASSUME NEW w \in Workers, NEW l \in Limiters
             PROVE  /\ Cardinality(memory'[w][KeyOf[l]]) <= Limit[l]
                    /\ \A p \in PassedBy(l, w)' :
                          p.at > clock' - Window[l] => HitOf(p) \in memory'[w][KeyOf[l]]
  BY DEF MemoryExact
<1>1. \A p \in PassedBy(l, w)' : p \in PassedBy(l, w) /\ p.at \in Nat
  BY DEF LimiterInv, LimiterTypeOK, PassedBy, Pass
<1>2. QED
  BY <1>1, Basic DEF LimiterInv, LimiterTypeOK, MemoryExact

\* After an EXPIRE a key outlives every hit there is.
LEMMA OutlivedAnew ==
  ASSUME LimiterTypeOK', CallsInStep', PassedPast', NEW l \in Limiters,
         ttl'[KeyOf[l]] \in {None, clock' + Window[l]}
  PROVE  Outlives(l)'
<1>1. clock' \in Nat /\ Window[l] \in Nat /\ Window[l] > 0
  BY Basic DEF LimiterTypeOK
<1>2. \A p \in PassedBy(l, "redis")' : p.at \in Nat /\ p.at <= clock'
  BY DEF LimiterTypeOK, PassedPast, PassedBy, Pass
<1>3. \A c \in At("expire", l)' : checking'[c].hit.at \in Nat /\ checking'[c].hit.at <= clock'
  BY DEF LimiterTypeOK, CallsInStep, At, Hit
<1>4. QED
  BY <1>1, <1>2, <1>3 DEF Outlives

\* If no hit in the window goes and none is passed or added, no more is lost.
LEMMA LostShrinks ==
  ASSUME LimiterInv, NEW l \in Limiters, UNCHANGED clock,
         \A h \in zset[KeyOf[l]] \ zset'[KeyOf[l]] : h.at + Window[l] <= clock,
         PassedBy(l, "redis")' \subseteq PassedBy(l, "redis"),
         At("expire", l)' \subseteq At("expire", l),
         \A c \in At("expire", l)' : checking'[c].hit = checking[c].hit
  PROVE  Lost(l)' \subseteq Lost(l)
<1> SUFFICES ASSUME NEW h \in Lost(l)'
             PROVE  h \in Lost(l)
  OBVIOUS
<1>1. /\ h \in {HitOf(p) : p \in PassedBy(l, "redis")} \cup {checking[c].hit : c \in At("expire", l)}
      /\ h.at > clock - Window[l]
      /\ h \notin zset'[KeyOf[l]]
  BY DEF Lost
<1>2. ASSUME h \in zset[KeyOf[l]] PROVE FALSE
  <2>1. h.at + Window[l] <= clock
    BY <1>1, <1>2
  <2>2. h.at \in Nat /\ clock \in Nat /\ Window[l] \in Nat
    BY <1>2, Basic DEF LimiterInv, LimiterTypeOK, Hit
  <2>3. QED
    BY <1>1, <2>1, <2>2
<1>3. QED
  BY <1>1, <1>2 DEF Lost

\* A caller that goes on in its check is at its limiter, in another step.
LEMMA CallerGoesOn ==
  ASSUME LimiterInv, NEW c \in Callers, NEW r \in Check, r.left = checking[c].left,
         checking' = [checking EXCEPT ![c] = r]
  PROVE  Moved(c, r) /\ GoneOn(c, r)
<1>1. Moved(c, r)
  BY CallerMoves
<1> USE DEF Moved
<1>2. LimiterOf(c)' = LimiterOf(c)
  BY <1>1 DEF LimiterOf
<1>3. \A d \in Callers : d # c => LimiterOf(d)' = LimiterOf(d)
  BY <1>1 DEF LimiterOf
<1>4. \A l : l # LimiterOf(c) => At(r.step, l)' = At(r.step, l)
  BY <1>1, <1>2, <1>3 DEF At
<1>5. At(r.step, LimiterOf(c))' = At(r.step, LimiterOf(c)) \cup {c}
  BY <1>1, <1>2, <1>3 DEF At
<1>6. QED
  BY <1>1, <1>2, <1>4, <1>5 DEF GoneOn

\* A request comes.
LEMMA ChecksKeeps ==
  ASSUME LimiterInv, NEW c \in Callers, NEW route \in Seq(Limiters), Checks(c, route)
  PROVE  LimiterInv'
<1>1. /\ UNCHANGED <<clock, zset, ttl, memory, passed, drawn>>
      /\ checking' = [checking EXCEPT ![c] = Start(route)]
  BY DEF Checks
<1>2. /\ checking' \in [Callers -> Check]
      /\ CallsInStep'
      /\ \A step \in {"add", "expire"}, l \in Limiters :
           /\ At(step, l)' = At(step, l) \ {c}
           /\ \A d \in At(step, l)' : checking'[d].hit = checking[d].hit
  BY <1>1, CallerStarts
<1>3. \A l, by : PassedBy(l, by)' = PassedBy(l, by)
  BY <1>1 DEF PassedBy
<1>4. LimiterTypeOK' /\ PassedPast'
  BY <1>1, <1>2 DEF LimiterInv, LimiterTypeOK, PassedPast
<1>5. Crowd'
  BY <1>1, <1>2, CrowdKept DEF Crowd
<1>6. Outlived'
  BY <1>1, <1>2, <1>3, OutlivedKept DEF Outlived
<1>7. LossBounded'
  BY <1>1, <1>2, <1>3, LostShrinks, LossKept
<1>8. MemoryExact'
  BY <1>1, <1>3, MemoryKept DEF LimiterInv, LimiterTypeOK
<1>9. QED
  BY <1>2, <1>4, <1>5, <1>6, <1>7, <1>8 DEF LimiterInv

\* What else of a check a new step leaves.
LEMMA NextStep ==
  ASSUME NEW q \in Check, NEW step \in {"none", "prune", "count", "add", "expire"}
  PROVE  LET r == [q EXCEPT !.step = step]
         IN  r \in Check /\ r.step = step /\ r.left = q.left /\ r.hit = q.hit
<1>1. q = [step |-> q.step, left |-> q.left, cutoff |-> q.cutoff, hit |-> q.hit]
  BY DEF Check
<1>2. [q EXCEPT !.step = step] = [step |-> step, left |-> q.left, cutoff |-> q.cutoff, hit |-> q.hit]
  BY <1>1
<1>3. QED
  BY <1>2 DEF Check

\* Hits that are older than the window leave the set.
LEMMA PruneKeeps ==
  ASSUME LimiterInv, KeysApart, NEW c \in Callers, zremrangebyscore(c)
  PROVE  LimiterInv'
<1>1. PICK l \in Limiters : l = LimiterOf(c) /\ KeyFor(c) = KeyOf[l]
  BY HeadOfRoute DEF LimiterInv, zremrangebyscore
<1>2. PICK cutoff \in Int : cutoff = checking[c].cutoff /\ cutoff + Window[l] <= clock
  BY <1>1 DEF LimiterInv, CallsInStep, zremrangebyscore
<1>3. PICK kept : kept = {h \in zset[KeyOf[l]] : h.at > cutoff}
  OBVIOUS
<1>4. PICK r \in Check : /\ r = [checking[c] EXCEPT !.step = "count"]
                         /\ r.step = "count" /\ r.left = checking[c].left
  <2>1. checking[c] \in Check
    BY DEF LimiterInv, LimiterTypeOK
  <2>2. QED
    BY <2>1, NextStep
<1>5. /\ UNCHANGED <<clock, memory, passed, drawn>>
      /\ zset' = [zset EXCEPT ![KeyOf[l]] = kept]
      /\ ttl' = [ttl EXCEPT ![KeyOf[l]] = IF kept = {} THEN None ELSE ttl[KeyOf[l]]]
      /\ checking' = [checking EXCEPT ![c] = r]
  BY <1>1, <1>2, <1>3, <1>4 DEF zremrangebyscore, TtlOf
<1>6. Moved(c, r) /\ GoneOn(c, r)
  BY <1>4, <1>5, CallerGoesOn
<1> USE DEF Moved, GoneOn
<1>7. ASSUME NEW m \in Limiters
      PROVE  /\ zset'[KeyOf[m]] \subseteq zset[KeyOf[m]]
             /\ ttl'[KeyOf[m]] \in {ttl[KeyOf[m]], None}
             /\ \A h \in zset[KeyOf[m]] \ zset'[KeyOf[m]] : h.at + Window[m] <= clock
             /\ At("add", m)' \subseteq At("add", m)
             /\ At("expire", m)' \subseteq At("expire", m)
             /\ \A d \in At("expire", m)' : checking'[d].hit = checking[d].hit
             /\ PassedBy(m, "redis")' = PassedBy(m, "redis")
  <2>1. At("add", m)' = At("add", m) \ {c} /\ At("expire", m)' = At("expire", m) \ {c}
    BY <1>4, <1>6
  <2>2. \A d \in At("expire", m)' : checking'[d].hit = checking[d].hit
    BY <2>1, <1>6 DEF At
  <2>3. PassedBy(m, "redis")' = PassedBy(m, "redis")
    BY <1>5 DEF PassedBy
  <2>4. CASE m = l
    <3>1. zset'[KeyOf[m]] = kept /\ ttl'[KeyOf[m]] \in {ttl[KeyOf[m]], None}
      BY <1>5, <2>4, Basic DEF LimiterInv, LimiterTypeOK
    <3>2. \A h \in zset[KeyOf[m]] \ kept : h.at \in Nat /\ ~(h.at > cutoff)
      BY <1>3, <2>4, Basic DEF LimiterInv, LimiterTypeOK, Hit
    <3>3. clock \in Nat /\ Window[m] \in Nat
      BY Basic DEF LimiterInv, LimiterTypeOK
    <3>4. \A h \in zset[KeyOf[m]] \ kept : h.at + Window[m] <= clock
      BY <1>2, <2>4, <3>2, <3>3
    <3>5. QED
      BY <1>3, <2>1, <2>2, <2>3, <2>4, <3>1, <3>4
  <2>5. CASE m # l
    <3>1. zset'[KeyOf[m]] = zset[KeyOf[m]] /\ ttl'[KeyOf[m]] = ttl[KeyOf[m]]
      BY <1>5, <2>5, Basic DEF KeysApart, LimiterInv, LimiterTypeOK
    <3>2. QED
      BY <2>1, <2>2, <2>3, <3>1
  <2>6. QED
    BY <2>4, <2>5
<1>8. LimiterTypeOK'
  <2>1. kept \in SUBSET Hit /\ IsFiniteSet(kept)
    BY <1>3, Basic, FS_Subset DEF LimiterInv, LimiterTypeOK
  <2>2. zset' \in [Keys -> SUBSET Hit] /\ ttl' \in [Keys -> Nat \cup {None}]
    BY <1>5, <2>1, Basic DEF LimiterInv, LimiterTypeOK
  <2>3. \A k \in Keys : IsFiniteSet(zset'[k])
    BY <1>5, <2>1 DEF LimiterInv, LimiterTypeOK
  <2>4. QED
    BY <1>5, <1>6, <2>2, <2>3 DEF LimiterInv, LimiterTypeOK
<1>9. CallsInStep' /\ PassedPast'
  <2>1. r.left # <<>>
    BY <1>4 DEF LimiterInv, CallsInStep, zremrangebyscore
  <2>2. \A d \in Callers : d # c => LimiterOf(d)' = LimiterOf(d)
    BY <1>6 DEF LimiterOf
  <2>3. CallsInStep'
    BY <1>4, <1>5, <1>6, <2>1, <2>2 DEF LimiterInv, CallsInStep
  <2>4. QED
    BY <1>5, <2>3 DEF LimiterInv, PassedPast
<1>10. Crowd'
  BY <1>7, CrowdKept DEF Crowd
<1>11. Outlived'
  BY <1>5, <1>7, OutlivedKept DEF Outlived
<1>12. LossBounded'
  BY <1>5, <1>7, LostShrinks, LossKept
<1>13. MemoryExact'
  <2>1. \A w \in Workers, m \in Limiters : PassedBy(m, w)' \subseteq PassedBy(m, w)
    BY <1>5 DEF PassedBy
  <2>2. QED
    BY <1>5, <2>1, MemoryKept DEF LimiterInv, LimiterTypeOK
<1>14. QED
  BY <1>8, <1>9, <1>10, <1>11, <1>12, <1>13 DEF LimiterInv

\* A request that is refused ends.
LEMMA RefusalKeeps ==
  ASSUME LimiterInv, NEW c \in Callers, Refuses(c),
         UNCHANGED <<clock, zset, ttl, memory, drawn>>
  PROVE  LimiterInv'
<1>1. UNCHANGED passed /\ checking' = [checking EXCEPT ![c] = NotChecking]
  BY DEF Refuses
<1>2. /\ checking' \in [Callers -> Check]
      /\ CallsInStep'
      /\ \A step \in {"add", "expire"}, l \in Limiters :
           /\ At(step, l)' = At(step, l) \ {c}
           /\ \A d \in At(step, l)' : checking'[d].hit = checking[d].hit
  <2>1. <<>> \in Seq(Limiters)
    OBVIOUS
  <2>2. QED
    BY <1>1, <2>1, CallerStarts
<1>3. \A l, by : PassedBy(l, by)' = PassedBy(l, by)
  BY <1>1 DEF PassedBy
<1>4. LimiterTypeOK' /\ PassedPast'
  BY <1>1, <1>2 DEF LimiterInv, LimiterTypeOK, PassedPast
<1>5. Crowd'
  BY <1>1, <1>2, CrowdKept DEF Crowd
<1>6. Outlived'
  BY <1>1, <1>2, <1>3, OutlivedKept DEF Outlived
<1>7. LossBounded'
  BY <1>1, <1>2, <1>3, LostShrinks, LossKept
<1>8. MemoryExact'
  BY <1>1, <1>3, MemoryKept DEF LimiterInv, LimiterTypeOK
<1>9. QED
  BY <1>2, <1>4, <1>5, <1>6, <1>7, <1>8 DEF LimiterInv

\* A hit that is drawn now.
LEMMA HitDrawn ==
  ASSUME LimiterTypeOK
  PROVE  LET hit == [no |-> drawn + 1, at |-> clock]
         IN  hit \in Hit /\ hit.at = clock /\ drawn + 1 \in Nat
<1>1. clock \in Nat /\ drawn + 1 \in Nat
  BY DEF LimiterTypeOK
<1>2. QED
  BY <1>1 DEF Hit

\* A set below the limit lets the caller add its hit.
LEMMA CountKeeps ==
  ASSUME LimiterInv, NEW c \in Callers, zrange(c)
  PROVE  LimiterInv'
<1>1. PICK l \in Limiters : l = LimiterOf(c) /\ KeyFor(c) = KeyOf[l]
  BY HeadOfRoute DEF LimiterInv, zrange
<1>2. CASE Cardinality(zset[KeyFor(c)]) >= Limit[LimiterOf(c)]
  BY <1>2, RefusalKeeps DEF zrange
<1>3. CASE ~(Cardinality(zset[KeyFor(c)]) >= Limit[LimiterOf(c)])
  <2>1. PICK hit \in Hit : hit = [no |-> drawn + 1, at |-> clock] /\ hit.at = clock
    BY HitDrawn DEF LimiterInv
  <2>2. checking[c] \in Check
    BY DEF LimiterInv, LimiterTypeOK
  <2>3. PICK q \in Check : /\ q = [checking[c] EXCEPT !.step = "add"]
                           /\ q.step = "add" /\ q.left = checking[c].left
    BY <2>2, NextStep
  <2>4. PICK r \in Check : /\ r = [q EXCEPT !.hit = hit]
                           /\ r.step = "add" /\ r.left = checking[c].left /\ r.hit = hit
    <3>1. q = [step |-> q.step, left |-> q.left, cutoff |-> q.cutoff, hit |-> q.hit]
      BY DEF Check
    <3>2. [q EXCEPT !.hit = hit] = [step |-> q.step, left |-> q.left, cutoff |-> q.cutoff, hit |-> hit]
      BY <3>1
    <3>3. QED
      BY <2>3, <3>2 DEF Check
  <2>5. /\ UNCHANGED <<clock, zset, ttl, memory, passed>>
        /\ drawn' = drawn + 1
        /\ checking' = [checking EXCEPT ![c] = r]
    BY <1>3, <2>1, <2>2, <2>3, <2>4 DEF zrange, LimiterInv, LimiterTypeOK
  <2>6. Moved(c, r) /\ GoneOn(c, r)
    BY <2>4, <2>5, CallerGoesOn
  <2> USE DEF Moved, GoneOn
  <2>7. \A m, by : PassedBy(m, by)' = PassedBy(m, by)
    BY <2>5 DEF PassedBy
  <2>8. ASSUME NEW m \in Limiters
        PROVE  /\ At("expire", m)' \subseteq At("expire", m)
               /\ \A d \in At("expire", m)' : checking'[d].hit = checking[d].hit
    <3>1. At("expire", m)' = At("expire", m) \ {c}
      BY <2>4, <2>6
    <3>2. QED
      BY <3>1, <2>6 DEF At
  <2>9. LimiterTypeOK' /\ PassedPast'
    BY <2>5, <2>6 DEF LimiterInv, LimiterTypeOK, PassedPast
  <2>10. CallsInStep'
    <3>1. r.left # <<>> /\ r.hit.at <= clock
      BY <2>1, <2>4 DEF LimiterInv, LimiterTypeOK, CallsInStep, zrange
    <3>2. \A d \in Callers : d # c => LimiterOf(d)' = LimiterOf(d)
      BY <2>6 DEF LimiterOf
    <3>3. QED
      BY <2>4, <2>5, <2>6, <3>1, <3>2 DEF LimiterInv, CallsInStep
  <2>11. Crowd'
    <3>1. ASSUME NEW m \in Limiters, m # l
          PROVE  Cardinality(zset'[KeyOf[m]]) + Cardinality(At("add", m)')
                   <= Limit[m] - 1 + Cardinality(Callers)
      <4>1. At("add", m)' = At("add", m)
        BY <1>1, <2>4, <2>6, <3>1
      <4>2. QED
        BY <2>5, <4>1 DEF LimiterInv, Crowd
    <3>2. Cardinality(zset'[KeyOf[l]]) + Cardinality(At("add", l)')
            <= Limit[l] - 1 + Cardinality(Callers)
      <4>1. At("add", l)' \subseteq Callers
        BY DEF At
      <4>2. /\ IsFiniteSet(At("add", l)')
            /\ Cardinality(At("add", l)') <= Cardinality(Callers)
        BY <4>1, RateLimiterAssumption, FS_Subset
      <4>3. /\ Cardinality(At("add", l)') \in Nat
            /\ Cardinality(zset[KeyOf[l]]) \in Nat
            /\ Limit[l] \in Nat /\ Cardinality(Callers) \in Nat
        BY <4>2, Basic, FS_CardinalityType DEF LimiterInv, LimiterTypeOK
      <4>4. Cardinality(zset[KeyOf[l]]) < Limit[l]
        BY <1>1, <1>3, <4>3
      <4>5. QED
        BY <2>5, <4>2, <4>3, <4>4
    <3>3. QED
      BY <3>1, <3>2 DEF Crowd
  <2>12. Outlived'
    BY <2>5, <2>7, <2>8, OutlivedKept DEF Outlived
  <2>13. LossBounded'
    BY <2>5, <2>7, <2>8, LostShrinks, LossKept
  <2>14. MemoryExact'
    BY <2>5, <2>7, MemoryKept DEF LimiterInv, LimiterTypeOK
  <2>15. QED
    BY <2>9, <2>10, <2>11, <2>12, <2>13, <2>14 DEF LimiterInv
<1>4. QED
  BY <1>2, <1>3

\* A hit is added to the set.
LEMMA AddKeeps ==
  ASSUME LimiterInv, KeysApart, NEW c \in Callers, zadd(c)
  PROVE  LimiterInv'
<1>1. PICK l \in Limiters : l = LimiterOf(c) /\ KeyFor(c) = KeyOf[l]
  BY HeadOfRoute DEF LimiterInv, zadd
<1>2. PICK hit \in Hit : hit = checking[c].hit /\ hit.at <= clock
  BY DEF LimiterInv, CallsInStep, zadd
<1>3. PICK r \in Check : /\ r = [checking[c] EXCEPT !.step = "expire"]
                         /\ r.step = "expire" /\ r.left = checking[c].left /\ r.hit = hit
  <2>1. checking[c] \in Check
    BY DEF LimiterInv, LimiterTypeOK
  <2>2. QED
    BY <1>2, <2>1, NextStep
<1>4. /\ UNCHANGED <<clock, ttl, memory, passed, drawn>>
      /\ zset' = [zset EXCEPT ![KeyOf[l]] = zset[KeyOf[l]] \cup {hit}]
      /\ checking' = [checking EXCEPT ![c] = r]
  BY <1>1, <1>2, <1>3 DEF zadd
<1>5. Moved(c, r) /\ GoneOn(c, r)
  BY <1>3, <1>4, CallerGoesOn
<1> USE DEF Moved, GoneOn
<1>6. c \in At("add", l)
  BY <1>1 DEF zadd, At
<1>7. \A m, by : PassedBy(m, by)' = PassedBy(m, by)
  BY <1>4 DEF PassedBy
<1>8. zset'[KeyOf[l]] = zset[KeyOf[l]] \cup {hit}
  BY <1>4, Basic DEF LimiterInv, LimiterTypeOK
<1>9. \A m \in Limiters : m # l => zset'[KeyOf[m]] = zset[KeyOf[m]]
  BY <1>4, Basic DEF KeysApart, LimiterInv, LimiterTypeOK
<1>10. \A m \in Limiters : m # l =>
          /\ At("expire", m)' = At("expire", m)
          /\ \A d \in At("expire", m)' : checking'[d].hit = checking[d].hit
  BY <1>1, <1>3, <1>5 DEF At
<1>11. LimiterTypeOK' /\ PassedPast'
  <2>1. zset' \in [Keys -> SUBSET Hit]
    BY <1>4, Basic DEF LimiterInv, LimiterTypeOK
  <2>2. \A k \in Keys : IsFiniteSet(zset'[k])
    BY <1>4, Basic, FS_AddElement DEF LimiterInv, LimiterTypeOK
  <2>3. QED
    BY <1>4, <1>5, <2>1, <2>2 DEF LimiterInv, LimiterTypeOK, PassedPast
<1>12. CallsInStep'
  <2>1. r.left # <<>>
    BY <1>3 DEF LimiterInv, CallsInStep, zadd
  <2>2. \A d \in Callers : d # c => LimiterOf(d)' = LimiterOf(d)
    BY <1>5 DEF LimiterOf
  <2>3. QED
    BY <1>2, <1>3, <1>4, <1>5, <2>1, <2>2 DEF LimiterInv, CallsInStep
<1>13. Crowd'
  <2>1. \A m \in Limiters : At("add", m)' = At("add", m) \ {c}
    BY <1>3, <1>5
  <2>2. ASSUME NEW m \in Limiters, m # l
        PROVE  Cardinality(zset'[KeyOf[m]]) + Cardinality(At("add", m)')
                 <= Limit[m] - 1 + Cardinality(Callers)
    <3>1. zset'[KeyOf[m]] \subseteq zset[KeyOf[m]] /\ At("add", m)' \subseteq At("add", m)
      BY <1>9, <2>1, <2>2
    <3>2. QED
      BY <3>1, CrowdKept
  <2>3. Cardinality(zset'[KeyOf[l]]) + Cardinality(At("add", l)')
          <= Limit[l] - 1 + Cardinality(Callers)
    <3>1. IsFiniteSet(zset[KeyOf[l]]) /\ IsFiniteSet(At("add", l))
      BY Basic, RateLimiterAssumption, FS_Subset DEF LimiterInv, LimiterTypeOK, At
    <3>2. /\ Cardinality(zset[KeyOf[l]]) \in Nat
          /\ Cardinality(zset'[KeyOf[l]]) \in Nat
          /\ Cardinality(zset'[KeyOf[l]]) <= Cardinality(zset[KeyOf[l]]) + 1
      <4>1. LET S == zset[KeyOf[l]]
                T == S \cup {hit}
            IN  /\ Cardinality(S) \in Nat
                /\ Cardinality(T) \in Nat
                /\ Cardinality(T) <= Cardinality(S) + 1
        <5> DEFINE S == zset[KeyOf[l]]
                   T == S \cup {hit}
        <5>1. /\ IsFiniteSet(T)
              /\ Cardinality(T) = Cardinality(S) \/ Cardinality(T) = Cardinality(S) + 1
          BY <3>1, FS_AddElement
        <5>2. Cardinality(S) \in Nat /\ Cardinality(T) \in Nat
          BY <3>1, <5>1, FS_CardinalityType
        <5> HIDE DEF S, T
        <5>3. QED
          BY <5>1, <5>2 DEF S, T
      <4>2. QED
        BY <1>8, <4>1
    <3>3. /\ Cardinality(At("add", l)) \in Nat
          /\ Cardinality(At("add", l)') = Cardinality(At("add", l)) - 1
      BY <1>6, <2>1, <3>1, FS_RemoveElement, FS_CardinalityType
    <3>4. Cardinality(zset[KeyOf[l]]) + Cardinality(At("add", l)) <= Limit[l] - 1 + Cardinality(Callers)
      BY DEF LimiterInv, Crowd
    <3>5. QED
      BY <3>2, <3>3, <3>4, Basic
  <2>4. QED
    BY <2>2, <2>3 DEF Crowd
<1>14. Outlived'
  <2>1. ASSUME NEW m \in Limiters, m # l PROVE Outlives(m)'
    BY <1>4, <1>7, <1>9, <1>10, <2>1, OutlivedKept
  <2>2. Outlives(l)'
    <3>1. \A d \in At("expire", l)' :
             \/ checking'[d].hit \in zset'[KeyOf[l]]
             \/ d \in At("expire", l) /\ checking'[d].hit = checking[d].hit
      <4>1. checking'[c].hit \in zset'[KeyOf[l]]
        BY <1>3, <1>5, <1>8
      <4>2. \A d \in At("expire", l)' :
               d = c \/ (d \in At("expire", l) /\ checking'[d].hit = checking[d].hit)
        BY <1>1, <1>3, <1>5 DEF At
      <4>3. QED
        BY <4>1, <4>2
    <3>2. zset[KeyOf[l]] \subseteq zset'[KeyOf[l]]
      BY <1>8
    <3>3. Outlives(l)
      BY DEF LimiterInv, Outlived
    <3>4. QED
      BY <1>4, <1>7, <3>1, <3>2, <3>3 DEF Outlives
  <2>3. QED
    BY <2>1, <2>2 DEF Outlived
<1>15. LossBounded'
  <2>1. ASSUME NEW m \in Limiters, m # l PROVE Lost(m)' \subseteq Lost(m)
    BY <1>4, <1>7, <1>9, <1>10, <2>1, LostShrinks
  <2>2. Lost(l)' \subseteq Lost(l)
    <3>1. {checking'[d].hit : d \in At("expire", l)'}
            \subseteq {checking[d].hit : d \in At("expire", l)} \cup {hit}
      <4>1. checking'[c].hit = hit
        BY <1>3, <1>5
      <4>2. \A d \in At("expire", l)' :
               d = c \/ (d \in At("expire", l) /\ checking'[d].hit = checking[d].hit)
        BY <1>1, <1>3, <1>5 DEF At
      <4>3. QED
        BY <4>1, <4>2
    <3>2. QED
      BY <1>4, <1>7, <1>8, <3>1 DEF Lost
  <2>3. QED
    BY <2>1, <2>2, LossKept
<1>16. MemoryExact'
  BY <1>4, <1>7, MemoryKept DEF LimiterInv, LimiterTypeOK
<1>17. QED
  BY <1>11, <1>12, <1>13, <1>14, <1>15, <1>16 DEF LimiterInv

\* The expiry of the key is set and the check passes.
LEMMA ExpireKeeps ==
  ASSUME LimiterInv, KeysApart, NEW c \in Callers, expire(c)
  PROVE  LimiterInv'
<1>1. PICK l \in Limiters : /\ l = LimiterOf(c) /\ KeyFor(c) = KeyOf[l]
                            /\ Tail(checking[c].left) \in Seq(Limiters)
  BY HeadOfRoute DEF LimiterInv, expire
<1>2. PICK hit \in Hit : hit = checking[c].hit /\ hit.at <= clock
  BY DEF LimiterInv, CallsInStep, expire
<1>3. PICK p \in Pass : /\ p = [no |-> hit.no, at |-> hit.at, limiter |-> l, by |-> "redis"]
                        /\ p.limiter = l /\ p.by = "redis" /\ p.at = hit.at /\ HitOf(p) = hit
  <2>1. hit.no \in Nat /\ hit.at \in Nat /\ hit = [no |-> hit.no, at |-> hit.at]
    BY DEF Hit
  <2>2. [no |-> hit.no, at |-> hit.at, limiter |-> l, by |-> "redis"] \in Pass
    BY <2>1 DEF Pass
  <2>3. QED
    BY <2>1, <2>2 DEF HitOf
<1>4. /\ UNCHANGED <<clock, zset, memory, drawn>>
      /\ passed' = passed \cup {p}
      /\ ttl' = [ttl EXCEPT ![KeyOf[l]] =
                   IF zset[KeyOf[l]] = {} THEN None ELSE clock + Window[l]]
      /\ checking' = [checking EXCEPT ![c] = Start(Tail(checking[c].left))]
  BY <1>1, <1>2, <1>3 DEF expire, Expires, Passes
<1>5. /\ checking' \in [Callers -> Check]
      /\ CallsInStep'
      /\ \A step \in {"add", "expire"}, m \in Limiters :
           /\ At(step, m)' = At(step, m) \ {c}
           /\ \A d \in At(step, m)' : checking'[d].hit = checking[d].hit
  BY <1>1, <1>4, CallerStarts
<1>6. c \in At("expire", l)
  BY <1>1 DEF expire, At
<1>7. \A m, by : m # l \/ by # "redis" => PassedBy(m, by)' = PassedBy(m, by)
  BY <1>3, <1>4 DEF PassedBy
<1>8. clock \in Nat /\ clock + Window[l] \in Nat
  BY Basic DEF LimiterInv, LimiterTypeOK
<1>9. LimiterTypeOK'
  <2>1. ttl' \in [Keys -> Nat \cup {None}]
    BY <1>4, <1>8 DEF LimiterInv, LimiterTypeOK
  <2>2. passed' \subseteq Pass
    BY <1>4 DEF LimiterInv, LimiterTypeOK
  <2>3. QED
    BY <1>4, <1>5, <2>1, <2>2 DEF LimiterInv, LimiterTypeOK
<1>10. PassedPast'
  BY <1>2, <1>3, <1>4 DEF LimiterInv, PassedPast
<1>11. Crowd'
  BY <1>4, <1>5, CrowdKept DEF Crowd
<1>12. Outlived'
  <2>1. ASSUME NEW m \in Limiters, m # l PROVE Outlives(m)'
    <3>1. ttl'[KeyOf[m]] = ttl[KeyOf[m]]
      BY <1>4, <2>1, Basic DEF KeysApart, LimiterInv, LimiterTypeOK
    <3>2. QED
      BY <1>4, <1>5, <1>7, <2>1, <3>1, OutlivedKept
  <2>2. Outlives(l)'
    <3>1. ttl'[KeyOf[l]] \in {None, clock' + Window[l]}
      BY <1>4, Basic DEF LimiterInv, LimiterTypeOK
    <3>2. QED
      BY <1>5, <1>9, <1>10, <3>1, OutlivedAnew
  <2>3. QED
    BY <2>1, <2>2 DEF Outlived
<1>13. LossBounded'
  <2>1. ASSUME NEW m \in Limiters, m # l PROVE Lost(m)' \subseteq Lost(m)
    BY <1>4, <1>5, <1>7, <2>1, LostShrinks
  <2>2. Lost(l)' \subseteq Lost(l)
    <3>1. PassedBy(l, "redis")' \subseteq PassedBy(l, "redis") \cup {p}
      BY <1>4 DEF PassedBy
    <3>2. {HitOf(q) : q \in PassedBy(l, "redis")'}
            \subseteq {HitOf(q) : q \in PassedBy(l, "redis")} \cup {checking[d].hit : d \in At("expire", l)}
      BY <1>2, <1>3, <1>6, <3>1
    <3>3. {checking'[d].hit : d \in At("expire", l)'} \subseteq {checking[d].hit : d \in At("expire", l)}
      BY <1>5
    <3>4. QED
      BY <1>4, <3>2, <3>3 DEF Lost
  <2>3. QED
    BY <2>1, <2>2, LossKept
<1>14. MemoryExact'
  <2>1. \A w \in Workers : w # "redis"
    BY RateLimiterAssumption
  <2>2. QED
    BY <1>4, <1>7, <1>8, <2>1, MemoryKept
<1>15. QED
  BY <1>5, <1>9, <1>10, <1>11, <1>12, <1>13, <1>14 DEF LimiterInv

\* What a check does to the memory of its worker, whether it passes or refuses: the
\* hits in the window stay, and a new one comes only with the hit that passes.
LEMMA MemoryOfOne ==
  ASSUME LimiterInv, KeysApart, UNCHANGED clock,
         NEW l \in Limiters, NEW w \in Workers, NEW new \in SUBSET Hit,
         memory' = [memory EXCEPT ![w][KeyOf[l]] = new],
         IsFiniteSet(new), Cardinality(new) <= Limit[l],
         {h \in memory[w][KeyOf[l]] : h.at > clock - Window[l]} \subseteq new,
         \A p \in passed' \ passed : p.limiter = l /\ p.by = w /\ HitOf(p) \in new
  PROVE  /\ memory' \in [Workers -> [Keys -> SUBSET Hit]]
         /\ \A v \in Workers, k \in Keys : IsFiniteSet(memory'[v][k])
         /\ MemoryExact'
<1>1. memory' \in [Workers -> [Keys -> SUBSET Hit]] /\ memory'[w][KeyOf[l]] = new
  BY Basic DEF LimiterInv, LimiterTypeOK
<1>2. \A v \in Workers, k \in Keys : v # w \/ k # KeyOf[l] => memory'[v][k] = memory[v][k]
  BY Basic DEF LimiterInv, LimiterTypeOK
<1>3. \A v \in Workers, k \in Keys : IsFiniteSet(memory'[v][k])
  BY <1>1, <1>2 DEF LimiterInv, LimiterTypeOK
<1>4. ASSUME NEW v \in Workers, NEW m \in Limiters
      PROVE  /\ Cardinality(memory'[v][KeyOf[m]]) <= Limit[m]
             /\ \A p \in PassedBy(m, v)' :
                   p.at > clock' - Window[m] => HitOf(p) \in memory'[v][KeyOf[m]]
  <2>1. CASE v = w /\ m = l
    <3>1. ASSUME NEW p \in PassedBy(l, w)', p.at > clock - Window[l]
          PROVE  HitOf(p) \in new
      <4>1. CASE p \in passed
        <5>1. HitOf(p) \in memory[w][KeyOf[l]]
          BY <3>1, <4>1 DEF LimiterInv, MemoryExact, PassedBy
        <5>2. HitOf(p).at = p.at
          BY DEF HitOf
        <5>3. QED
          BY <3>1, <5>1, <5>2
      <4>2. CASE p \notin passed
        BY <3>1, <4>2 DEF PassedBy
      <4>3. QED
        BY <4>1, <4>2
    <3>2. QED
      BY <1>1, <2>1, <3>1
  <2>2. CASE v # w \/ m # l
    <3>1. memory'[v][KeyOf[m]] = memory[v][KeyOf[m]]
      BY <1>2, <2>2, Basic DEF KeysApart
    <3>2. PassedBy(m, v)' \subseteq PassedBy(m, v)
      BY <2>2 DEF PassedBy
    <3>3. QED
      BY <3>1, <3>2 DEF LimiterInv, MemoryExact
  <2>3. QED
    BY <2>1, <2>2
<1>5. QED
  BY <1>1, <1>3, <1>4 DEF MemoryExact

\* The fallback is exact.
LEMMA FallbackExact ==
  ASSUME LimiterInv, KeysApart, NEW c \in Callers, checking[c].step # "none",
         UNCHANGED clock, fallback(c)
  PROVE  /\ memory' \in [Workers -> [Keys -> SUBSET Hit]]
         /\ \A v \in Workers, k \in Keys : IsFiniteSet(memory'[v][k])
         /\ MemoryExact'
         /\ drawn' \in Nat /\ passed' \subseteq Pass /\ PassedPast'
         /\ \A m : PassedBy(m, "redis")' = PassedBy(m, "redis")
         /\ \E left \in Seq(Limiters) :
               \/ checking' = [checking EXCEPT ![c] = Start(left)]
               \/ checking' = [checking EXCEPT ![c] = NotChecking]
<1>1. PICK l \in Limiters : /\ l = LimiterOf(c) /\ KeyFor(c) = KeyOf[l]
                            /\ Tail(checking[c].left) \in Seq(Limiters)
  BY HeadOfRoute DEF LimiterInv
<1>2. PICK w \in Workers : w = WorkerOf[c] /\ w # "redis"
  BY Basic, RateLimiterAssumption
<1>3. PICK hits : hits = {h \in memory[w][KeyOf[l]] : h.at > clock - Window[l]}
  OBVIOUS
<1>4. /\ hits \in SUBSET Hit /\ IsFiniteSet(hits)
      /\ Cardinality(hits) \in Nat /\ Cardinality(hits) <= Limit[l]
  <2>1. hits \subseteq memory[w][KeyOf[l]] /\ memory[w][KeyOf[l]] \subseteq Hit
    BY <1>3, Basic DEF LimiterInv, LimiterTypeOK
  <2>2. IsFiniteSet(memory[w][KeyOf[l]]) /\ Cardinality(memory[w][KeyOf[l]]) <= Limit[l]
    BY Basic DEF LimiterInv, LimiterTypeOK, MemoryExact
  <2>3. /\ IsFiniteSet(hits) /\ Cardinality(hits) <= Cardinality(memory[w][KeyOf[l]])
        /\ Cardinality(hits) \in Nat /\ Cardinality(memory[w][KeyOf[l]]) \in Nat
    BY <2>1, <2>2, FS_Subset, FS_CardinalityType
  <2>4. QED
    BY <2>1, <2>2, <2>3, Basic
<1>5. PICK hit \in Hit : hit = [no |-> drawn + 1, at |-> clock] /\ hit.at = clock
  BY HitDrawn DEF LimiterInv
<1>6. CASE Cardinality(hits) >= Limit[l]
  <2>1. /\ memory' = [memory EXCEPT ![w][KeyOf[l]] = hits]
        /\ UNCHANGED <<passed, drawn>>
        /\ checking' = [checking EXCEPT ![c] = NotChecking]
    BY <1>1, <1>2, <1>3, <1>6 DEF fallback, Refuses
  <2>2. /\ memory' \in [Workers -> [Keys -> SUBSET Hit]]
        /\ \A v \in Workers, k \in Keys : IsFiniteSet(memory'[v][k])
        /\ MemoryExact'
    BY <1>3, <1>4, <2>1, MemoryOfOne
  <2>3. /\ drawn' \in Nat /\ passed' \subseteq Pass /\ PassedPast'
        /\ \A m : PassedBy(m, "redis")' = PassedBy(m, "redis")
    BY <2>1 DEF LimiterInv, LimiterTypeOK, PassedPast, PassedBy
  <2>4. QED
    BY <1>1, <2>1, <2>2, <2>3
<1>7. CASE ~(Cardinality(hits) >= Limit[l])
  <2>1. PICK p \in Pass : /\ p = [no |-> hit.no, at |-> hit.at, limiter |-> l, by |-> w]
                          /\ p.limiter = l /\ p.by = w /\ p.at = clock /\ HitOf(p) = hit
    <3>1. hit.no \in Nat /\ hit.at \in Nat /\ hit = [no |-> hit.no, at |-> hit.at]
      BY DEF Hit
    <3>2. [no |-> hit.no, at |-> hit.at, limiter |-> l, by |-> w] \in Pass
      BY <3>1 DEF Pass
    <3>3. QED
      BY <1>5, <3>1, <3>2 DEF HitOf
  <2>2. PICK new : new = hits \cup {hit}
    OBVIOUS
  <2>3. /\ memory' = [memory EXCEPT ![w][KeyOf[l]] = new]
        /\ passed' = passed \cup {p} /\ drawn' = drawn + 1
        /\ checking' = [checking EXCEPT ![c] = Start(Tail(checking[c].left))]
    BY <1>1, <1>2, <1>3, <1>5, <1>7, <2>1, <2>2 DEF fallback, Passes
  <2>4. new \in SUBSET Hit /\ IsFiniteSet(new) /\ Cardinality(new) <= Limit[l]
    <3>1. /\ IsFiniteSet(new)
          /\ Cardinality(new) = Cardinality(hits) \/ Cardinality(new) = Cardinality(hits) + 1
      BY <1>4, <2>2, FS_AddElement
    <3>2. Limit[l] \in Nat /\ Cardinality(hits) \in Nat
      BY <1>4, Basic
    <3>3. QED
      BY <1>4, <1>7, <2>2, <3>1, <3>2
  <2>5. /\ memory' \in [Workers -> [Keys -> SUBSET Hit]]
        /\ \A v \in Workers, k \in Keys : IsFiniteSet(memory'[v][k])
        /\ MemoryExact'
    BY <1>3, <2>1, <2>2, <2>3, <2>4, MemoryOfOne
  <2>6. drawn' \in Nat /\ passed' \subseteq Pass
    BY <2>3 DEF LimiterInv, LimiterTypeOK
  <2>7. PassedPast'
    BY <2>1, <2>3 DEF LimiterInv, LimiterTypeOK, PassedPast
  <2>8. \A m : PassedBy(m, "redis")' = PassedBy(m, "redis")
    BY <1>2, <2>1, <2>3 DEF PassedBy
  <2>9. QED
    BY <1>1, <2>3, <2>5, <2>6, <2>7, <2>8
<1>8. QED
  BY <1>6, <1>7

\* A call of Redis fails.
LEMMA FailureKeeps ==
  ASSUME LimiterInv, KeysApart, NEW c \in Callers, RedisFails(c)
  PROVE  LimiterInv'
<1>1. PICK l \in Limiters : l = LimiterOf(c) /\ KeyFor(c) = KeyOf[l]
  BY HeadOfRoute DEF LimiterInv, RedisFails
<1>2. /\ UNCHANGED <<clock, zset>> /\ checking[c].step # "none"
      /\ ttl' = ttl \/ ttl' = [ttl EXCEPT ![KeyOf[l]] =
                                 IF zset[KeyOf[l]] = {} THEN None ELSE clock + Window[l]]
      /\ fallback(c) \/ (Refuses(c) /\ UNCHANGED <<memory, drawn>>)
  BY <1>1 DEF RedisFails, Expires
<1>3. /\ memory' \in [Workers -> [Keys -> SUBSET Hit]]
      /\ \A v \in Workers, k \in Keys : IsFiniteSet(memory'[v][k])
      /\ MemoryExact'
      /\ drawn' \in Nat /\ passed' \subseteq Pass /\ PassedPast'
      /\ \A m : PassedBy(m, "redis")' = PassedBy(m, "redis")
      /\ \E left \in Seq(Limiters) :
            \/ checking' = [checking EXCEPT ![c] = Start(left)]
            \/ checking' = [checking EXCEPT ![c] = NotChecking]
  <2>1. CASE fallback(c)
    BY <1>2, <2>1, FallbackExact
  <2>2. CASE Refuses(c) /\ UNCHANGED <<memory, drawn>>
    <3>1. UNCHANGED passed /\ checking' = [checking EXCEPT ![c] = NotChecking]
      BY <2>2 DEF Refuses
    <3>2. \A m, by : PassedBy(m, by)' = PassedBy(m, by)
      BY <3>1 DEF PassedBy
    <3>3. MemoryExact'
      BY <1>2, <2>2, <3>2, MemoryKept DEF LimiterInv, LimiterTypeOK
    <3>4. <<>> \in Seq(Limiters)
      OBVIOUS
    <3>5. /\ memory' \in [Workers -> [Keys -> SUBSET Hit]]
          /\ \A v \in Workers, k \in Keys : IsFiniteSet(memory'[v][k])
          /\ drawn' \in Nat /\ passed' \subseteq Pass /\ PassedPast'
      BY <1>2, <2>2, <3>1 DEF LimiterInv, LimiterTypeOK, PassedPast
    <3>6. QED
      BY <3>1, <3>2, <3>3, <3>4, <3>5
  <2>3. QED
    BY <1>2, <2>1, <2>2
<1>4. /\ checking' \in [Callers -> Check]
      /\ CallsInStep'
      /\ \A step \in {"add", "expire"}, m \in Limiters :
           /\ At(step, m)' = At(step, m) \ {c}
           /\ \A d \in At(step, m)' : checking'[d].hit = checking[d].hit
  BY <1>2, <1>3, CallerStarts
<1>5. LimiterTypeOK'
  <2>1. clock + Window[l] \in Nat
    BY Basic DEF LimiterInv, LimiterTypeOK
  <2>2. ttl' \in [Keys -> Nat \cup {None}]
    BY <1>2, <2>1 DEF LimiterInv, LimiterTypeOK
  <2>3. QED
    BY <1>2, <1>3, <1>4, <2>2 DEF LimiterInv, LimiterTypeOK
<1>6. Crowd'
  BY <1>2, <1>4, CrowdKept DEF Crowd
<1>7. Outlived'
  <2>1. ASSUME NEW m \in Limiters PROVE Outlives(m)'
    <3>1. ttl'[KeyOf[m]] = ttl[KeyOf[m]] \/ ttl'[KeyOf[m]] \in {None, clock' + Window[m]}
      BY <1>2, Basic DEF KeysApart, LimiterInv, LimiterTypeOK
    <3>2. CASE ttl'[KeyOf[m]] = ttl[KeyOf[m]]
      BY <1>2, <1>3, <1>4, <3>2, OutlivedKept
    <3>3. CASE ttl'[KeyOf[m]] \in {None, clock' + Window[m]}
      BY <1>3, <1>4, <1>5, <3>3, OutlivedAnew
    <3>4. QED
      BY <3>1, <3>2, <3>3
  <2>2. QED
    BY <2>1 DEF Outlived
<1>8. LossBounded'
  BY <1>2, <1>3, <1>4, LostShrinks, LossKept
<1>9. QED
  BY <1>3, <1>4, <1>5, <1>6, <1>7, <1>8 DEF LimiterInv

\* When a key expires, the hits that go with it within their window are of callers
\* between ZADD and EXPIRE.
LEMMA LossAtExpiry ==
  ASSUME LimiterInv, NEW l \in Limiters, clock' = clock + 1, UNCHANGED <<checking, passed>>,
         ttl[KeyOf[l]] # None, ttl[KeyOf[l]] <= clock'
  PROVE  IsFiniteSet(Lost(l)') /\ Cardinality(Lost(l)') <= Cardinality(Callers)
<1>1. PICK hits : hits = {checking[c].hit : c \in At("expire", l)}
  OBVIOUS
<1>2. IsFiniteSet(hits) /\ Cardinality(hits) <= Cardinality(Callers)
  <2>1. /\ IsFiniteSet(At("expire", l))
        /\ Cardinality(At("expire", l)) <= Cardinality(Callers)
    <3>1. At("expire", l) \subseteq Callers
      BY DEF At
    <3>2. QED
      BY <3>1, RateLimiterAssumption, FS_Subset
  <2>2. [c \in At("expire", l) |-> checking[c].hit] \in Surjection(At("expire", l), hits)
    BY <1>1 DEF Surjection
  <2>3. IsFiniteSet(hits) /\ Cardinality(hits) <= Cardinality(At("expire", l))
    BY <2>1, <2>2, FS_Surjection
  <2>4. QED
    BY <2>1, <2>3, Basic, FS_CardinalityType
<1>3. Lost(l)' \subseteq hits
  <2>1. PICK until \in Nat : until = ttl[KeyOf[l]] /\ until <= clock + 1
    BY Basic DEF LimiterInv, LimiterTypeOK
  <2>2. \A p \in PassedBy(l, "redis") : p.at + Window[l] <= until
    BY <2>1, RateLimiterAssumption DEF LimiterInv, Outlived, Outlives
  <2>3. \A p \in PassedBy(l, "redis") : ~(HitOf(p).at > clock' - Window[l])
    <3>1. \A p \in PassedBy(l, "redis") : p.at \in Nat /\ HitOf(p).at = p.at
      BY DEF LimiterInv, LimiterTypeOK, PassedBy, Pass, HitOf
    <3>2. clock \in Nat /\ Window[l] \in Nat
      BY Basic DEF LimiterInv, LimiterTypeOK
    <3>3. QED
      BY <2>1, <2>2, <3>1, <3>2
  <2>4. At("expire", l)' = At("expire", l) /\ PassedBy(l, "redis")' = PassedBy(l, "redis")
    BY DEF At, PassedBy, LimiterOf
  <2>5. QED
    BY <1>1, <2>3, <2>4 DEF Lost
<1>4. QED
  BY <1>2, <1>3, Basic, FS_Subset, FS_CardinalityType

\* Time passes, and keys expire.
LEMMA TickKeeps ==
  ASSUME LimiterInv, Tick
  PROVE  LimiterInv'
<1>1. /\ clock \in Nat /\ clock' = clock + 1
      /\ UNCHANGED <<memory, checking, passed, drawn>>
  BY DEF LimiterInv, LimiterTypeOK, Tick
<1>2. \A k \in Keys :
         \/ /\ ttl[k] # None /\ ttl[k] <= clock'
            /\ zset'[k] = {} /\ ttl'[k] = None
         \/ /\ ttl[k] = None \/ ~(ttl[k] <= clock')
            /\ zset'[k] = zset[k] /\ ttl'[k] = ttl[k]
  BY DEF Tick
<1>3. \A step, l : At(step, l)' = At(step, l)
  BY <1>1 DEF At, LimiterOf
<1>4. \A l, by : PassedBy(l, by)' = PassedBy(l, by)
  BY <1>1 DEF PassedBy
<1>5. LimiterTypeOK'
  <2>1. zset' = [k \in Keys |-> zset'[k]] /\ ttl' = [k \in Keys |-> ttl'[k]]
    BY DEF Tick
  <2>2. \A k \in Keys : /\ zset'[k] \subseteq Hit /\ IsFiniteSet(zset'[k])
                        /\ ttl'[k] \in Nat \cup {None}
    BY <1>2, FS_EmptySet DEF LimiterInv, LimiterTypeOK
  <2>3. zset' \in [Keys -> SUBSET Hit] /\ ttl' \in [Keys -> Nat \cup {None}]
    BY <2>1, <2>2
  <2>4. QED
    BY <1>1, <2>2, <2>3 DEF LimiterInv, LimiterTypeOK
<1>6. CallsInStep' /\ PassedPast'
  <2>1. \A d \in Callers : checking[d].step # "none" => LimiterOf(d) \in Limiters
    BY HeadOfRoute DEF LimiterInv
  <2>2. \A d \in Callers : checking[d].step = "prune" =>
           checking[d].cutoff \in Int /\ checking[d].cutoff + Window[LimiterOf(d)] <= clock + 1
    <3>1. \A d \in Callers : checking[d].step = "prune" => Window[LimiterOf(d)] \in Nat
      BY <2>1, Basic
    <3>2. QED
      BY <1>1, <3>1 DEF LimiterInv, CallsInStep
  <2>3. \A d \in Callers : checking[d].step \in {"add", "expire"} =>
           checking[d].hit \in Hit /\ checking[d].hit.at <= clock + 1
    BY <1>1 DEF LimiterInv, CallsInStep, Hit
  <2>4. CallsInStep'
    BY <1>1, <2>2, <2>3 DEF LimiterInv, CallsInStep, LimiterOf
  <2>5. PassedPast'
    BY <1>1 DEF LimiterInv, LimiterTypeOK, PassedPast, Pass
  <2>6. QED
    BY <2>4, <2>5
<1>7. Crowd'
  <2>1. \A l \in Limiters : zset'[KeyOf[l]] \subseteq zset[KeyOf[l]]
    BY <1>2, Basic
  <2>2. QED
    BY <1>3, <2>1, CrowdKept DEF Crowd
<1>8. Outlived'
  <2> SUFFICES ASSUME NEW l \in Limiters, ttl'[KeyOf[l]] # None
               PROVE  /\ clock' < ttl'[KeyOf[l]] /\ ttl'[KeyOf[l]] <= clock' + Window[l]
                      /\ \A p \in PassedBy(l, "redis")' : p.at + Window[l] <= ttl'[KeyOf[l]]
                      /\ \A c \in At("expire", l)' :
                            \/ checking'[c].hit \in zset'[KeyOf[l]]
                            \/ checking'[c].hit.at + Window[l] <= ttl'[KeyOf[l]]
    BY DEF Outlived, Outlives
  <2>1. PICK until \in Nat : /\ ttl[KeyOf[l]] = until /\ ttl'[KeyOf[l]] = until
                             /\ ~(until <= clock') /\ zset'[KeyOf[l]] = zset[KeyOf[l]]
    BY <1>2, Basic DEF LimiterInv, LimiterTypeOK
  <2>2. /\ until <= clock + Window[l]
        /\ \A p \in PassedBy(l, "redis") : p.at + Window[l] <= until
        /\ \A c \in At("expire", l) :
              checking[c].hit \in zset[KeyOf[l]] \/ checking[c].hit.at + Window[l] <= until
    BY <2>1, RateLimiterAssumption DEF LimiterInv, Outlived, Outlives
  <2>3. clock' < until /\ until <= clock' + Window[l]
    BY <1>1, <2>1, <2>2, Basic
  <2>4. QED
    BY <1>1, <1>3, <1>4, <2>1, <2>2, <2>3
<1>9. LossBounded'
  <2> SUFFICES ASSUME NEW l \in Limiters
               PROVE  IsFiniteSet(Lost(l)') /\ Cardinality(Lost(l)') <= Cardinality(Callers)
    BY DEF LossBounded
  <2>1. CASE ttl[KeyOf[l]] # None /\ ttl[KeyOf[l]] <= clock'
    BY <1>1, <2>1, LossAtExpiry
  <2>2. CASE zset'[KeyOf[l]] = zset[KeyOf[l]]
    <3>1. ASSUME NEW h \in Lost(l)' PROVE h \in Lost(l)
      <4>1. /\ h \in {HitOf(p) : p \in PassedBy(l, "redis")} \cup {checking[c].hit : c \in At("expire", l)}
            /\ h.at > clock' - Window[l] /\ h \notin zset[KeyOf[l]]
        BY <1>1, <1>3, <1>4, <2>2 DEF Lost
      <4>2. h.at \in Nat
        <5>1. \A p \in PassedBy(l, "redis") : HitOf(p).at \in Nat
          BY DEF LimiterInv, LimiterTypeOK, PassedBy, Pass, HitOf
        <5>2. \A c \in At("expire", l) : checking[c].hit.at \in Nat
          BY DEF LimiterInv, CallsInStep, At, Hit
        <5>3. QED
          BY <4>1, <5>1, <5>2
      <4>3. h.at > clock - Window[l]
        BY <1>1, <4>1, <4>2, Basic
      <4>4. QED
        BY <4>1, <4>3 DEF Lost
    <3>2. Lost(l)' \subseteq Lost(l)
      BY <3>1
    <3>3. IsFiniteSet(Lost(l)) /\ Cardinality(Lost(l)) <= Cardinality(Callers)
      BY DEF LimiterInv, LossBounded
    <3>4. QED
      BY <3>2, <3>3, Basic, FS_Subset, FS_CardinalityType
  <2>3. QED
    BY <1>2, <2>1, <2>2, Basic
<1>10. MemoryExact'
  BY <1>1, <1>4, MemoryKept
<1>11. QED
  BY <1>5, <1>6, <1>7, <1>8, <1>9, <1>10 DEF LimiterInv

-----------------------------------------------------------------------------
(* Theorems *)

\* Whatever routes there are, as long as each is of limiters there are.
LEMMA LimiterStep ==
  ASSUME KeysApart, NEW routes \in SUBSET Seq(Limiters),
         LimiterInv, [LimiterNext(routes)]_limiterVars
  PROVE  LimiterInv'
<1>1. ASSUME NEW c \in Callers, NEW route \in routes, Checks(c, route)
      PROVE  LimiterInv'
  <2>1. route \in Seq(Limiters)
    OBVIOUS
  <2>2. QED
    BY <1>1, <2>1, ChecksKeeps
<1>2. ASSUME NEW c \in Callers, zremrangebyscore(c) PROVE LimiterInv'
  BY <1>2, PruneKeeps
<1>3. ASSUME NEW c \in Callers, zrange(c) PROVE LimiterInv'
  BY <1>3, CountKeeps
<1>4. ASSUME NEW c \in Callers, zadd(c) PROVE LimiterInv'
  BY <1>4, AddKeeps
<1>5. ASSUME NEW c \in Callers, expire(c) PROVE LimiterInv'
  BY <1>5, ExpireKeeps
<1>6. ASSUME NEW c \in Callers, RedisFails(c) PROVE LimiterInv'
  BY <1>6, FailureKeeps
<1>7. CASE Tick
  BY <1>7, TickKeeps
<1>8. CASE UNCHANGED limiterVars
  <2>1. UNCHANGED <<clock, zset, ttl, memory, checking, passed, drawn>>
    BY <1>8 DEF limiterVars
  <2>2. LimiterTypeOK' /\ CallsInStep' /\ PassedPast'
    BY <2>1 DEF LimiterInv, LimiterTypeOK, CallsInStep, PassedPast, LimiterOf
  <2>3. Crowd' /\ MemoryExact'
    BY <2>1 DEF LimiterInv, Crowd, MemoryExact, At, PassedBy, LimiterOf
  <2>4. Outlived' /\ LossBounded'
    BY <2>1 DEF LimiterInv, Outlived, Outlives, LossBounded, Lost, At, PassedBy, LimiterOf
  <2>5. QED
    BY <2>2, <2>3, <2>4 DEF LimiterInv
<1>9. QED
  BY <1>1, <1>2, <1>3, <1>4, <1>5, <1>6, <1>7, <1>8 DEF LimiterNext

\* LimiterInv holds in every state: hits and calls are well-formed, and what a set,
\* its expiry and the memory of the workers hold covers what was let through.
THEOREM LimiterInvariant ==
  ASSUME KeysApart
  PROVE  LimiterSpec => []LimiterInv
<1>1. Routes \in SUBSET Seq(Limiters)
  BY RateLimiterAssumption
<1>2. LimiterInv /\ [LimiterNext(Routes)]_limiterVars => LimiterInv'
  BY <1>1, LimiterStep
<1>3. QED
  BY <1>2, LimiterInitInv, PTL DEF LimiterSpec

\* A set with the hits of all that one store let through is as large as they are many.
LEMMA HitsApart ==
  ASSUME LimiterInv, NEW l, NEW by, NEW S, IsFiniteSet(S),
         \A p \in RecentBy(l, by) : HitOf(p) \in S
  PROVE  /\ IsFiniteSet(RecentBy(l, by))
         /\ Cardinality(RecentBy(l, by)) <= Cardinality(S)
<1>1. PICK f : f = [p \in RecentBy(l, by) |-> HitOf(p)]
  OBVIOUS
<1>2. f \in [RecentBy(l, by) -> S]
  BY <1>1
<1>3. ASSUME NEW p \in RecentBy(l, by), NEW q \in RecentBy(l, by), f[p] = f[q]
      PROVE  p = q
  <2>1. p \in Pass /\ q \in Pass /\ p.limiter = q.limiter /\ p.by = q.by
    BY DEF LimiterInv, LimiterTypeOK, RecentBy, Recent
  <2>2. p.no = q.no /\ p.at = q.at
    BY <1>1, <1>3 DEF HitOf
  <2>3. QED
    BY <2>1, <2>2 DEF Pass
<1>4. f \in Injection(RecentBy(l, by), S)
  BY <1>2, <1>3 DEF Injection, IsInjective
<1>5. QED
  BY <1>4, FS_Injection

\* The hits Redis let through in a window are in the set or lost.
LEMMA RedisBound ==
  ASSUME LimiterInv, NEW l \in Limiters
  PROVE  Cardinality(RecentBy(l, "redis")) <= Limit[l] - 1 + 2 * Cardinality(Callers)
<1>1. PICK S : S = zset[KeyOf[l]] \cup Lost(l)
  OBVIOUS
<1>2. IsFiniteSet(S) /\ Cardinality(S) <= Limit[l] - 1 + 2 * Cardinality(Callers)
  <2>1. /\ IsFiniteSet(zset[KeyOf[l]]) /\ IsFiniteSet(Lost(l))
        /\ Cardinality(Lost(l)) <= Cardinality(Callers)
        /\ Cardinality(zset[KeyOf[l]]) + Cardinality(At("add", l)) <= Limit[l] - 1 + Cardinality(Callers)
    BY Basic DEF LimiterInv, LimiterTypeOK, LossBounded, Crowd
  <2>2. IsFiniteSet(At("add", l))
    BY RateLimiterAssumption, FS_Subset DEF At
  <2>3. /\ IsFiniteSet(S)
        /\ Cardinality(S) <= Cardinality(zset[KeyOf[l]]) + Cardinality(Lost(l))
    <3>1. Cardinality(zset[KeyOf[l]] \cap Lost(l)) \in Nat
      BY <2>1, FS_Intersection, FS_CardinalityType
    <3>2. /\ Cardinality(zset[KeyOf[l]]) \in Nat /\ Cardinality(Lost(l)) \in Nat
      BY <2>1, FS_CardinalityType
    <3>3. /\ IsFiniteSet(S)
          /\ Cardinality(S) = Cardinality(zset[KeyOf[l]]) + Cardinality(Lost(l))
                                - Cardinality(zset[KeyOf[l]] \cap Lost(l))
      BY <1>1, <2>1, FS_Union
    <3>4. QED
      BY <3>1, <3>2, <3>3
  <2>4. /\ Cardinality(zset[KeyOf[l]]) \in Nat /\ Cardinality(Lost(l)) \in Nat
        /\ Cardinality(At("add", l)) \in Nat /\ Cardinality(S) \in Nat
    BY <2>1, <2>2, <2>3, FS_CardinalityType
  <2>5. QED
    BY <2>1, <2>3, <2>4, Basic
<1>3. ASSUME NEW p \in RecentBy(l, "redis") PROVE HitOf(p) \in S
  <2>1. p \in PassedBy(l, "redis") /\ HitOf(p).at > clock - Window[l]
    BY <1>3 DEF RecentBy, Recent, PassedBy, HitOf
  <2>2. QED
    BY <1>1, <2>1 DEF Lost
<1>4. Cardinality(RecentBy(l, "redis")) <= Cardinality(S)
  BY <1>2, <1>3, HitsApart
<1>5. QED
  <2>1. Cardinality(S) \in Nat /\ Cardinality(RecentBy(l, "redis")) \in Nat
    BY <1>2, <1>3, HitsApart, FS_CardinalityType
  <2>2. QED
    BY <1>2, <1>4, <2>1, Basic

\* A limiter is not overshot: the set holds, or has lost, what Redis let through.
LEMMA Bounded == LimiterInv => OvershootBounded
<1> SUFFICES ASSUME LimiterInv, NEW l \in Limiters
             PROVE  /\ Cardinality(RecentBy(l, "redis")) <= Limit[l] - 1 + 2 * Cardinality(Callers)
                    /\ \A w \in Workers : Cardinality(RecentBy(l, w)) <= Limit[l]
  BY DEF OvershootBounded
<1>1. ASSUME NEW w \in Workers PROVE Cardinality(RecentBy(l, w)) <= Limit[l]
  <2>1. PICK S : S = memory[w][KeyOf[l]]
    OBVIOUS
  <2>2. IsFiniteSet(S) /\ Cardinality(S) <= Limit[l]
    BY <2>1, Basic DEF LimiterInv, LimiterTypeOK, MemoryExact
  <2>3. \A p \in RecentBy(l, w) : HitOf(p) \in S
    BY <2>1 DEF RecentBy, Recent, PassedBy, LimiterInv, MemoryExact
  <2>4. /\ Cardinality(RecentBy(l, w)) <= Cardinality(S)
        /\ Cardinality(S) \in Nat /\ Cardinality(RecentBy(l, w)) \in Nat
    BY <2>2, <2>3, HitsApart, FS_CardinalityType
  <2>5. QED
    BY <2>2, <2>4, Basic
<1>2. QED
  BY <1>1, RedisBound

\* OvershootBounded (run clients) for every number of callers and workers, every limit
\* and window and any failures of Redis: no interleaving of the checks of a limiter
\* with a key of its own lets more through in its window (rate_limiter.py:167-250).
THEOREM OvershootIsBounded ==
  ASSUME KeysApart
  PROVE  LimiterSpec => []OvershootBounded
  BY LimiterInvariant, Bounded, PTL
=============================================================================
