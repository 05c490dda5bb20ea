------------------------- MODULE LiveKitObserverProofs -------------------------
(***************************************************************************)
(* Proofs about LiveKitObserver, for a call of any length, any choice of   *)
(* events that only the live stream brings, and a queue of any size.       *)
(***************************************************************************)
EXTENDS LiveKitObserver, FiniteSetTheorems, SequenceTheorems, WellFoundedInduction, TLAPS

-----------------------------------------------------------------------------
(* The inductive invariant *)

Items == 0 .. Turns + 2
Parent == Nat \cup {None}

Stages == {"call", "flush", "replay", "started", "rows", "ended", "close",
           "lastFlush", "lastReplay", "stats", "stop", "done"}
Replays == {"replay", "lastReplay"}
AfterStarted == {"rows", "ended", "close", "lastFlush", "lastReplay", "stats", "stop", "done"}
AfterRows == AfterStarted \ {"rows"}
AfterClose == {"lastFlush", "lastReplay", "stats", "stop", "done"}
AfterFlush == AfterClose \ {"lastFlush"}
AfterReplay == AfterFlush \ {"lastReplay"}

\* Who holds the lock and who waits for it, nobody twice.
Locks == {lock \in Seq(Tasks) : \A i, j \in DOMAIN lock : lock[i] = lock[j] => i = j}

Recording == [item : Items, root : BOOLEAN, parent : Parent]

WriteTypeOK ==
    /\ strand \in Seq(Recording)
    /\ late \subseteq Recording
    /\ acked \subseteq DOMAIN strand
    /\ head \in Parent
    /\ chainLock \in Locks
    /\ write \in [Tasks -> [step : {"none", "waits", "sent"}, item : Items \cup {None},
                            root : BOOLEAN, parent : Parent]]

SessionTypeOK ==
    /\ queue \in Seq(Items)
    /\ spill \in Seq(Items)
    /\ observer \in [attached : BOOLEAN, seen : SUBSET (1 .. Turns), started : BOOLEAN,
                     closed : BOOLEAN, counted : BOOLEAN, writes : BOOLEAN]
    /\ ending \in [at : Stages, lines : Seq(Items), rows : Seq(1 .. Turns)]
    /\ said \in 0 .. Turns
    /\ due \subseteq 1 .. Turns

Writing(task) == write[task].step # "none"

\* A task is in _log as long as it holds the lock or waits for it, and has a request
\* on its way only while it holds it.
LockInv ==
    \A task \in Tasks :
       /\ Writing(task) <=> \E i \in DOMAIN chainLock : chainLock[i] = task
       /\ write[task].step = "sent" => Head(chainLock) = task
       /\ Writing(task) => write[task].item \in Items

\* The head is the newest event whose answer was received, and a request on its way
\* continues it.
HeadInv ==
    /\ \/ head = None /\ acked = {}
       \/ head \in acked /\ \A e \in acked : e <= head
    /\ \A task \in Tasks : write[task].step = "sent" =>
          write[task].parent = IF write[task].root THEN None ELSE head

ChainInv == WriteTypeOK /\ LockInv /\ HeadInv /\ AckedStrandIsSingle

\* What on_session_end is doing, and what it writes there.
StageInv ==
    /\ observer.closed <=> ending.at \in AfterClose
    /\ Writing("session") =>
          \/ ending.at \in Replays /\ ending.lines # <<>> /\ write["session"].item = Head(ending.lines)
          \/ ending.at = "started" /\ write["session"].item = SessionStarted
          \/ ending.at = "rows" /\ ending.rows # <<>> /\ write["session"].item = Head(ending.rows)
          \/ ending.at = "ended" /\ write["session"].item = SessionEnded
          \/ ending.at = "stats" /\ write["session"].item = SessionStats
    /\ ending.at = "ended" => Writing("session")
    /\ ending.at \in AfterRows => ending.rows = <<>>
    /\ ending.at = "call" => ending.rows = <<>>
    /\ observer.seen \subseteq 1 .. said
    /\ \A i \in DOMAIN ending.rows : ending.rows[i] \in 1 .. said

\* No request with this item has been sent and given up, or recorded.
Fresh(x) ==
    /\ \A i \in DOMAIN strand : strand[i].item # x
    /\ \A r \in late : r.item # x

GoneOnce ==
    /\ \A i, j \in DOMAIN strand : strand[i].item = strand[j].item => i = j
    /\ \A i \in DOMAIN strand, r \in late : strand[i].item # r.item
    /\ \A r, q \in late : r.item = q.item => r = q

\* The lines that are still to be replayed; what is spilled during a replay goes with
\* the file.
Backlog == IF ending.at \in Replays THEN ending.lines ELSE spill

\* What waits to be written waits in one place, and has not been sent before.
WaitingOnce ==
    /\ \A task \in Tasks : Writing(task) => Fresh(write[task].item)
    /\ Writing("writer") /\ Writing("session") => write["writer"].item # write["session"].item
    /\ \A k \in DOMAIN queue :
          Fresh(queue[k]) /\ \A task \in Tasks : Writing(task) => write[task].item # queue[k]
    /\ \A j, k \in DOMAIN queue : queue[j] = queue[k] => j = k
    /\ \A k \in DOMAIN Backlog :
          /\ Fresh(Backlog[k])
          /\ \A j \in DOMAIN queue : queue[j] # Backlog[k]
          /\ Writing("writer") => write["writer"].item # Backlog[k]
          /\ Writing("session") /\ write["session"].item = Backlog[k] => ending.at \in Replays /\ k = 1
    /\ \A j, k \in DOMAIN Backlog : Backlog[j] = Backlog[k] => j = k

Placed(x) ==
    \/ ~Fresh(x)
    \/ \E task \in Tasks : Writing(task) /\ write[task].item = x
    \/ \E k \in DOMAIN queue : queue[k] = x
    \/ \E k \in DOMAIN Backlog : Backlog[k] = x

\* What is in the observer's hands, or has left them, is marked as such.
Marked ==
    /\ \A x \in 1 .. Turns : Placed(x) => x \in observer.seen
    /\ Placed(SessionStarted) =>
          \/ observer.started \/ ending.at \in AfterStarted
          \/ ending.at = "started" /\ Writing("session")
    /\ Placed(SessionEnded) => ending.at \in AfterRows
    /\ Placed(SessionStats) => ending.at \in {"stop", "done"} \/ (ending.at = "stats" /\ Writing("session"))

ItemsOnce == GoneOnce /\ WaitingOnce

OnceInv == "cancelled" \notin trouble => ItemsOnce /\ Marked

\* As long as nothing went wrong, nothing gets lost.
KeptInv ==
    trouble = {} =>
       /\ late = {}
       /\ acked = DOMAIN strand
       /\ observer.started \/ ending.at \in AfterStarted => Placed(SessionStarted)
       /\ ending.at \in AfterRows => Placed(SessionEnded)
       /\ \A x \in observer.seen : Placed(x)
       /\ \A x \in due : Placed(x) \/ \E i \in DOMAIN ending.rows : ending.rows[i] = x
       /\ ending.at \in AfterFlush => queue = <<>> /\ ~Writing("writer")
       /\ ending.at \in AfterReplay => spill = <<>>

ItemsInv == OnceInv /\ KeptInv

ObserverInv == ChainInv /\ SessionTypeOK /\ StageInv /\ ItemsInv

-----------------------------------------------------------------------------
(* Lemmas: the lock *)

Holds(lock, task) == \E i \in DOMAIN lock : lock[i] = task

\* Who asks for the lock comes last.
LEMMA LockJoined ==
  ASSUME NEW lock \in Locks, NEW task \in Tasks, ~Holds(lock, task)
  PROVE  /\ Append(lock, task) \in Locks
         /\ \A t \in Tasks : Holds(Append(lock, task), t) <=> Holds(lock, t) \/ t = task
         /\ Head(Append(lock, task)) = IF lock = <<>> THEN task ELSE Head(lock)
<1> DEFINE more == Append(lock, task)
<1>1. /\ lock \in Seq(Tasks) /\ Len(lock) \in Nat /\ DOMAIN lock = 1 .. Len(lock)
      /\ \A i, j \in 1 .. Len(lock) : lock[i] = lock[j] => i = j
  BY DEF Locks
<1>2. /\ more \in Seq(Tasks) /\ DOMAIN more = 1 .. Len(lock) + 1
      /\ \A k \in 1 .. Len(lock) : more[k] = lock[k]
      /\ more[Len(lock) + 1] = task
  BY <1>1, AppendProperties, LenProperties
<1>3. Head(more) = IF lock = <<>> THEN task ELSE Head(lock)
  BY <1>1
<1> HIDE DEF more
<1>4. \A t \in Tasks : Holds(more, t) <=> Holds(lock, t) \/ t = task
  BY <1>1, <1>2 DEF Holds
<1>5. \A k \in 1 .. Len(lock) : lock[k] # task
  BY <1>1 DEF Holds
<1>6. \A i, j \in DOMAIN more : more[i] = more[j] => i = j
  BY <1>1, <1>2, <1>5
<1>7. more \in Locks
  BY <1>2, <1>6 DEF Locks
<1>8. QED
  BY <1>3, <1>4, <1>7 DEF more

\* Who leaves, or gives up waiting, is gone; the others keep their places.
LEMMA LockLeft ==
  ASSUME NEW lock \in Locks, NEW task \in Tasks
  PROVE  /\ RemoveFirst(lock, task) \in Locks
         /\ \A t \in Tasks : Holds(RemoveFirst(lock, task), t) <=> Holds(lock, t) /\ t # task
         /\ \A t \in Tasks \ {task} :
               Holds(lock, t) /\ Head(lock) = t => Head(RemoveFirst(lock, task)) = t
<1>1. CASE ~Holds(lock, task)
  <2>1. RemoveFirst(lock, task) = lock
    BY <1>1 DEF RemoveFirst, Holds, Locks
  <2>2. QED
    BY <1>1, <2>1
<1>2. CASE Holds(lock, task)
  <2>1. PICK n \in 1 .. Len(lock) : lock[n] = task
    BY <1>2 DEF Holds, Locks
  <2>2. {j \in 1 .. Len(lock) : lock[j] = task} = {n}
    BY <2>1 DEF Locks
  <2>3. Min({n}) = n
    BY DEF Min
  <2>4. RemoveFirst(lock, task) = SubSeq(lock, 1, n - 1) \o SubSeq(lock, n + 1, Len(lock))
    BY <2>1, <2>2, <2>3 DEF RemoveFirst, SelectInSeq, RemoveAt
  <2> DEFINE left == SubSeq(lock, 1, n - 1) \o SubSeq(lock, n + 1, Len(lock))
  <2>5. lock \in Seq(Tasks) /\ Len(lock) \in Nat /\ DOMAIN lock = 1 .. Len(lock)
    BY DEF Locks
  <2>50. \A i, j \in 1 .. Len(lock) : lock[i] = lock[j] => i = j
    BY <2>5 DEF Locks
  <2> DEFINE front == SubSeq(lock, 1, n - 1)
             back == SubSeq(lock, n + 1, Len(lock))
  <2> HIDE DEF front, back, left
  <2>60. n \in 1 .. Len(lock)
    BY <2>1
  <2>61. /\ front \in Seq(Tasks) /\ Len(front) = n - 1
         /\ \A k \in 1 .. n - 1 : front[k] = lock[k]
    BY <2>5, <2>60, SubSeqProperties DEF front
  <2>62. /\ back \in Seq(Tasks) /\ Len(back) = Len(lock) - n
         /\ \A k \in 1 .. Len(lock) - n : back[k] = lock[k + n]
    <3>1. n + 1 \in Int /\ \A k \in n + 1 .. Len(lock) : lock[k] \in Tasks
      BY <2>5, <2>60
    <3>2. /\ back \in Seq(Tasks)
          /\ Len(back) = IF n + 1 <= Len(lock) THEN Len(lock) - (n + 1) + 1 ELSE 0
          /\ \A k \in 1 .. Len(lock) - (n + 1) + 1 : back[k] = lock[(n + 1) + k - 1]
      BY <2>5, <3>1, SubSeqProperties DEF back
    <3>3. Len(lock) - (n + 1) + 1 = Len(lock) - n
      BY <2>5, <2>60
    <3>4. Len(back) = Len(lock) - n
      <4>1. CASE n + 1 <= Len(lock)
        BY <3>2, <3>3, <4>1
      <4>2. CASE ~(n + 1 <= Len(lock))
        <5>1. n \in Int /\ Len(lock) \in Int /\ n <= Len(lock)
          BY <2>5, <2>60
        <5>2. Len(lock) < n + 1
          BY <4>2, <5>1
        <5>3. Len(lock) - n = 0
          BY <5>1, <5>2
        <5>4. QED
          BY <3>2, <4>2, <5>3
      <4>3. QED
        BY <4>1, <4>2
    <3>5. ASSUME NEW k \in 1 .. Len(lock) - n
          PROVE  back[k] = lock[k + n]
      <4>1. (n + 1) + k - 1 = k + n
        BY <2>5, <2>60
      <4>2. QED
        BY <3>2, <3>3, <4>1
    <3>6. QED
      BY <3>2, <3>4, <3>5
  <2>6. /\ left \in Seq(Tasks) /\ Len(left) = Len(lock) - 1
        /\ \A k \in 1 .. Len(lock) - 1 : left[k] = IF k < n THEN lock[k] ELSE lock[k + 1]
    <3>1. left = front \o back
      BY DEF front, back, left
    <3>2. /\ left \in Seq(Tasks) /\ Len(left) = Len(front) + Len(back)
          /\ \A k \in 1 .. Len(front) + Len(back) :
                left[k] = IF k <= Len(front) THEN front[k] ELSE back[k - Len(front)]
      BY <2>61, <2>62, <3>1, ConcatProperties
    <3>3. Len(front) + Len(back) = Len(lock) - 1
      BY <2>5, <2>60, <2>61, <2>62
    <3>4. ASSUME NEW k \in 1 .. Len(lock) - 1
          PROVE  left[k] = IF k < n THEN lock[k] ELSE lock[k + 1]
      <4>1. CASE k < n
        BY <2>5, <2>60, <2>61, <3>2, <3>3, <4>1
      <4>2. CASE ~(k < n)
        <5>1. left[k] = back[k - (n - 1)]
          BY <2>5, <2>60, <2>61, <3>2, <3>3, <4>2
        <5>2. k - (n - 1) \in 1 .. Len(lock) - n /\ k - (n - 1) + n = k + 1
          BY <2>5, <2>60, <4>2
        <5>3. QED
          BY <2>62, <4>2, <5>1, <5>2
      <4>3. QED
        BY <4>1, <4>2
    <3>5. QED
      BY <3>2, <3>3, <3>4
  <2>7. DOMAIN left = 1 .. Len(lock) - 1
    BY <2>5, <2>6
  <2>8. left \in Locks
    <3>1. ASSUME NEW i \in DOMAIN left, NEW j \in DOMAIN left, left[i] = left[j]
          PROVE  i = j
      BY <2>5, <2>50, <2>60, <2>6, <2>7, <3>1
    <3>2. QED
      BY <2>6, <3>1 DEF Locks
  <2>9. ASSUME NEW t \in Tasks
        PROVE  Holds(left, t) <=> Holds(lock, t) /\ t # task
    <3>1. ASSUME NEW k \in DOMAIN left, left[k] = t
          PROVE  Holds(lock, t) /\ t # task
      BY <2>1, <2>5, <2>6, <2>7, <3>1 DEF Holds, Locks
    <3>2. ASSUME NEW k \in DOMAIN lock, lock[k] = t, t # task
          PROVE  Holds(left, t)
      <4>1. CASE k < n
        BY <2>1, <2>5, <2>6, <2>7, <3>2, <4>1 DEF Holds
      <4>2. CASE k > n
        <5>1. k - 1 \in DOMAIN left /\ left[k - 1] = lock[k]
          BY <2>1, <2>5, <2>6, <2>7, <4>2
        <5>2. QED
          BY <3>2, <5>1 DEF Holds
      <4>3. QED
        BY <2>1, <2>5, <3>2, <4>1, <4>2
    <3>3. QED
      BY <3>1, <3>2 DEF Holds
  <2>10. ASSUME NEW t \in Tasks \ {task}, Holds(lock, t), Head(lock) = t
         PROVE  Head(left) = t
    BY <2>1, <2>5, <2>6, <2>7, <2>10 DEF Holds
  <2>11. left = RemoveFirst(lock, task)
    BY <2>4 DEF left
  <2>12. QED
    BY <2>8, <2>9, <2>10, <2>11
<1>3. QED
  BY <1>1, <1>2

-----------------------------------------------------------------------------
(* Lemmas: what _log does to the log and to the lock *)

\* Who enters _log gets the lock, and goes, or waits.
LEMMA LogKeepsChain ==
  ASSUME ChainInv, NEW task \in Tasks, ~Writing(task), NEW item \in Items, NEW root \in BOOLEAN,
         Log(task, item, root)
  PROVE  ChainInv'
<1> USE DEF ChainInv
<1> DEFINE entered == [step |-> IF chainLock = <<>> THEN "sent" ELSE "waits", item |-> item,
                       root |-> root, parent |-> IF root \/ chainLock # <<>> THEN None ELSE head]
<1>1. /\ UNCHANGED <<strand, late, acked, head>>
      /\ chainLock' = Append(chainLock, task)
      /\ write' = [write EXCEPT ![task] = entered]
  BY DEF Log
<1>2. entered \in [step : {"none", "waits", "sent"}, item : Items \cup {None},
                   root : BOOLEAN, parent : Parent]
  BY DEF WriteTypeOK, Parent
<1>3. ~Holds(chainLock, task)
  BY DEF LockInv, Holds
<1>4. /\ chainLock' \in Locks
      /\ \A t \in Tasks : Holds(chainLock', t) <=> Holds(chainLock, t) \/ t = task
      /\ Head(chainLock') = IF chainLock = <<>> THEN task ELSE Head(chainLock)
  BY <1>1, <1>3, LockJoined DEF WriteTypeOK
<1>5. WriteTypeOK'
  BY <1>1, <1>2, <1>4 DEF WriteTypeOK
<1>6. \A t \in Tasks : write'[t] = IF t = task THEN entered ELSE write[t]
  BY <1>1 DEF WriteTypeOK
<1>7. LockInv'
  <2> SUFFICES ASSUME NEW t \in Tasks
               PROVE  /\ write'[t].step # "none" <=> Holds(chainLock', t)
                      /\ write'[t].step = "sent" => Head(chainLock') = t
                      /\ write'[t].step # "none" => write'[t].item \in Items
    BY DEF LockInv, Writing, Holds
  <2>1. CASE t = task
    BY <1>4, <1>6, <2>1
  <2>2. CASE t # task
    <3>1. write'[t] = write[t]
      BY <1>6, <2>2
    <3>2. Holds(chainLock, t) => chainLock # <<>>
      BY DEF Holds
    <3>3. QED
      BY <1>4, <2>2, <3>1, <3>2 DEF LockInv, Writing, Holds
  <2>3. QED
    BY <2>1, <2>2
<1>8. HeadInv'
  BY <1>1, <1>6 DEF HeadInv
<1>9. AckedStrandIsSingle'
  BY <1>1 DEF AckedStrandIsSingle
<1>10. QED
  BY <1>5, <1>7, <1>8, <1>9

\* Whose turn it is sends the request, which continues the head as it is now.
LEMMA StartKeepsChain ==
  ASSUME ChainInv, NEW task \in Tasks, StartWrite(task)
  PROVE  ChainInv'
<1> USE DEF ChainInv
<1> DEFINE sent == [write[task] EXCEPT !.step = "sent", !.parent = IF write[task].root THEN None ELSE head]
<1>1. /\ UNCHANGED <<strand, late, acked, head, chainLock>>
      /\ write' = [write EXCEPT ![task] = sent]
      /\ write[task].step = "waits" /\ Head(chainLock) = task
  BY DEF StartWrite, WriteTypeOK
<1>2. /\ sent \in [step : {"none", "waits", "sent"}, item : Items \cup {None},
                   root : BOOLEAN, parent : Parent]
      /\ sent.step = "sent" /\ sent.item = write[task].item /\ sent.root = write[task].root
      /\ sent.parent = IF write[task].root THEN None ELSE head
  BY DEF WriteTypeOK, Parent
<1>3. \A t \in Tasks : write'[t] = IF t = task THEN sent ELSE write[t]
  BY <1>1 DEF WriteTypeOK
<1> HIDE DEF sent
<1>4. WriteTypeOK'
  BY <1>1, <1>2 DEF WriteTypeOK
<1>5. LockInv'
  BY <1>1, <1>2, <1>3 DEF LockInv, Writing
<1>6. HeadInv'
  BY <1>1, <1>2, <1>3 DEF HeadInv
<1>7. AckedStrandIsSingle'
  BY <1>1 DEF AckedStrandIsSingle
<1>8. QED
  BY <1>4, <1>5, <1>6, <1>7

\* The record that the server makes of a request.
LEMMA PendingIsRecording ==
  ASSUME WriteTypeOK, LockInv, NEW task \in Tasks, Writing(task)
  PROVE  /\ Pending(task) \in Recording
         /\ Pending(task).item = write[task].item
         /\ Pending(task).root = write[task].root /\ Pending(task).parent = write[task].parent
  BY DEF WriteTypeOK, LockInv, Pending, Recorded, Recording

\* Who leaves _log is in it no more; the other keeps its place and its request.
LEMMA LeavesLock ==
  ASSUME WriteTypeOK, LockInv, NEW task \in Tasks,
         chainLock' = RemoveFirst(chainLock, task), write' = [write EXCEPT ![task] = NoWrite]
  PROVE  /\ chainLock' \in Locks
         /\ write' \in [Tasks -> [step : {"none", "waits", "sent"}, item : Items \cup {None},
                                  root : BOOLEAN, parent : Parent]]
         /\ ~Writing(task)'
         /\ \A t \in Tasks \ {task} : write'[t] = write[t]
         /\ LockInv'
<1>1. /\ chainLock' \in Locks
      /\ \A t \in Tasks : Holds(chainLock', t) <=> Holds(chainLock, t) /\ t # task
      /\ \A t \in Tasks \ {task} :
            Holds(chainLock, t) /\ Head(chainLock) = t => Head(chainLock') = t
  BY LockLeft DEF WriteTypeOK
<1>2. NoWrite \in [step : {"none", "waits", "sent"}, item : Items \cup {None},
                   root : BOOLEAN, parent : Parent] /\ NoWrite.step = "none"
  BY DEF NoWrite, Parent
<1>3. write' \in [Tasks -> [step : {"none", "waits", "sent"}, item : Items \cup {None},
                           root : BOOLEAN, parent : Parent]]
  BY <1>2 DEF WriteTypeOK
<1>4. write'[task] = NoWrite /\ \A t \in Tasks \ {task} : write'[t] = write[t]
  BY DEF WriteTypeOK
<1>5. LockInv'
  <2> SUFFICES ASSUME NEW t \in Tasks
               PROVE  /\ write'[t].step # "none" <=> Holds(chainLock', t)
                      /\ write'[t].step = "sent" => Head(chainLock') = t
                      /\ write'[t].step # "none" => write'[t].item \in Items
    BY DEF LockInv, Writing, Holds
  <2>1. CASE t = task
    BY <1>1, <1>2, <1>4, <2>1
  <2>2. CASE t # task
    BY <1>1, <1>4, <2>2 DEF LockInv, Writing, Holds
  <2>3. QED
    BY <2>1, <2>2
<1>6. QED
  BY <1>1, <1>2, <1>3, <1>4, <1>5 DEF Writing

\* One more event in the log; those that were answered are still what they were.
LEMMA StrandGrows ==
  ASSUME ChainInv, NEW r \in Recording, strand' = Append(strand, r)
  PROVE  /\ strand' \in Seq(Recording)
         /\ Len(strand) \in Nat /\ DOMAIN strand = 1 .. Len(strand)
         /\ DOMAIN strand' = 1 .. Len(strand) + 1
         /\ \A i \in DOMAIN strand : strand'[i] = strand[i]
         /\ strand'[Len(strand) + 1] = r
  BY AppendProperties, LenProperties DEF ChainInv, WriteTypeOK

\* The newest event of the strand is the one before the answered event.
LEMMA AnsweredKeepsChain ==
  ASSUME ChainInv, NEW task \in Tasks, Answered(task)
  PROVE  ChainInv'
<1> USE DEF ChainInv
<1>1. /\ write[task].step = "sent"
      /\ strand' = Append(strand, Pending(task))
      /\ head' = Len(strand) + 1 /\ acked' = acked \cup {Len(strand) + 1}
      /\ chainLock' = RemoveFirst(chainLock, task)
      /\ write' = [write EXCEPT ![task] = NoWrite]
      /\ UNCHANGED late
  BY DEF Answered, Releases
<1>2. /\ Pending(task) \in Recording
      /\ Pending(task).root = write[task].root /\ Pending(task).parent = write[task].parent
  BY <1>1, PendingIsRecording DEF Writing
<1>3. /\ strand' \in Seq(Recording)
      /\ Len(strand) \in Nat /\ DOMAIN strand = 1 .. Len(strand)
      /\ DOMAIN strand' = 1 .. Len(strand) + 1
      /\ \A i \in DOMAIN strand : strand'[i] = strand[i]
      /\ strand'[Len(strand) + 1] = Pending(task)
  BY <1>1, <1>2, StrandGrows
<1>4. /\ chainLock' \in Locks
      /\ write' \in [Tasks -> [step : {"none", "waits", "sent"}, item : Items \cup {None},
                               root : BOOLEAN, parent : Parent]]
      /\ ~Writing(task)'
      /\ \A t \in Tasks \ {task} : write'[t] = write[t]
      /\ LockInv'
  BY <1>1, LeavesLock
<1>5. \A e \in acked : e \in 1 .. Len(strand)
  BY <1>3 DEF WriteTypeOK
<1>6. WriteTypeOK'
  BY <1>1, <1>3, <1>4 DEF WriteTypeOK, Parent
<1>7. HeadInv'
  <2>1. head' \in acked' /\ \A e \in acked' : e <= head'
    BY <1>1, <1>3, <1>5
  <2>2. \A t \in Tasks : write'[t].step # "sent"
    <3>1. write'[task].step # "sent"
      BY <1>4 DEF Writing
    <3>2. ASSUME NEW t \in Tasks \ {task}
          PROVE  write'[t].step # "sent"
      BY <1>1, <1>4 DEF LockInv
    <3>3. QED
      BY <3>1, <3>2
  <2>3. QED
    BY <2>1, <2>2 DEF HeadInv
<1>8. AckedStrandIsSingle'
  <2> SUFFICES ASSUME NEW e \in acked', ~strand'[e].root
               PROVE  LET before == {f \in acked' : f < e}
                      IN  IF before = {} THEN strand'[e].parent = None
                          ELSE strand'[e].parent \in before
                               /\ \A f \in before : f <= strand'[e].parent
    BY DEF AckedStrandIsSingle
  <2>1. CASE e \in acked
    <3>1. {f \in acked' : f < e} = {f \in acked : f < e}
      BY <1>1, <1>3, <1>5, <2>1
    <3>2. strand'[e] = strand[e]
      BY <1>3, <1>5, <2>1
    <3>3. QED
      BY <2>1, <3>1, <3>2 DEF AckedStrandIsSingle
  <2>2. CASE e = Len(strand) + 1
    <3>1. {f \in acked' : f < e} = acked
      <4>1. \A f \in acked : f < e /\ f # e
        BY <1>3, <1>5, <2>2
      <4>2. ~(e < e)
        BY <1>3, <2>2
      <4>3. acked' = acked \cup {e}
        BY <1>1, <2>2
      <4>4. QED
        BY <4>1, <4>2, <4>3
    <3>2. strand'[e].parent = head
      BY <1>1, <1>2, <1>3, <2>2 DEF HeadInv
    <3>3. QED
      BY <3>1, <3>2 DEF HeadInv
  <2>3. QED
    BY <1>1, <2>1, <2>2
<1>9. QED
  BY <1>4, <1>6, <1>7, <1>8

\* More events that nobody hears of, or none: the strand is what it was.
LEMMA UnheardKeepsStrand ==
  ASSUME ChainInv, UNCHANGED <<acked, head>>,
         \/ UNCHANGED strand
         \/ \E r \in Recording : strand' = Append(strand, r)
  PROVE  /\ strand' \in Seq(Recording) /\ acked' \subseteq DOMAIN strand'
         /\ AckedStrandIsSingle'
<1> USE DEF ChainInv
<1>1. CASE UNCHANGED strand
  BY <1>1 DEF WriteTypeOK, AckedStrandIsSingle
<1>2. ASSUME NEW r \in Recording, strand' = Append(strand, r)
      PROVE  /\ strand' \in Seq(Recording) /\ acked' \subseteq DOMAIN strand'
             /\ AckedStrandIsSingle'
  <2>1. /\ strand' \in Seq(Recording)
        /\ Len(strand) \in Nat /\ DOMAIN strand = 1 .. Len(strand)
        /\ DOMAIN strand' = 1 .. Len(strand) + 1
        /\ \A i \in DOMAIN strand : strand'[i] = strand[i]
    BY <1>2, StrandGrows
  <2>2. acked \subseteq DOMAIN strand /\ DOMAIN strand \subseteq DOMAIN strand'
    BY <2>1 DEF WriteTypeOK
  <2>3. \A e \in acked : strand'[e] = strand[e]
    BY <2>1, <2>2
  <2>4. AckedStrandIsSingle'
    BY <2>3 DEF AckedStrandIsSingle
  <2>5. QED
    BY <2>1, <2>2, <2>4
<1>3. QED
  BY <1>1, <1>2

\* A write that is given up, by its task or with it.
LEMMA GivenUpKeepsChain ==
  ASSUME ChainInv, NEW task \in Tasks, Abandon(task), UNCHANGED <<acked, head>>,
         chainLock' = Releases(task, FALSE), write' = [write EXCEPT ![task] = NoWrite]
  PROVE  ChainInv'
<1> USE DEF ChainInv
<1>1. \/ UNCHANGED <<strand, late>>
      \/ Writing(task) /\ late' = late \cup {Pending(task)} /\ UNCHANGED strand
      \/ Writing(task) /\ strand' = Append(strand, Pending(task)) /\ UNCHANGED late
  BY DEF Abandon, Writing
<1>2. Writing(task) => Pending(task) \in Recording
  BY PendingIsRecording
<1>3. /\ strand' \in Seq(Recording) /\ acked' \subseteq DOMAIN strand'
      /\ AckedStrandIsSingle'
  BY <1>1, <1>2, UnheardKeepsStrand
<1>4. late' \subseteq Recording
  BY <1>1, <1>2 DEF WriteTypeOK
<1>5. /\ chainLock' \in Locks
      /\ write' \in [Tasks -> [step : {"none", "waits", "sent"}, item : Items \cup {None},
                               root : BOOLEAN, parent : Parent]]
      /\ ~Writing(task)'
      /\ \A t \in Tasks \ {task} : write'[t] = write[t]
      /\ LockInv'
  BY LeavesLock DEF Releases
<1>6. WriteTypeOK'
  BY <1>3, <1>4, <1>5 DEF WriteTypeOK
<1>7. HeadInv'
  <2>1. ASSUME NEW t \in Tasks, write'[t].step = "sent"
        PROVE  write'[t].parent = IF write'[t].root THEN None ELSE head'
    <3>1. t # task
      BY <1>5, <2>1 DEF Writing
    <3>2. QED
      BY <1>5, <2>1, <3>1 DEF HeadInv
  <2>2. QED
    BY <2>1 DEF HeadInv
<1>8. QED
  BY <1>3, <1>5, <1>6, <1>7

\* A late request.
LEMMA LateKeepsChain ==
  ASSUME ChainInv, ServerAppendsLate
  PROVE  ChainInv'
<1> USE DEF ChainInv
<1>1. PICK r \in late : late' = late \ {r} /\ strand' = Append(strand, r)
  BY DEF ServerAppendsLate
<1>2. UNCHANGED <<acked, head, chainLock, write>>
  BY DEF ServerAppendsLate
<1>3. r \in Recording
  BY DEF WriteTypeOK
<1>4. /\ strand' \in Seq(Recording) /\ acked' \subseteq DOMAIN strand'
      /\ AckedStrandIsSingle'
  BY <1>1, <1>2, <1>3, UnheardKeepsStrand
<1>5. WriteTypeOK'
  BY <1>1, <1>2, <1>4 DEF WriteTypeOK
<1>6. LockInv' /\ HeadInv'
  BY <1>2 DEF LockInv, HeadInv, Writing
<1>7. QED
  BY <1>4, <1>5, <1>6

-----------------------------------------------------------------------------
(* Lemmas: the report of a session *)

\* A set of natural numbers has a least one: induction, by the least counterexample.
LEMMA LeastNatural ==
  ASSUME NEW T \in SUBSET Nat, T # {}
  PROVE  \E n \in T : \A m \in T : n <= m
<1>1. IsWellFoundedOn(OpToRel(<, Nat), Nat)
  BY NatLessThanWellFounded
<1>2. PICK n \in T : \A m \in T : <<m, n>> \notin OpToRel(<, Nat)
  BY <1>1, WFMin
<1>3. \A m \in T : ~(m < n)
  BY <1>2 DEF OpToRel
<1>4. QED
  BY <1>3

Increasing(rows) == \A i, j \in DOMAIN rows : i < j => rows[i] < rows[j]

InOrder(n) == \E rows \in [1 .. Cardinality(Reported(n)) -> Reported(n)] : Increasing(rows)

\* The events of a report are finitely many.
LEMMA ReportedFinite ==
  ASSUME NEW n \in Nat
  PROVE  IsFiniteSet(Reported(n)) /\ Cardinality(Reported(n)) \in Nat /\ Reported(n) \subseteq 1 .. n
<1>1. IsFiniteSet(1 .. n)
  BY FS_Interval
<1>2. IsFiniteSet(Reported(n))
  BY <1>1, FS_Subset DEF Reported
<1>3. QED
  BY <1>2, FS_CardinalityType DEF Reported

\* One event more in the report, or the same.
LEMMA OneMoreInOrder ==
  ASSUME NEW n \in Nat, InOrder(n)
  PROVE  InOrder(n + 1)
<1> DEFINE k == Cardinality(Reported(n))
<1>1. PICK rows \in [1 .. k -> Reported(n)] : Increasing(rows)
  BY DEF InOrder
<1>2. k \in Nat /\ IsFiniteSet(Reported(n)) /\ Reported(n) \subseteq 1 .. n
  BY ReportedFinite
<1>3. CASE n + 1 \in LiveOnly
  <2>1. Reported(n + 1) = Reported(n)
    BY <1>3 DEF Reported
  <2>2. QED
    BY <1>1, <2>1 DEF InOrder
<1>4. CASE n + 1 \notin LiveOnly
  <2>1. Reported(n + 1) = Reported(n) \cup {n + 1} /\ n + 1 \notin Reported(n)
    BY <1>4 DEF Reported
  <2>2. Cardinality(Reported(n + 1)) = k + 1
    BY <1>2, <2>1, FS_AddElement
  <2> HIDE DEF k
  <2> DEFINE more == [i \in 1 .. k + 1 |-> IF i = k + 1 THEN n + 1 ELSE rows[i]]
  <2>3. \A i \in 1 .. k + 1 : i = k + 1 \/ i \in 1 .. k
    BY <1>2
  <2>4. more \in [1 .. k + 1 -> Reported(n + 1)]
    BY <1>1, <2>1, <2>3
  <2>5. ASSUME NEW i \in 1 .. k + 1, NEW j \in 1 .. k + 1, i < j
        PROVE  more[i] < more[j]
    <3>1. i \in 1 .. k /\ more[i] = rows[i] /\ rows[i] \in 1 .. n
      BY <1>1, <1>2, <2>5
    <3>2. CASE j = k + 1
      BY <3>1, <3>2
    <3>3. CASE j \in 1 .. k
      <4>1. more[j] = rows[j]
        BY <1>2, <3>3
      <4>2. rows[i] < rows[j]
        BY <1>1, <2>5, <3>1, <3>3 DEF Increasing
      <4>3. QED
        BY <3>1, <4>1, <4>2
    <3>4. QED
      BY <2>3, <3>2, <3>3
  <2>6. Increasing(more)
    BY <2>4, <2>5 DEF Increasing
  <2>7. QED
    BY <2>2, <2>4, <2>6 DEF InOrder
<1>5. QED
  BY <1>3, <1>4

\* What is reported of a session can be put in order, however long it was.
LEMMA ReportsAreOrdered == \A n \in Nat : InOrder(n)
<1> DEFINE Bad == {n \in Nat : ~InOrder(n)}
<1>1. SUFFICES ASSUME Bad # {}
               PROVE  FALSE
  OBVIOUS
<1>2. PICK n \in Bad : \A m \in Bad : n <= m
  BY <1>1, LeastNatural
<1>3. CASE n = 0
  <2>1. Reported(0) = {}
    BY DEF Reported
  <2>2. Cardinality(Reported(0)) = 0
    BY <2>1, FS_EmptySet
  <2>3. << >> \in [1 .. 0 -> {}] /\ Increasing(<< >>)
    BY DEF Increasing
  <2>4. InOrder(0)
    BY <2>1, <2>2, <2>3 DEF InOrder
  <2>5. QED
    BY <1>2, <1>3, <2>4
<1>4. CASE n # 0
  <2>1. n - 1 \in Nat /\ (n - 1) + 1 = n /\ ~(n <= n - 1)
    BY <1>2, <1>4
  <2>2. InOrder(n - 1)
    BY <1>2, <2>1
  <2>3. InOrder(n)
    BY <2>1, <2>2, OneMoreInOrder
  <2>4. QED
    BY <1>2, <2>3
<1>5. QED
  BY <1>3, <1>4

\* The rows of a report: events of the call so far.
LEMMA ReportTyped ==
  ASSUME NEW n \in 0 .. Turns
  PROVE  ReportOf(n) \in Seq(1 .. Turns) /\ Range(ReportOf(n)) \subseteq 1 .. n
<1>1. Turns \in Nat /\ n \in Nat
  BY ObserverAssumption
<1>2. \E rows \in [1 .. Cardinality(Reported(n)) -> Reported(n)] :
         \A i, j \in DOMAIN rows : i < j => rows[i] < rows[j]
  BY <1>1, ReportsAreOrdered DEF InOrder, Increasing
<1>3. ReportOf(n) \in [1 .. Cardinality(Reported(n)) -> Reported(n)]
  BY <1>2 DEF ReportOf
<1>4. Cardinality(Reported(n)) \in Nat /\ Reported(n) \subseteq 1 .. n
  BY <1>1, ReportedFinite
<1>5. ReportOf(n) \in Seq(Reported(n))
  BY <1>3, <1>4, SeqDef
<1>6. Reported(n) \subseteq 1 .. Turns
  BY <1>1, <1>4
<1>7. QED
  BY <1>3, <1>4, <1>5, <1>6, SeqMonotonic DEF Range

-----------------------------------------------------------------------------
(* Step by step: where the session is, and the types *)

SessionInv == SessionTypeOK /\ StageInv

\* The head of a sequence is its first element, and the tail has the others.
LEMMA HeadAndTail ==
  ASSUME NEW S, NEW s \in Seq(S), s # <<>>
  PROVE  /\ Head(s) = s[1] /\ 1 \in DOMAIN s /\ Head(s) \in S /\ Tail(s) \in Seq(S)
         /\ \A i \in DOMAIN Tail(s) : i \in Nat \ {0} /\ i + 1 \in DOMAIN s /\ Tail(s)[i] = s[i + 1]
         /\ \A i \in DOMAIN s : i = 1 \/ (i - 1 \in DOMAIN Tail(s) /\ Tail(s)[i - 1] = s[i])
<1>1. Len(s) \in Nat /\ DOMAIN s = 1 .. Len(s) /\ Len(s) # 0
  BY EmptySeq, LenProperties
<1>2. /\ Head(s) \in S /\ Tail(s) \in Seq(S) /\ Len(Tail(s)) = Len(s) - 1
      /\ \A i \in 1 .. Len(Tail(s)) : Tail(s)[i] = s[i + 1]
  BY HeadTailProperties
<1>3. DOMAIN Tail(s) = 1 .. Len(s) - 1
  BY <1>2, LenProperties
<1>4. Head(s) = s[1]
  OBVIOUS
<1>5. ASSUME NEW i \in DOMAIN s, i # 1
      PROVE  i - 1 \in DOMAIN Tail(s) /\ Tail(s)[i - 1] = s[i]
  <2>1. i - 1 \in 1 .. Len(s) - 1 /\ (i - 1) + 1 = i
    BY <1>1, <1>5
  <2>2. QED
    BY <1>2, <1>3, <2>1
<1>6. ASSUME NEW i \in DOMAIN Tail(s)
      PROVE  i \in Nat \ {0} /\ i + 1 \in DOMAIN s /\ Tail(s)[i] = s[i + 1]
  BY <1>1, <1>2, <1>3
<1>7. QED
  BY <1>1, <1>2, <1>4, <1>5, <1>6

\* Where on_session_end writes nothing.
LEMMA Silent ==
  ASSUME StageInv
  PROVE  /\ ending.at \notin Replays \cup {"started", "rows", "ended", "stats"} => ~Writing("session")
         /\ ending.at \notin AfterClose => ~observer.closed
  BY DEF StageInv

LEMMA WriterTakesKeepsSession ==
  ASSUME ChainInv, SessionInv, WriterTakes
  PROVE  SessionInv'
<1> USE DEF SessionInv
<1>1. write'["session"] = write["session"]
  BY DEF WriterTakes, Log, ChainInv, WriteTypeOK, Tasks
<1>2. UNCHANGED <<spill, observer, ending, said, due>> /\ queue' = Tail(queue) /\ queue # <<>>
  BY DEF WriterTakes
<1>3. queue' \in Seq(Items)
  BY <1>2 DEF SessionTypeOK
<1>4. SessionTypeOK'
  BY <1>2, <1>3 DEF SessionTypeOK
<1>5. StageInv'
  BY <1>1, <1>2 DEF StageInv, Writing
<1>6. QED
  BY <1>4, <1>5

LEMMA StartKeepsSession ==
  ASSUME ChainInv, SessionInv, NEW task \in Tasks, StartWrite(task)
  PROVE  SessionInv'
<1> USE DEF SessionInv
<1>1. UNCHANGED <<queue, spill, observer, ending, said, due>>
  BY DEF StartWrite
<1>2. /\ write'["session"].item = write["session"].item
      /\ Writing("session")' <=> Writing("session")
  BY DEF StartWrite, ChainInv, WriteTypeOK, Tasks, Writing
<1>3. SessionTypeOK'
  BY <1>1 DEF SessionTypeOK
<1>4. StageInv'
  BY <1>1, <1>2 DEF StageInv
<1>5. QED
  BY <1>3, <1>4

\* What a write leaves of the session when it ends.
LEMMA ReturnsKeepsSession ==
  ASSUME ChainInv, SessionInv, NEW task \in Tasks, Writing(task), NEW answered \in BOOLEAN,
         Returns(task, answered), ~Writing(task)', \A t \in Tasks \ {task} : write'[t] = write[t],
         UNCHANGED <<queue, spill, said, due>>
  PROVE  SessionInv'
<1> USE DEF SessionInv
<1>1. CASE task = "writer"
  <2>1. ending' = ending /\ observer' = [observer EXCEPT !.counted = @ \/ answered]
    BY <1>1 DEF Returns
  <2>2. write'["session"] = write["session"]
    BY <1>1 DEF Tasks
  <2>3. SessionTypeOK'
    BY <2>1 DEF SessionTypeOK
  <2>4. StageInv'
    BY <2>1, <2>2 DEF StageInv, SessionTypeOK, Writing
  <2>5. QED
    BY <2>3, <2>4
<1>2. CASE task = "session"
  <2>1. observer' = [observer EXCEPT !.started = @ \/ (answered /\ ending.at = "started"),
                       !.counted = @ \/ (answered /\ ending.at \in {"replay", "lastReplay"})]
    BY <1>2 DEF Returns
  <2>2. /\ observer' \in [attached : BOOLEAN, seen : SUBSET (1 .. Turns), started : BOOLEAN,
                          closed : BOOLEAN, counted : BOOLEAN, writes : BOOLEAN]
        /\ observer'.closed = observer.closed /\ observer'.seen = observer.seen
    BY <2>1 DEF SessionTypeOK
  <2>3. CASE ending.at \in Replays
    <3>1. ending' = [ending EXCEPT !.lines = Tail(@)] /\ ending.lines # <<>>
      BY <1>2, <2>3 DEF Returns, Replays, StageInv
    <3>2. Tail(ending.lines) \in Seq(Items)
      BY <3>1 DEF SessionTypeOK
    <3>3. QED
      BY <1>2, <2>2, <2>3, <3>1, <3>2
         DEF SessionTypeOK, StageInv, Writing, Replays, AfterClose, AfterRows, AfterStarted
  <2>4. CASE ending.at = "started"
    <3>1. ending' = [ending EXCEPT !.at = "rows"]
      BY <1>2, <2>4 DEF Returns
    <3>2. QED
      BY <1>2, <2>2, <2>4, <3>1
         DEF SessionTypeOK, StageInv, Writing, Replays, AfterClose, AfterRows, AfterStarted, Stages
  <2>5. CASE ending.at = "rows"
    <3>1. ending' = [ending EXCEPT !.rows = Tail(@)] /\ ending.rows # <<>>
      BY <1>2, <2>5 DEF Returns, StageInv, Replays
    <3>2. /\ Tail(ending.rows) \in Seq(1 .. Turns)
          /\ \A i \in DOMAIN Tail(ending.rows) : Tail(ending.rows)[i] \in 1 .. said
      BY <3>1, HeadAndTail DEF SessionTypeOK, StageInv
    <3>3. QED
      BY <1>2, <2>2, <2>5, <3>1, <3>2
         DEF SessionTypeOK, StageInv, Writing, Replays, AfterClose, AfterRows, AfterStarted
  <2>6. CASE ending.at = "ended"
    <3>1. ending' = [ending EXCEPT !.at = "close"]
      BY <1>2, <2>6 DEF Returns
    <3>2. QED
      BY <1>2, <2>2, <2>6, <3>1
         DEF SessionTypeOK, StageInv, Writing, Replays, AfterClose, AfterRows, AfterStarted, Stages
  <2>7. CASE ending.at = "stats"
    <3>1. ending' = [ending EXCEPT !.at = "stop"]
      BY <1>2, <2>7 DEF Returns
    <3>2. QED
      BY <1>2, <2>2, <2>7, <3>1
         DEF SessionTypeOK, StageInv, Writing, Replays, AfterClose, AfterRows, AfterStarted, Stages
  <2>8. QED
    BY <1>2, <2>3, <2>4, <2>5, <2>6, <2>7 DEF StageInv
<1>3. QED
  BY <1>1, <1>2 DEF Tasks

LEMMA AnsweredKeepsSession ==
  ASSUME ChainInv, SessionInv, NEW task \in Tasks, Answered(task)
  PROVE  SessionInv'
<1>1. /\ Returns(task, TRUE) /\ UNCHANGED <<queue, spill, said, due>> /\ Writing(task)
      /\ chainLock' = RemoveFirst(chainLock, task) /\ write' = [write EXCEPT ![task] = NoWrite]
  BY DEF Answered, Releases, Writing
<1>2. ~Writing(task)' /\ \A t \in Tasks \ {task} : write'[t] = write[t]
  BY <1>1, LeavesLock DEF ChainInv
<1>3. QED
  BY <1>1, <1>2, ReturnsKeepsSession

LEMMA FailsKeepsSession ==
  ASSUME ChainInv, SessionInv, NEW task \in Tasks, Fails(task)
  PROVE  SessionInv'
<1>1. /\ Returns(task, FALSE) /\ UNCHANGED <<queue, spill, said, due>> /\ Writing(task)
      /\ chainLock' = RemoveFirst(chainLock, task) /\ write' = [write EXCEPT ![task] = NoWrite]
  BY DEF Fails, Releases, Writing
<1>2. ~Writing(task)' /\ \A t \in Tasks \ {task} : write'[t] = write[t]
  BY <1>1, LeavesLock DEF ChainInv
<1>3. QED
  BY <1>1, <1>2, ReturnsKeepsSession

\* A place in the queue, in the spill file, or nowhere.
LEMMA EnqueueTyped ==
  ASSUME SessionTypeOK, NEW item \in Items, Enqueue(item)
  PROVE  /\ ~observer.closed
         /\ queue' \in Seq(Items) /\ spill' \in Seq(Items)
         /\ \/ queue' = Append(queue, item) /\ UNCHANGED <<spill, trouble>>
            \/ /\ spill' = Append(spill, item) /\ UNCHANGED queue
               /\ trouble' = IF ending.at = "replay" THEN trouble \cup {"overlap"} ELSE trouble
            \/ trouble' = trouble \cup {"dropped"} /\ UNCHANGED <<queue, spill>>
<1>1. /\ ~observer.closed
      /\ \/ queue' = Append(queue, item) /\ UNCHANGED <<spill, trouble>>
         \/ /\ spill' = Append(spill, item) /\ UNCHANGED queue
            /\ trouble' = IF ending.at = "replay" THEN trouble \cup {"overlap"} ELSE trouble
         \/ trouble' = trouble \cup {"dropped"} /\ UNCHANGED <<queue, spill>>
  BY DEF Enqueue
<1>2. Append(queue, item) \in Seq(Items) /\ Append(spill, item) \in Seq(Items)
  BY AppendProperties DEF SessionTypeOK
<1>3. QED
  BY <1>1, <1>2 DEF SessionTypeOK

\* One step of on_session_end that only moves on.
LEMMA GoesKeepsSession ==
  ASSUME SessionInv, NEW next \in Stages, Goes(next),
         ending.at \in AfterRows => next \in AfterRows,
         observer.closed <=> next \in AfterClose,
         next \notin {"call", "ended"}, ~Writing("session"), ~Writing("session")',
         next \in AfterRows => ending.rows = <<>>,
         UNCHANGED <<queue, observer, said, due>>, spill' \in Seq(Items)
  PROVE  SessionInv'
<1>1. ending' = [ending EXCEPT !.at = next]
  BY DEF Goes
<1>2. ending'.at = next /\ ending'.lines = ending.lines /\ ending'.rows = ending.rows
  BY <1>1 DEF SessionInv, SessionTypeOK
<1>3. SessionTypeOK'
  BY <1>1 DEF SessionInv, SessionTypeOK
<1>4. StageInv'
  BY <1>2 DEF SessionInv, StageInv
<1>5. QED
  BY <1>3, <1>4 DEF SessionInv

LEMMA FlushKeepsSession ==
  ASSUME SessionInv, NEW at, NEW replay, NEW next,
         \/ at = "flush" /\ replay = "replay" /\ next = "started"
         \/ at = "lastFlush" /\ replay = "lastReplay" /\ next = "stats",
         flush(at, replay, next)
  PROVE  SessionInv'
<1> USE DEF SessionInv
<1>1. /\ ending.at = at /\ write["session"].step = "none"
      /\ UNCHANGED <<write, queue, spill, observer, said, due>>
  BY DEF flush, Pauses, unwritten
<1>2. CASE spill = <<>>
  <2>1. Goes(next)
    BY <1>2 DEF flush
  <2>2. QED
    BY <1>1, <2>1, GoesKeepsSession
       DEF Writing, Stages, StageInv, SessionTypeOK, AfterClose, AfterRows, AfterStarted
<1>3. CASE spill # <<>>
  <2>1. ending' = [ending EXCEPT !.at = replay, !.lines = spill]
    BY <1>3 DEF flush
  <2>2. ending'.at = replay /\ ending'.rows = ending.rows
    BY <2>1 DEF SessionTypeOK
  <2>3. SessionTypeOK'
    BY <1>1, <2>1 DEF SessionTypeOK, Stages
  <2>4. StageInv'
    BY <1>1, <2>2 DEF StageInv, Writing, AfterClose, AfterRows, AfterStarted
  <2>5. QED
    BY <2>3, <2>4
<1>4. QED
  BY <1>2, <1>3

\* A task that enters _log takes its item along.
LEMMA Enters ==
  ASSUME WriteTypeOK, NEW task \in Tasks, NEW item, NEW root, Log(task, item, root)
  PROVE  /\ Writing(task)' /\ write'[task].item = item
         /\ \A t \in Tasks \ {task} : write'[t] = write[t]
         /\ UNCHANGED <<strand, late, acked, head>>
<1>1. \E r : write' = [write EXCEPT ![task] = [step |-> IF chainLock = <<>> THEN "sent" ELSE "waits",
                                            item |-> item, root |-> root, parent |-> r]]
  BY DEF Log
<1>2. QED
  BY <1>1 DEF Log, Writing, WriteTypeOK

LEMMA DrainKeepsSession ==
  ASSUME ChainInv, SessionInv, NEW replay, NEW next,
         \/ replay = "replay" /\ next = "started"
         \/ replay = "lastReplay" /\ next = "stats",
         _drain_spill(replay, next)
  PROVE  SessionInv'
<1> USE DEF SessionInv
<1>1. /\ ending.at = replay /\ write["session"].step = "none"
      /\ UNCHANGED <<queue, observer, said, due>>
  BY DEF _drain_spill, Pauses
<1>2. CASE ending.lines # <<>>
  <2>1. Log("session", Head(ending.lines), FALSE) /\ UNCHANGED <<spill, ending>>
    BY <1>2 DEF _drain_spill
  <2>2. write'["session"].item = Head(ending.lines)
    BY <2>1, Enters DEF ChainInv, Tasks
  <2>3. SessionTypeOK'
    BY <1>1, <2>1 DEF SessionTypeOK
  <2>4. StageInv'
    BY <1>1, <1>2, <2>1, <2>2 DEF StageInv, Replays
  <2>5. QED
    BY <2>3, <2>4
<1>3. CASE ending.lines = <<>>
  <2>1. spill' = <<>> /\ Goes(next) /\ UNCHANGED write
    BY <1>3 DEF _drain_spill, unwritten
  <2>2. spill' \in Seq(Items)
    BY <2>1
  <2>3. QED
    BY <1>1, <2>1, <2>2, GoesKeepsSession
       DEF Writing, Stages, StageInv, SessionTypeOK, AfterClose, AfterRows, AfterStarted
<1>4. QED
  BY <1>2, <1>3

LEMMA SessionStartedKeepsSession ==
  ASSUME ChainInv, SessionInv, log_session_started
  PROVE  SessionInv'
<1> USE DEF SessionInv
<1>1. /\ ending.at = "started" /\ write["session"].step = "none"
      /\ UNCHANGED <<queue, spill, observer, said, due>>
  BY DEF log_session_started, Pauses
<1>2. CASE observer.started
  <2>1. Goes("rows") /\ UNCHANGED write
    BY <1>2 DEF log_session_started, unwritten
  <2>2. QED
    BY <1>1, <2>1, GoesKeepsSession
       DEF Writing, Stages, StageInv, SessionTypeOK, AfterClose, AfterRows, AfterStarted
<1>3. CASE ~observer.started
  <2>1. Log("session", SessionStarted, TRUE) /\ UNCHANGED ending
    BY <1>3 DEF log_session_started
  <2>2. write'["session"].item = SessionStarted
    BY <2>1, Enters DEF ChainInv, Tasks
  <2>3. SessionTypeOK'
    BY <1>1, <2>1 DEF SessionTypeOK
  <2>4. StageInv'
    BY <1>1, <2>1, <2>2 DEF StageInv
  <2>5. QED
    BY <2>3, <2>4
<1>4. QED
  BY <1>2, <1>3

LEMMA LogRowKeepsSession ==
  ASSUME ChainInv, SessionInv, LogRow
  PROVE  SessionInv'
<1> USE DEF SessionInv
<1>1. /\ ending.at = "rows" /\ write["session"].step = "none" /\ ending.rows # <<>>
      /\ UNCHANGED <<queue, spill, said, due>>
  BY DEF LogRow, Pauses
<1>2. /\ Tail(ending.rows) \in Seq(1 .. Turns) /\ Head(ending.rows) \in 1 .. Turns
      /\ Head(ending.rows) \in 1 .. said
      /\ \A i \in DOMAIN Tail(ending.rows) : Tail(ending.rows)[i] \in 1 .. said
  <2>1. ending.rows \in Seq(1 .. Turns) /\ \A i \in DOMAIN ending.rows : ending.rows[i] \in 1 .. said
    BY DEF SessionTypeOK, StageInv
  <2> DEFINE Events == 1 .. Turns
  <2>2. ending.rows \in Seq(Events)
    BY <2>1
  <2> HIDE DEF Events
  <2>3. /\ Head(ending.rows) = ending.rows[1] /\ 1 \in DOMAIN ending.rows
        /\ Head(ending.rows) \in Events /\ Tail(ending.rows) \in Seq(Events)
        /\ \A i \in DOMAIN Tail(ending.rows) :
              i + 1 \in DOMAIN ending.rows /\ Tail(ending.rows)[i] = ending.rows[i + 1]
    BY <1>1, <2>2, HeadAndTail
  <2>4. QED
    BY <2>1, <2>3 DEF Events
<1>3. CASE Head(ending.rows) \in observer.seen
  <2>1. ending' = [ending EXCEPT !.rows = Tail(@)] /\ UNCHANGED <<write, observer>>
    BY <1>3 DEF LogRow, unwritten
  <2>2. ending'.at = "rows" /\ ending'.rows = Tail(ending.rows)
    BY <1>1, <2>1 DEF SessionTypeOK
  <2>3. SessionTypeOK'
    BY <1>1, <1>2, <2>1 DEF SessionTypeOK
  <2>4. StageInv'
    BY <1>1, <1>2, <2>1, <2>2 DEF StageInv, Writing, AfterClose, AfterRows, AfterStarted
  <2>5. QED
    BY <2>3, <2>4
<1>4. CASE Head(ending.rows) \notin observer.seen
  <2>1. /\ Log("session", Head(ending.rows), FALSE) /\ UNCHANGED ending
        /\ observer' = [observer EXCEPT !.seen = @ \cup {Head(ending.rows)}]
    BY <1>4 DEF LogRow
  <2>2. write'["session"].item = Head(ending.rows)
    BY <2>1, Enters DEF ChainInv, Tasks
  <2>3. SessionTypeOK'
    BY <1>1, <1>2, <2>1 DEF SessionTypeOK
  <2>4. observer'.closed = observer.closed /\ observer'.seen = observer.seen \cup {Head(ending.rows)}
    BY <2>1 DEF SessionTypeOK
  <2>5. StageInv'
    BY <1>1, <1>2, <2>1, <2>2, <2>4 DEF StageInv
  <2>6. QED
    BY <2>3, <2>5
<1>5. QED
  BY <1>3, <1>4

LEMMA SessionEndedKeepsSession ==
  ASSUME ChainInv, SessionInv, log_session_ended
  PROVE  SessionInv'
<1> USE DEF SessionInv
<1>1. /\ ending.at = "rows" /\ ending.rows = <<>>
      /\ Log("session", SessionEnded, FALSE)
      /\ ending' = [ending EXCEPT !.at = "ended"]
      /\ UNCHANGED <<queue, spill, observer, said, due>>
  BY DEF log_session_ended, Pauses, Goes
<1>2. Writing("session")' /\ write'["session"].item = SessionEnded
  BY <1>1, Enters DEF ChainInv, Tasks
<1>3. ending'.at = "ended" /\ ending'.rows = ending.rows
  BY <1>1 DEF SessionTypeOK
<1>4. SessionTypeOK'
  BY <1>1 DEF SessionTypeOK, Stages
<1>5. StageInv'
  BY <1>1, <1>2, <1>3 DEF StageInv, AfterClose
<1>6. QED
  BY <1>4, <1>5

LEMMA CloseKeepsSession ==
  ASSUME SessionInv, aclose
  PROVE  SessionInv'
<1> USE DEF SessionInv
<1>1. /\ ending.at = "close" /\ write["session"].step = "none"
      /\ observer' = [observer EXCEPT !.closed = TRUE]
      /\ ending' = [ending EXCEPT !.at = "lastFlush"]
      /\ UNCHANGED <<write, queue, spill, said, due>>
  BY DEF aclose, Pauses, Goes, unwritten
<1>2. /\ ending'.at = "lastFlush" /\ ending'.rows = ending.rows
      /\ observer'.closed /\ observer'.seen = observer.seen
  BY <1>1 DEF SessionTypeOK
<1>3. SessionTypeOK'
  BY <1>1 DEF SessionTypeOK, Stages
<1>4. StageInv'
  BY <1>1, <1>2 DEF StageInv, Writing, AfterClose, AfterRows, AfterStarted
<1>5. QED
  BY <1>3, <1>4

LEMMA StatsKeepsSession ==
  ASSUME ChainInv, SessionInv, _log_livekit_session_stats
  PROVE  SessionInv'
<1> USE DEF SessionInv
<1>1. /\ ending.at = "stats" /\ write["session"].step = "none"
      /\ UNCHANGED <<queue, spill, observer, said, due>>
  BY DEF _log_livekit_session_stats, Pauses
<1>2. CASE ~observer.counted
  <2>1. Goes("stop") /\ UNCHANGED write
    BY <1>2 DEF _log_livekit_session_stats, unwritten
  <2>2. QED
    BY <1>1, <2>1, GoesKeepsSession
       DEF Writing, Stages, StageInv, SessionTypeOK, AfterClose, AfterRows, AfterStarted
<1>3. CASE observer.counted
  <2>1. Log("session", SessionStats, FALSE) /\ UNCHANGED ending
    BY <1>3 DEF _log_livekit_session_stats
  <2>2. write'["session"].item = SessionStats
    BY <2>1, Enters DEF ChainInv, Tasks
  <2>3. SessionTypeOK'
    BY <1>1, <2>1 DEF SessionTypeOK
  <2>4. StageInv'
    BY <1>1, <2>1, <2>2 DEF StageInv
  <2>5. QED
    BY <2>3, <2>4
<1>4. QED
  BY <1>2, <1>3

LEMMA StopKeepsSession ==
  ASSUME ChainInv, SessionInv, StopWriter
  PROVE  SessionInv'
<1> USE DEF SessionInv
<1>1. /\ ending.at = "stop" /\ write["session"].step = "none"
      /\ ending' = [ending EXCEPT !.at = "done"]
      /\ observer' = [observer EXCEPT !.writes = FALSE]
      /\ write' = [write EXCEPT !["writer"] = NoWrite]
      /\ UNCHANGED <<queue, spill, said, due>>
  BY DEF StopWriter, Pauses, Goes
<1>2. /\ ending'.at = "done" /\ ending'.rows = ending.rows
      /\ observer'.closed = observer.closed /\ observer'.seen = observer.seen
      /\ write'["session"] = write["session"]
  BY <1>1 DEF SessionTypeOK, ChainInv, WriteTypeOK, Tasks
<1>3. SessionTypeOK'
  BY <1>1 DEF SessionTypeOK, Stages
<1>4. StageInv'
  BY <1>1, <1>2 DEF StageInv, Writing, AfterClose, AfterRows, AfterStarted
<1>5. QED
  BY <1>3, <1>4

LEMMA CancelKeepsSession ==
  ASSUME ChainInv, SessionInv, CancelSession
  PROVE  SessionInv'
<1> USE DEF SessionInv
<1>1. /\ ending' = [at |-> IF observer.closed THEN "done" ELSE "close", lines |-> <<>>, rows |-> <<>>]
      /\ write' = [write EXCEPT !["session"] = NoWrite]
      /\ UNCHANGED <<queue, spill, observer, said, due>>
  BY DEF CancelSession
<1>2. ~Writing("session")'
  BY <1>1 DEF ChainInv, WriteTypeOK, Tasks, Writing, NoWrite
<1>3. <<>> \in Seq(Items) /\ <<>> \in Seq(1 .. Turns) /\ DOMAIN <<>> = {}
  OBVIOUS
<1>4. SessionTypeOK'
  BY <1>1, <1>3 DEF SessionTypeOK, Stages
<1>5. StageInv'
  BY <1>1, <1>2, <1>3 DEF StageInv, AfterClose, AfterRows, AfterStarted
<1>6. QED
  BY <1>4, <1>5

LEMMA QueueStartedKeepsSession ==
  ASSUME SessionInv, queue_session_started
  PROVE  SessionInv'
<1> USE DEF SessionInv
<1>1. /\ Enqueue(SessionStarted)
      /\ observer' = [observer EXCEPT !.started = TRUE, !.counted = @ \/ Len(queue) = QueueSize]
      /\ UNCHANGED <<write, ending, said, due>>
  BY DEF queue_session_started
<1>2. SessionStarted \in Items
  BY ObserverAssumption DEF SessionStarted, Items
<1>3. queue' \in Seq(Items) /\ spill' \in Seq(Items)
  BY <1>1, <1>2, EnqueueTyped
<1>4. SessionTypeOK'
  BY <1>1, <1>3 DEF SessionTypeOK
<1>5. observer'.closed = observer.closed /\ observer'.seen = observer.seen
  BY <1>1 DEF SessionTypeOK
<1>6. StageInv'
  BY <1>1, <1>5 DEF StageInv, Writing
<1>7. QED
  BY <1>4, <1>6

LEMMA AttachKeepsSession ==
  ASSUME SessionInv, attach
  PROVE  SessionInv'
<1> USE DEF SessionInv
<1>1. /\ observer' = [observer EXCEPT !.attached = TRUE]
      /\ UNCHANGED <<write, queue, spill, ending, said, due>>
  BY DEF attach, unwritten
<1>2. observer'.closed = observer.closed /\ observer'.seen = observer.seen
  BY <1>1 DEF SessionTypeOK
<1>3. SessionTypeOK' /\ StageInv'
  BY <1>1, <1>2 DEF SessionTypeOK, StageInv, Writing
<1>4. QED
  BY <1>3

LEMMA HearKeepsSession ==
  ASSUME SessionInv, Hear
  PROVE  SessionInv'
<1> USE DEF SessionInv
<1>1. /\ said < Turns /\ said' = said + 1 /\ UNCHANGED <<write, ending>>
  BY DEF Hear, unwritten
<1>2. /\ said \in 0 .. Turns /\ Turns \in Nat
      /\ said + 1 \in 1 .. Turns /\ said + 1 \in Items /\ 1 .. said \subseteq 1 .. said'
      /\ said + 1 \in 1 .. said' /\ said' \in 0 .. Turns
  BY <1>1, ObserverAssumption DEF SessionTypeOK, Items
<1>3. CASE observer.attached
  <2>1. /\ Enqueue(said + 1) /\ due' = due \cup {said + 1}
        /\ observer' = [observer EXCEPT !.seen = @ \cup {said + 1}, !.counted = @ \/ Len(queue) = QueueSize]
    BY <1>3 DEF Hear
  <2>2. queue' \in Seq(Items) /\ spill' \in Seq(Items)
    BY <1>2, <2>1, EnqueueTyped
  <2>3. observer'.closed = observer.closed /\ observer'.seen = observer.seen \cup {said + 1}
    BY <2>1 DEF SessionTypeOK
  <2>4. SessionTypeOK'
    BY <1>1, <1>2, <2>1, <2>2 DEF SessionTypeOK
  <2>5. StageInv'
    BY <1>1, <1>2, <2>3 DEF StageInv, Writing
  <2>6. QED
    BY <2>4, <2>5
<1>4. CASE ~observer.attached
  <2>1. UNCHANGED <<queue, spill, observer, due>>
    BY <1>4 DEF Hear
  <2>2. SessionTypeOK' /\ StageInv'
    BY <1>1, <1>2, <2>1 DEF SessionTypeOK, StageInv, Writing
  <2>3. QED
    BY <2>2
<1>5. QED
  BY <1>3, <1>4

LEMMA IngestKeepsSession ==
  ASSUME SessionInv, ingest_session_report
  PROVE  SessionInv'
<1> USE DEF SessionInv
<1>1. /\ ending.at = "call"
      /\ ending' = [at |-> "flush", lines |-> <<>>, rows |-> ReportOf(said)]
      /\ due' = due \cup Range(ReportOf(said))
      /\ UNCHANGED <<write, queue, spill, observer, said>>
  BY DEF ingest_session_report, unwritten
<1>2. /\ ReportOf(said) \in Seq(1 .. Turns) /\ Range(ReportOf(said)) \subseteq 1 .. said
      /\ 1 .. said \subseteq 1 .. Turns
  <2>1. said \in 0 .. Turns /\ Turns \in Nat
    BY ObserverAssumption DEF SessionTypeOK
  <2>2. QED
    BY <2>1, ReportTyped
<1>3. \A i \in DOMAIN ReportOf(said) : ReportOf(said)[i] \in 1 .. said
  BY <1>2 DEF Range
<1>4. <<>> \in Seq(Items)
  OBVIOUS
<1>5. SessionTypeOK'
  BY <1>1, <1>2, <1>4 DEF SessionTypeOK, Stages
<1>6. StageInv'
  BY <1>1, <1>3 DEF StageInv, Writing, Replays, AfterClose, AfterRows, AfterStarted
<1>7. QED
  BY <1>5, <1>6

-----------------------------------------------------------------------------
(* The strand of answered events *)

\* What an action does to the log goes through _log.
LEMMA StepKeepsChain ==
  ASSUME ChainInv, SessionInv, ObserverNext
  PROVE  ChainInv'
<1> USE DEF SessionInv
<1>1. "session" \in Tasks /\ "writer" \in Tasks
  BY DEF Tasks
<1>2. \A s \in Seq(Items) : s # <<>> => Head(s) \in Items
  BY HeadTailProperties
<1>3. SessionStarted \in Items /\ SessionEnded \in Items /\ SessionStats \in Items
  BY ObserverAssumption DEF SessionStarted, SessionEnded, SessionStats, Items
<1>4. ASSUME UNCHANGED unwritten
      PROVE  ChainInv'
  BY <1>4 DEF unwritten, ChainInv, WriteTypeOK, LockInv, HeadInv, AckedStrandIsSingle, Writing
<1>5. CASE WriterTakes
  <2>1. /\ ~Writing("writer") /\ Log("writer", Head(queue), FALSE) /\ queue # <<>>
    BY <1>5 DEF WriterTakes, Writing
  <2>2. Head(queue) \in Items
    BY <1>2, <2>1 DEF SessionTypeOK
  <2>3. QED
    BY <1>1, <2>1, <2>2, LogKeepsChain
<1>6. ASSUME NEW task \in Tasks, StartWrite(task) \/ Answered(task) \/ Fails(task)
      PROVE  ChainInv'
  <2>1. CASE StartWrite(task)
    BY <2>1, StartKeepsChain
  <2>2. CASE Answered(task)
    BY <2>2, AnsweredKeepsChain
  <2>3. CASE Fails(task)
    BY <2>3, GivenUpKeepsChain DEF Fails
  <2>4. QED
    BY <1>6, <2>1, <2>2, <2>3
<1>7. ASSUME NEW replay, NEW next, _drain_spill(replay, next)
      PROVE  ChainInv'
  <2>1. CASE ending.lines # <<>>
    <3>1. /\ ~Writing("session") /\ Log("session", Head(ending.lines), FALSE)
      BY <1>7, <2>1 DEF _drain_spill, Pauses, Writing
    <3>2. Head(ending.lines) \in Items
      BY <1>2, <2>1 DEF SessionTypeOK
    <3>3. QED
      BY <1>1, <3>1, <3>2, LogKeepsChain
  <2>2. CASE ending.lines = <<>>
    BY <1>4, <1>7, <2>2 DEF _drain_spill
  <2>3. QED
    BY <2>1, <2>2
<1>8. CASE log_session_started
  <2>1. CASE observer.started
    BY <1>4, <1>8, <2>1 DEF log_session_started
  <2>2. CASE ~observer.started
    <3>1. ~Writing("session") /\ Log("session", SessionStarted, TRUE)
      BY <1>8, <2>2 DEF log_session_started, Pauses, Writing
    <3>2. QED
      BY <1>1, <1>3, <3>1, LogKeepsChain
  <2>3. QED
    BY <2>1, <2>2
<1>9. CASE LogRow
  <2>1. CASE Head(ending.rows) \in observer.seen
    BY <1>4, <1>9, <2>1 DEF LogRow
  <2>2. CASE Head(ending.rows) \notin observer.seen
    <3>1. /\ ~Writing("session") /\ Log("session", Head(ending.rows), FALSE) /\ ending.rows # <<>>
      BY <1>9, <2>2 DEF LogRow, Pauses, Writing
    <3>2. Head(ending.rows) \in 1 .. Turns
      <4>1. ending.rows \in Seq(1 .. Turns)
        BY DEF SessionTypeOK
      <4>2. QED
        BY <3>1, <4>1, HeadTailProperties
    <3>3. Head(ending.rows) \in Items
      BY <3>2, ObserverAssumption DEF Items
    <3>4. QED
      BY <1>1, <3>1, <3>3, LogKeepsChain
  <2>3. QED
    BY <2>1, <2>2
<1>10. CASE log_session_ended
  <2>1. ~Writing("session") /\ Log("session", SessionEnded, FALSE)
    BY <1>10 DEF log_session_ended, Pauses, Writing
  <2>2. QED
    BY <1>1, <1>3, <2>1, LogKeepsChain
<1>11. CASE _log_livekit_session_stats
  <2>1. CASE observer.counted
    <3>1. ~Writing("session") /\ Log("session", SessionStats, FALSE)
      BY <1>11, <2>1 DEF _log_livekit_session_stats, Pauses, Writing
    <3>2. QED
      BY <1>1, <1>3, <3>1, LogKeepsChain
  <2>2. CASE ~observer.counted
    BY <1>4, <1>11, <2>2 DEF _log_livekit_session_stats
  <2>3. QED
    BY <2>1, <2>2
<1>12. CASE StopWriter
  BY <1>1, <1>12, GivenUpKeepsChain DEF StopWriter
<1>13. CASE CancelSession
  BY <1>1, <1>13, GivenUpKeepsChain DEF CancelSession
<1>14. CASE ServerAppendsLate
  BY <1>14, LateKeepsChain
<1>15. ASSUME NEW at, NEW replay, NEW next, flush(at, replay, next)
       PROVE  ChainInv'
  BY <1>4, <1>15 DEF flush
<1>16. CASE aclose \/ queue_session_started \/ attach \/ Hear \/ ingest_session_report
  BY <1>4, <1>16 DEF aclose, queue_session_started, attach, Hear, ingest_session_report, unwritten
<1>17. QED
  BY <1>5, <1>6, <1>7, <1>8, <1>9, <1>10, <1>11, <1>12, <1>13, <1>14, <1>15, <1>16
     DEF ObserverNext, ObserverSettles

LEMMA StepKeepsSession ==
  ASSUME ChainInv, SessionInv, ObserverNext
  PROVE  SessionInv'
<1>1. CASE ServerAppendsLate
  BY <1>1 DEF ServerAppendsLate, SessionInv, SessionTypeOK, StageInv, Writing
<1>2. ASSUME NEW task \in Tasks, StartWrite(task) \/ Answered(task) \/ Fails(task)
      PROVE  SessionInv'
  BY <1>2, StartKeepsSession, AnsweredKeepsSession, FailsKeepsSession
<1>3. CASE flush("flush", "replay", "started") \/ flush("lastFlush", "lastReplay", "stats")
  BY <1>3, FlushKeepsSession
<1>4. CASE _drain_spill("replay", "started") \/ _drain_spill("lastReplay", "stats")
  BY <1>4, DrainKeepsSession
<1>5. CASE WriterTakes \/ log_session_started \/ LogRow \/ log_session_ended
  BY <1>5, WriterTakesKeepsSession, SessionStartedKeepsSession, LogRowKeepsSession,
     SessionEndedKeepsSession
<1>6. CASE aclose \/ _log_livekit_session_stats \/ StopWriter \/ CancelSession
  BY <1>6, CloseKeepsSession, StatsKeepsSession, StopKeepsSession, CancelKeepsSession
<1>7. CASE queue_session_started \/ attach \/ Hear \/ ingest_session_report
  BY <1>7, QueueStartedKeepsSession, AttachKeepsSession, HearKeepsSession, IngestKeepsSession
<1>8. QED
  BY <1>1, <1>2, <1>3, <1>4, <1>5, <1>6, <1>7 DEF ObserverNext, ObserverSettles

-----------------------------------------------------------------------------
(* Lemmas: where the items are *)

\* No item appears, and none gets lost.
SameItems == \A x : Placed(x)' <=> Placed(x)

\* Nothing is moved.
LEMMA NothingMoves ==
  ASSUME UNCHANGED <<unwritten, queue>>, Backlog' = Backlog
  PROVE  /\ SameItems
         /\ ItemsOnce /\ (~Writing("session") \/ ending'.at = ending.at) => ItemsOnce'
<1> USE DEF unwritten
<1>1. \A x : Fresh(x)' <=> Fresh(x)
  BY DEF Fresh
<1>2. \A task \in Tasks : Writing(task)' <=> Writing(task)
  BY DEF Writing
<1>3. SameItems
  BY <1>1, <1>2 DEF SameItems, Placed
<1>4. ASSUME ItemsOnce, ~Writing("session") \/ ending'.at = ending.at
      PROVE  ItemsOnce'
  <2>1. GoneOnce'
    BY <1>4 DEF ItemsOnce, GoneOnce
  <2>2. WaitingOnce'
    BY <1>1, <1>2, <1>4 DEF ItemsOnce, WaitingOnce, Tasks
  <2>3. QED
    BY <2>1, <2>2 DEF ItemsOnce
<1>5. QED
  BY <1>3, <1>4

\* The request goes.
LEMMA StartMovesNothing ==
  ASSUME ChainInv, NEW task \in Tasks, StartWrite(task)
  PROVE  SameItems /\ (ItemsOnce => ItemsOnce')
<1>1. UNCHANGED <<strand, late, queue, spill, ending>>
  BY DEF StartWrite
<1>2. \A t \in Tasks : (Writing(t)' <=> Writing(t)) /\ write'[t].item = write[t].item
  BY DEF StartWrite, ChainInv, WriteTypeOK, Writing
<1>3. \A x : Fresh(x)' <=> Fresh(x)
  BY <1>1 DEF Fresh
<1>4. Backlog' = Backlog
  BY <1>1 DEF Backlog
<1>5. SameItems
  BY <1>1, <1>2, <1>3, <1>4 DEF SameItems, Placed
<1>6. ASSUME ItemsOnce
      PROVE  ItemsOnce'
  <2>1. GoneOnce'
    BY <1>1, <1>6 DEF ItemsOnce, GoneOnce
  <2>2. WaitingOnce'
    BY <1>1, <1>2, <1>3, <1>4, <1>6 DEF ItemsOnce, WaitingOnce, Tasks
  <2>3. QED
    BY <2>1, <2>2 DEF ItemsOnce
<1>7. QED
  BY <1>5, <1>6

\* A request that nobody waits for arrives.
LEMMA LateMovesNothing ==
  ASSUME ChainInv, ServerAppendsLate
  PROVE  SameItems /\ (ItemsOnce => ItemsOnce')
<1>1. PICK r \in late : late' = late \ {r} /\ strand' = Append(strand, r)
  BY DEF ServerAppendsLate
<1>2. UNCHANGED <<write, queue, spill, ending>>
  BY DEF ServerAppendsLate
<1>3. r \in Recording
  BY DEF ChainInv, WriteTypeOK
<1>4. /\ Len(strand) \in Nat /\ DOMAIN strand = 1 .. Len(strand)
      /\ DOMAIN strand' = 1 .. Len(strand) + 1
      /\ \A i \in DOMAIN strand : strand'[i] = strand[i]
      /\ strand'[Len(strand) + 1] = r
  BY <1>1, <1>3, StrandGrows
<1>5. DOMAIN strand' = DOMAIN strand \cup {Len(strand) + 1} /\ Len(strand) + 1 \notin DOMAIN strand
  BY <1>4
<1>6. \A x : Fresh(x)' <=> Fresh(x)
  BY <1>1, <1>4, <1>5 DEF Fresh
<1>7. Backlog' = Backlog /\ \A t \in Tasks : Writing(t)' <=> Writing(t)
  BY <1>2 DEF Backlog, Writing
<1>8. SameItems
  BY <1>2, <1>6, <1>7 DEF SameItems, Placed
<1>9. ASSUME ItemsOnce
      PROVE  ItemsOnce'
  <2>1. GoneOnce'
    BY <1>1, <1>4, <1>5, <1>9 DEF ItemsOnce, GoneOnce
  <2>2. WaitingOnce'
    BY <1>2, <1>6, <1>7, <1>9 DEF ItemsOnce, WaitingOnce, Tasks
  <2>3. QED
    BY <2>1, <2>2 DEF ItemsOnce
<1>10. QED
  BY <1>8, <1>9

\* A task enters _log with an item that is nowhere yet.
LEMMA NewItemEnters ==
  ASSUME ChainInv, NEW task \in Tasks, ~Writing(task), NEW item, NEW root, Log(task, item, root),
         ~Placed(item), UNCHANGED queue, Backlog' = Backlog,
         ending'.at \in Replays <=> ending.at \in Replays
  PROVE  /\ \A x : Placed(x)' <=> Placed(x) \/ x = item
         /\ ItemsOnce => ItemsOnce'
<1>1. /\ Writing(task)' /\ write'[task].item = item
      /\ \A t \in Tasks \ {task} : write'[t] = write[t]
      /\ UNCHANGED <<strand, late>>
  BY Enters DEF ChainInv
<1>2. \A x : Fresh(x)' <=> Fresh(x)
  BY <1>1 DEF Fresh
<1>3. \A t \in Tasks : (Writing(t)' <=> Writing(t) \/ t = task)
                      /\ (t # task => write'[t] = write[t])
  BY <1>1 DEF Writing
<1>4. \A x : Placed(x)' <=> Placed(x) \/ x = item
  BY <1>1, <1>2, <1>3 DEF Placed
<1>5. ASSUME ItemsOnce
      PROVE  ItemsOnce'
  <2>1. GoneOnce'
    BY <1>1, <1>5 DEF ItemsOnce, GoneOnce
  <2>2. /\ Fresh(item) /\ \A t \in Tasks : Writing(t) => write[t].item # item
        /\ \A k \in DOMAIN queue : queue[k] # item
        /\ \A k \in DOMAIN Backlog : Backlog[k] # item
    BY DEF Placed
  <2>3. WaitingOnce'
    BY <1>1, <1>2, <1>3, <1>5, <2>2 DEF ItemsOnce, WaitingOnce, Tasks
  <2>4. QED
    BY <2>1, <2>3 DEF ItemsOnce
<1>6. QED
  BY <1>4, <1>5

\* The writer takes what is first in the queue.
LEMMA QueuedItemEnters ==
  ASSUME ChainInv, SessionInv, WriterTakes
  PROVE  SameItems /\ (ItemsOnce => ItemsOnce')
<1>1. /\ ~Writing("writer") /\ queue # <<>> /\ queue' = Tail(queue)
      /\ Log("writer", Head(queue), FALSE) /\ UNCHANGED <<spill, ending>>
  BY DEF WriterTakes, Writing
<1>2. /\ Writing("writer")' /\ write'["writer"].item = Head(queue)
      /\ write'["session"] = write["session"]
      /\ UNCHANGED <<strand, late>>
  BY <1>1, Enters DEF ChainInv, Tasks
<1>3. queue \in Seq(Items)
  BY DEF SessionInv, SessionTypeOK
<1>4. /\ Head(queue) = queue[1] /\ 1 \in DOMAIN queue
      /\ \A i \in DOMAIN queue' : i \in Nat \ {0} /\ i + 1 \in DOMAIN queue /\ queue'[i] = queue[i + 1]
      /\ \A i \in DOMAIN queue : i = 1 \/ (i - 1 \in DOMAIN queue' /\ queue'[i - 1] = queue[i])
  BY <1>1, <1>3, HeadAndTail
<1>5. \A x : Fresh(x)' <=> Fresh(x)
  BY <1>2 DEF Fresh
<1>6. Backlog' = Backlog /\ (Writing("session")' <=> Writing("session"))
  BY <1>1, <1>2 DEF Backlog, Writing
<1>7. SameItems
  <2> SUFFICES ASSUME NEW x
               PROVE  Placed(x)' <=> Placed(x)
    BY DEF SameItems
  <2>1. (\E k \in DOMAIN queue : queue[k] = x) <=> x = queue[1] \/ \E k \in DOMAIN queue' : queue'[k] = x
    BY <1>4
  <2>2. QED
    BY <1>1, <1>2, <1>4, <1>5, <1>6, <2>1 DEF Placed, Tasks
<1>8. ASSUME ItemsOnce
      PROVE  ItemsOnce'
  <2> USE <1>8 DEF ItemsOnce
  <2>1. GoneOnce'
    BY <1>2 DEF GoneOnce
  <2>2. \A i \in DOMAIN queue' : queue'[i] # queue[1]
    <3>1. \A i \in DOMAIN queue' : i + 1 # 1
      BY <1>4
    <3>2. QED
      BY <1>4, <3>1 DEF WaitingOnce
  <2>3. \A i, j \in DOMAIN queue' : queue'[i] = queue'[j] => i = j
    <3>1. ASSUME NEW i \in DOMAIN queue', NEW j \in DOMAIN queue', queue'[i] = queue'[j]
          PROVE  i = j
      <4>1. i + 1 = j + 1 /\ i \in Nat /\ j \in Nat
        BY <1>4, <3>1 DEF WaitingOnce
      <4>2. QED
        BY <4>1
    <3>2. QED
      BY <3>1
  <2>4. WaitingOnce'
    BY <1>1, <1>2, <1>4, <1>5, <1>6, <2>2, <2>3 DEF WaitingOnce, Tasks
  <2>5. QED
    BY <2>1, <2>4
<1>9. QED
  BY <1>7, <1>8

\* The session takes the line that it replays next; the line stays until it is written.
LEMMA ReplayedItemEnters ==
  ASSUME ChainInv, SessionInv, ~Writing("session"), ending.at \in Replays, ending.lines # <<>>,
         Log("session", Head(ending.lines), FALSE), UNCHANGED <<queue, spill, ending>>
  PROVE  SameItems /\ (ItemsOnce => ItemsOnce')
<1>1. /\ Writing("session")' /\ write'["session"].item = Head(ending.lines)
      /\ write'["writer"] = write["writer"]
      /\ UNCHANGED <<strand, late>>
  BY Enters DEF ChainInv, Tasks
<1>2. ending.lines \in Seq(Items)
  BY DEF SessionInv, SessionTypeOK
<1>3. Backlog = ending.lines /\ Backlog' = Backlog
  BY DEF Backlog
<1>4. Head(ending.lines) = Backlog[1] /\ 1 \in DOMAIN Backlog
  BY <1>2, <1>3, HeadAndTail
<1>5. \A x : Fresh(x)' <=> Fresh(x)
  BY <1>1 DEF Fresh
<1>6. Writing("writer")' <=> Writing("writer")
  BY <1>1 DEF Writing
<1>7. SameItems
  BY <1>1, <1>3, <1>4, <1>5, <1>6 DEF SameItems, Placed, Tasks
<1>8. ASSUME ItemsOnce
      PROVE  ItemsOnce'
  <2> USE <1>8 DEF ItemsOnce
  <2>1. GoneOnce'
    BY <1>1 DEF GoneOnce
  <2>2. \A k \in DOMAIN Backlog : Backlog[k] = Backlog[1] => k = 1
    BY <1>4 DEF WaitingOnce
  <2>3. WaitingOnce'
    BY <1>1, <1>3, <1>4, <1>5, <1>6, <2>2 DEF WaitingOnce, Tasks
  <2>4. QED
    BY <2>1, <2>3
<1>9. QED
  BY <1>7, <1>8

\* What becomes of the request of a write that ends.
Ends(task) ==
    \/ UNCHANGED <<strand, late>>
    \/ Writing(task) /\ late' = late \cup {Pending(task)} /\ UNCHANGED strand
    \/ Writing(task) /\ strand' = Append(strand, Pending(task)) /\ UNCHANGED late

\* A write ends: its item is in the log, or on its way there, or lost.
LEMMA ItemLeaves ==
  ASSUME ChainInv, NEW task \in Tasks, Ends(task)
  PROVE  /\ \A x : ~Fresh(x)' => ~Fresh(x) \/ (Writing(task) /\ x = write[task].item)
         /\ \A x : ~Fresh(x) => ~Fresh(x)'
         /\ \/ UNCHANGED <<strand, late>>
            \/ Writing(task) /\ \A x : x = write[task].item => ~Fresh(x)'
         /\ GoneOnce /\ (Writing(task) => Fresh(write[task].item)) => GoneOnce'
<1>1. CASE UNCHANGED <<strand, late>>
  BY <1>1 DEF Fresh, GoneOnce
<1>2. CASE Writing(task) /\ late' = late \cup {Pending(task)} /\ UNCHANGED strand
  <2>1. Pending(task).item = write[task].item
    BY <1>2, PendingIsRecording DEF ChainInv
  <2>2. QED
    BY <1>2, <2>1 DEF Fresh, GoneOnce
<1>3. CASE Writing(task) /\ strand' = Append(strand, Pending(task)) /\ UNCHANGED late
  <2>1. Pending(task).item = write[task].item /\ Pending(task) \in Recording
    BY <1>3, PendingIsRecording DEF ChainInv
  <2>2. /\ Len(strand) \in Nat /\ DOMAIN strand = 1 .. Len(strand)
        /\ DOMAIN strand' = 1 .. Len(strand) + 1
        /\ \A i \in DOMAIN strand : strand'[i] = strand[i]
        /\ strand'[Len(strand) + 1] = Pending(task)
    BY <1>3, <2>1, StrandGrows
  <2>3. DOMAIN strand' = DOMAIN strand \cup {Len(strand) + 1} /\ Len(strand) + 1 \notin DOMAIN strand
    BY <2>2
  <2>4. \A x : ~Fresh(x)' <=> ~Fresh(x) \/ x = write[task].item
    BY <1>3, <2>1, <2>2, <2>3 DEF Fresh
  <2>5. ASSUME GoneOnce, Fresh(write[task].item)
        PROVE  GoneOnce'
    BY <1>3, <2>1, <2>2, <2>3, <2>5 DEF Fresh, GoneOnce
  <2>6. QED
    BY <1>3, <2>4, <2>5
<1>4. QED
  BY <1>1, <1>2, <1>3 DEF Ends

\* A write ends, of an item that is not the line being replayed.
LEMMA WriteEnds ==
  ASSUME ChainInv, SessionInv, NEW task \in Tasks, Ends(task), ~Writing(task)',
         \A t \in Tasks \ {task} : write'[t] = write[t], UNCHANGED queue,
         Backlog' = Backlog, ending'.at \in Replays <=> ending.at \in Replays,
         task = "session" /\ Writing("session") => ending.at \notin Replays
  PROVE  /\ \A x : Placed(x)' => Placed(x)
         /\ Writing(task) => \/ UNCHANGED <<strand, late>>
                          \/ SameItems
         /\ ~Writing(task) => SameItems
         /\ ItemsOnce => ItemsOnce'
<1>1. /\ \A x : ~Fresh(x)' => ~Fresh(x) \/ (Writing(task) /\ x = write[task].item)
      /\ \A x : ~Fresh(x) => ~Fresh(x)'
      /\ \/ UNCHANGED <<strand, late>>
         \/ Writing(task) /\ \A x : x = write[task].item => ~Fresh(x)'
      /\ GoneOnce /\ (Writing(task) => Fresh(write[task].item)) => GoneOnce'
  BY ItemLeaves
<1>2. \A t \in Tasks \ {task} : (Writing(t)' <=> Writing(t)) /\ write'[t] = write[t]
  BY DEF Writing
<1>3. \A x : Placed(x)' => Placed(x)
  BY <1>1, <1>2 DEF Placed
<1>4. ASSUME Writing(task), ~UNCHANGED <<strand, late>>
      PROVE  SameItems
  <2>1. \A x : Placed(x) => Placed(x)'
    BY <1>1, <1>2, <1>4 DEF Placed
  <2>2. QED
    BY <1>3, <2>1 DEF SameItems
<1>5. ASSUME ~Writing(task)
      PROVE  SameItems
  <2>1. \A x : Placed(x) => Placed(x)'
    BY <1>1, <1>2, <1>5 DEF Placed
  <2>2. QED
    BY <1>3, <2>1 DEF SameItems
<1>6. ASSUME ItemsOnce
      PROVE  ItemsOnce'
  <2> USE <1>6 DEF ItemsOnce
  <2>1. GoneOnce'
    BY <1>1 DEF WaitingOnce
  <2>2. ASSUME NEW x, Fresh(x), Writing(task) => write[task].item # x
        PROVE  Fresh(x)'
    BY <1>1, <2>2
  <2>3. \A t \in Tasks : Writing(t)' => \A x : x = write'[t].item => Fresh(x)'
    <3>1. ASSUME NEW t \in Tasks, Writing(t)', NEW x, x = write'[t].item
          PROVE  Fresh(x)'
      <4>1. t # task /\ Writing(t) /\ write'[t] = write[t]
        BY <1>2, <3>1
      <4>2. Fresh(write[t].item) /\ (Writing(task) => write[task].item # write[t].item)
        BY <4>1 DEF WaitingOnce, Tasks
      <4>3. QED
        BY <2>2, <3>1, <4>1, <4>2
    <3>2. QED
      BY <3>1
  <2>4. \A k \in DOMAIN queue :
           (\A x : x = queue[k] => Fresh(x)') /\ \A t \in Tasks : Writing(t)' => write'[t].item # queue[k]
    BY <1>2, <2>2 DEF WaitingOnce
  <2>5. \A k \in DOMAIN Backlog :
           Writing(task) => write[task].item # Backlog[k]
    BY DEF WaitingOnce, Tasks
  <2>6. ASSUME NEW k \in DOMAIN Backlog
        PROVE  /\ \A x : x = Backlog[k] => Fresh(x)'
               /\ \A j \in DOMAIN queue : queue[j] # Backlog[k]
               /\ Writing("writer")' => write'["writer"].item # Backlog[k]
               /\ Writing("session")' /\ write'["session"].item = Backlog[k] => ending'.at \in Replays /\ k = 1
    <3>1. \A x : x = Backlog[k] => Fresh(x)'
      BY <2>2, <2>5 DEF WaitingOnce
    <3>2. QED
      BY <1>2, <3>1 DEF WaitingOnce, Tasks
  <2>7. WaitingOnce'
    <3>1. \A t \in Tasks : Writing(t)' => Fresh(write[t].item)'
      BY <2>3
    <3>2. \A k \in DOMAIN queue' : Fresh(queue[k])'
      BY <2>4
    <3>3. \A k \in DOMAIN Backlog' : Fresh(Backlog[k])'
      BY <2>6
    <3>4. \A j, k \in DOMAIN queue : queue[j] = queue[k] => j = k
      BY DEF WaitingOnce
    <3>5. \A j, k \in DOMAIN Backlog : Backlog[j] = Backlog[k] => j = k
      BY DEF WaitingOnce
    <3>6. Writing("writer")' /\ Writing("session")' => write'["writer"].item # write'["session"].item
      BY DEF Tasks
    <3>7. QED
      BY <2>4, <2>6, <3>1, <3>2, <3>3, <3>4, <3>5, <3>6 DEF WaitingOnce
  <2>8. QED
    BY <2>1, <2>7
<1>7. QED
  BY <1>3, <1>4, <1>5, <1>6

\* The write of a replayed line ends, and the line is done with.
LEMMA ReplayEnds ==
  ASSUME ChainInv, SessionInv, Ends("session"), Writing("session"), ~Writing("session")',
         write'["writer"] = write["writer"], UNCHANGED queue,
         ending.at \in Replays, ending'.at = ending.at, ending'.lines = Tail(ending.lines)
  PROVE  /\ \A x : Placed(x)' => Placed(x)
         /\ UNCHANGED <<strand, late>> \/ SameItems
         /\ ItemsOnce => ItemsOnce'
<1>1. /\ \A x : ~Fresh(x)' => ~Fresh(x) \/ x = write["session"].item
      /\ \A x : ~Fresh(x) => ~Fresh(x)'
      /\ \/ UNCHANGED <<strand, late>>
         \/ \A x : x = write["session"].item => ~Fresh(x)'
      /\ GoneOnce /\ Fresh(write["session"].item) => GoneOnce'
  BY ItemLeaves DEF Tasks
<1>2. /\ ending.lines \in Seq(Items) /\ ending.lines # <<>>
      /\ write["session"].item = Head(ending.lines)
  BY DEF SessionInv, SessionTypeOK, StageInv, Replays
<1>3. Backlog = ending.lines /\ Backlog' = Tail(ending.lines)
  BY DEF Backlog
<1>4. /\ write["session"].item = Backlog[1] /\ 1 \in DOMAIN Backlog
      /\ \A i \in DOMAIN Backlog' : i \in Nat \ {0} /\ i + 1 \in DOMAIN Backlog /\ Backlog'[i] = Backlog[i + 1]
      /\ \A i \in DOMAIN Backlog : i = 1 \/ (i - 1 \in DOMAIN Backlog' /\ Backlog'[i - 1] = Backlog[i])
  BY <1>2, <1>3, HeadAndTail
<1>5. Writing("writer")' <=> Writing("writer")
  BY DEF Writing
<1>6. ASSUME NEW x
      PROVE  (\E k \in DOMAIN Backlog : Backlog[k] = x)
                <=> x = write["session"].item \/ \E k \in DOMAIN Backlog' : Backlog'[k] = x
  BY <1>4
<1>7. \A x : Placed(x)' => Placed(x)
  BY <1>1, <1>5, <1>6 DEF Placed, Tasks
<1>8. ASSUME ~UNCHANGED <<strand, late>>
      PROVE  SameItems
  <2>1. \A x : Placed(x) => Placed(x)'
    BY <1>1, <1>5, <1>6, <1>8 DEF Placed, Tasks
  <2>2. QED
    BY <1>7, <2>1 DEF SameItems
<1>9. ASSUME ItemsOnce
      PROVE  ItemsOnce'
  <2> USE <1>9 DEF ItemsOnce
  <2>1. GoneOnce'
    BY <1>1 DEF WaitingOnce, Tasks
  <2>2. ASSUME NEW x, Fresh(x), write["session"].item # x
        PROVE  Fresh(x)'
    BY <1>1, <2>2
  <2>3. \A t \in Tasks : Writing(t)' => Fresh(write[t].item)'
    <3>1. ASSUME Writing("writer"), NEW x, x = write["writer"].item
          PROVE  Fresh(x)'
      BY <2>2, <3>1 DEF WaitingOnce, Tasks
    <3>2. QED
      BY <1>5, <3>1 DEF Tasks
  <2>4. \A k \in DOMAIN queue' : Fresh(queue[k])'
    <3>1. ASSUME NEW k \in DOMAIN queue, NEW x, x = queue[k]
          PROVE  Fresh(x)'
      BY <2>2, <3>1 DEF WaitingOnce, Tasks
    <3>2. QED
      BY <3>1
  <2>5. ASSUME NEW k \in DOMAIN Backlog', NEW x, x = Backlog'[k]
        PROVE  /\ Fresh(x)'
               /\ \A j \in DOMAIN queue : queue[j] # x
               /\ Writing("writer") => write["writer"].item # x
    <3>1. k + 1 \in DOMAIN Backlog /\ x = Backlog[k + 1] /\ k + 1 # 1
      BY <1>4, <2>5
    <3>2. write["session"].item # x
      BY <1>4, <3>1 DEF WaitingOnce
    <3>3. QED
      BY <2>2, <3>1, <3>2 DEF WaitingOnce
  <2>6. \A k \in DOMAIN Backlog' : Fresh(Backlog[k])'
    BY <2>5
  <2>7. \A i, j \in DOMAIN Backlog' : Backlog'[i] = Backlog'[j] => i = j
    <3>1. ASSUME NEW i \in DOMAIN Backlog', NEW j \in DOMAIN Backlog', Backlog'[i] = Backlog'[j]
          PROVE  i = j
      <4>1. i + 1 = j + 1 /\ i \in Nat /\ j \in Nat
        BY <1>4, <3>1 DEF WaitingOnce
      <4>2. QED
        BY <4>1
    <3>2. QED
      BY <3>1
  <2>8. WaitingOnce'
    BY <1>5, <2>3, <2>4, <2>5, <2>6, <2>7 DEF WaitingOnce, Tasks
  <2>9. QED
    BY <2>1, <2>8
<1>10. QED
  BY <1>7, <1>8, <1>9

\* A live event finds its place in the queue or in the spill file, or is dropped.
LEMMA ItemEnqueued ==
  ASSUME ChainInv, SessionInv, NEW item \in Items, Enqueue(item), UNCHANGED <<unwritten, ending>>
  PROVE  /\ \A x : Placed(x)' => Placed(x) \/ x = item
         /\ trouble' = {} => \A x : Placed(x) \/ x = item => Placed(x)'
         /\ trouble' = {} => trouble = {}
         /\ ItemsOnce /\ ~Placed(item) => ItemsOnce'
<1> USE DEF unwritten
<1>1. \A x : Fresh(x)' <=> Fresh(x)
  BY DEF Fresh
<1>2. \A t \in Tasks : Writing(t)' <=> Writing(t)
  BY DEF Writing
<1>3. /\ ~observer.closed
      /\ \/ queue' = Append(queue, item) /\ UNCHANGED <<spill, trouble>>
         \/ /\ spill' = Append(spill, item) /\ UNCHANGED queue
            /\ trouble' = IF ending.at = "replay" THEN trouble \cup {"overlap"} ELSE trouble
         \/ trouble' = trouble \cup {"dropped"} /\ UNCHANGED <<queue, spill>>
  BY EnqueueTyped DEF SessionInv
<1>4. ending.at \notin AfterClose
  BY <1>3 DEF SessionInv, StageInv
<1>5. CASE queue' = Append(queue, item) /\ UNCHANGED <<spill, trouble>>
  <2>1. /\ Len(queue) \in Nat /\ DOMAIN queue = 1 .. Len(queue) /\ DOMAIN queue' = 1 .. Len(queue) + 1
        /\ \A i \in DOMAIN queue : queue'[i] = queue[i]
        /\ queue'[Len(queue) + 1] = item
    BY <1>5, AppendProperties, LenProperties DEF SessionInv, SessionTypeOK
  <2>2. DOMAIN queue' = DOMAIN queue \cup {Len(queue) + 1} /\ Len(queue) + 1 \notin DOMAIN queue
    BY <2>1
  <2>3. Backlog' = Backlog
    BY <1>5 DEF Backlog
  <2>4. \A x : Placed(x)' <=> Placed(x) \/ x = item
    BY <1>1, <1>2, <2>1, <2>2, <2>3 DEF Placed
  <2>5. ASSUME ItemsOnce, ~Placed(item)
        PROVE  ItemsOnce'
    <3> USE <2>5 DEF ItemsOnce
    <3>1. GoneOnce'
      BY DEF GoneOnce
    <3>2. /\ Fresh(item) /\ \A t \in Tasks : Writing(t) => write[t].item # item
          /\ \A k \in DOMAIN queue : queue[k] # item
          /\ \A k \in DOMAIN Backlog : Backlog[k] # item
      BY DEF Placed
    <3>3. WaitingOnce'
      BY <1>1, <1>2, <2>1, <2>2, <2>3, <3>2 DEF WaitingOnce, Tasks
    <3>4. QED
      BY <3>1, <3>3
  <2>6. QED
    BY <1>5, <2>4, <2>5
<1>6. CASE spill' = Append(spill, item) /\ UNCHANGED queue /\ ending.at # "replay"
  <2>1. /\ Len(spill) \in Nat /\ DOMAIN spill = 1 .. Len(spill) /\ DOMAIN spill' = 1 .. Len(spill) + 1
        /\ \A i \in DOMAIN spill : spill'[i] = spill[i]
        /\ spill'[Len(spill) + 1] = item
    BY <1>6, AppendProperties, LenProperties DEF SessionInv, SessionTypeOK
  <2>2. DOMAIN spill' = DOMAIN spill \cup {Len(spill) + 1} /\ Len(spill) + 1 \notin DOMAIN spill
    BY <2>1
  <2>3. Backlog' = spill' /\ Backlog = spill
    BY <1>4, <1>6 DEF Backlog, Replays, AfterClose
  <2>4. \A x : Placed(x)' <=> Placed(x) \/ x = item
    BY <1>1, <1>2, <1>6, <2>1, <2>2, <2>3 DEF Placed
  <2>5. ASSUME ItemsOnce, ~Placed(item)
        PROVE  ItemsOnce'
    <3> USE <2>5 DEF ItemsOnce
    <3>1. GoneOnce'
      BY DEF GoneOnce
    <3>2. /\ Fresh(item) /\ \A t \in Tasks : Writing(t) => write[t].item # item
          /\ \A k \in DOMAIN queue : queue[k] # item
          /\ \A k \in DOMAIN spill : spill[k] # item
      BY <2>3 DEF Placed
    <3>3. WaitingOnce'
      BY <1>1, <1>2, <1>6, <2>1, <2>2, <2>3, <3>2 DEF WaitingOnce, Tasks
    <3>4. QED
      BY <3>1, <3>3
  <2>6. QED
    BY <1>3, <1>6, <2>4, <2>5
<1>7. CASE UNCHANGED queue /\ Backlog' = Backlog /\ trouble' # {}
  BY <1>7, NothingMoves DEF SameItems
<1>8. CASE spill' = Append(spill, item) /\ UNCHANGED queue /\ ending.at = "replay"
           /\ trouble' = trouble \cup {"overlap"}
  BY <1>7, <1>8 DEF Backlog, Replays
<1>9. CASE trouble' = trouble \cup {"dropped"} /\ UNCHANGED <<queue, spill>>
  BY <1>7, <1>9 DEF Backlog
<1>10. QED
  BY <1>3, <1>5, <1>6, <1>8, <1>9

-----------------------------------------------------------------------------
(* Step by step: no item twice, and none lost *)

\* What is marked stays marked, and on_session_end goes on.
Forward ==
    /\ observer.seen \subseteq observer'.seen
    /\ observer.started => observer'.started
    /\ ending.at \in AfterStarted => ending'.at \in AfterStarted
    /\ ending.at = "started" /\ Writing("session") =>
          ending'.at \in AfterStarted \/ (ending'.at = "started" /\ Writing("session")')
    /\ ending.at \in AfterRows => ending'.at \in AfterRows
    /\ ending.at \in {"stop", "done"} => ending'.at \in {"stop", "done"}
    /\ ending.at = "stats" /\ Writing("session") =>
          ending'.at \in {"stop", "done"} \/ (ending'.at = "stats" /\ Writing("session")')

\* The items in New come in, and are marked.
MarksNew(New) ==
    /\ \A x \in New : x \in 1 .. Turns => x \in observer'.seen
    /\ SessionStarted \in New =>
          observer'.started \/ (ending'.at = "started" /\ Writing("session")')
    /\ SessionEnded \in New => ending'.at \in AfterRows
    /\ SessionStats \in New => ending'.at = "stats" /\ Writing("session")'

LEMMA MarkedStep ==
  ASSUME OnceInv, NEW New, Forward, MarksNew(New), trouble \subseteq trouble',
         \A x : Placed(x)' => Placed(x) \/ x \in New,
         ItemsOnce /\ Marked => ItemsOnce'
  PROVE  OnceInv'
<1>1. SUFFICES ASSUME ItemsOnce, Marked
               PROVE  Marked'
  BY DEF OnceInv
<1>2. \A x \in 1 .. Turns : Placed(x)' => x \in observer'.seen
  BY <1>1 DEF Marked, Forward, MarksNew
<1>3. Placed(SessionStarted)' =>
         \/ observer'.started \/ ending'.at \in AfterStarted
         \/ ending'.at = "started" /\ Writing("session")'
  BY <1>1 DEF Marked, Forward, MarksNew, SessionStarted
<1>4. Placed(SessionEnded)' => ending'.at \in AfterRows
  BY <1>1 DEF Marked, Forward, MarksNew, SessionEnded
<1>5. Placed(SessionStats)' =>
         ending'.at \in {"stop", "done"} \/ (ending'.at = "stats" /\ Writing("session")')
  BY <1>1 DEF Marked, Forward, MarksNew, SessionStats
<1>6. QED
  BY <1>2, <1>3, <1>4, <1>5 DEF Marked

\* Nothing goes wrong in a step, nothing gets lost, and what comes in is known.
LosesNothing(New) ==
    /\ trouble = {} /\ late' = {} /\ acked' = DOMAIN strand'
    /\ \A x : Placed(x) \/ x \in New => Placed(x)'
    /\ observer'.started \/ ending'.at \in AfterStarted =>
          observer.started \/ ending.at \in AfterStarted \/ SessionStarted \in New \/ Placed(SessionStarted)
    /\ ending'.at \in AfterRows => ending.at \in AfterRows \/ SessionEnded \in New
    /\ observer'.seen \subseteq observer.seen \cup New
    /\ \A x \in due' : x \in due \cup New \/ \E i \in DOMAIN ending'.rows : ending'.rows[i] = x
    /\ \A i \in DOMAIN ending.rows :
          Placed(ending.rows[i]) \/ \E j \in DOMAIN ending'.rows : ending'.rows[j] = ending.rows[i]
    /\ ending'.at \in AfterFlush => queue' = <<>> /\ ~Writing("writer")'
    /\ ending'.at \in AfterReplay => spill' = <<>>

LEMMA KeptStep ==
  ASSUME KeptInv, NEW New, trouble' = {} => LosesNothing(New)
  PROVE  KeptInv'
<1>1. SUFFICES ASSUME trouble' = {}
               PROVE  KeptInv'
  BY DEF KeptInv
<1> USE <1>1 DEF KeptInv, LosesNothing
<1>2. /\ observer'.started \/ ending'.at \in AfterStarted => Placed(SessionStarted)'
  <2>1. observer'.started \/ ending'.at \in AfterStarted => Placed(0) \/ 0 \in New
    BY DEF SessionStarted
  <2>2. QED
    BY <2>1 DEF SessionStarted
<1>3. ending'.at \in AfterRows => Placed(SessionEnded)'
  <2>1. ending'.at \in AfterRows => Placed(Turns + 1) \/ Turns + 1 \in New
    BY DEF SessionEnded
  <2>2. QED
    BY <2>1 DEF SessionEnded
<1>4. \A x \in observer'.seen : Placed(x)'
  OBVIOUS
<1>5. ASSUME NEW x \in due'
      PROVE  Placed(x)' \/ \E i \in DOMAIN ending'.rows : ending'.rows[i] = x
  <2>1. CASE x \in due
    BY <2>1
  <2>2. CASE x \notin due
    BY <2>2
  <2>3. QED
    BY <2>1, <2>2
<1>6. QED
  BY <1>2, <1>3, <1>4, <1>5

\* Steps that move no item, and by which on_session_end does not move on.
LEMMA IdleKeepsItems ==
  ASSUME SessionInv, ItemsInv, SameItems, ItemsOnce => ItemsOnce',
         UNCHANGED <<ending, due, spill, trouble>>, observer'.seen = observer.seen,
         observer'.started = observer.started, Writing("session")' <=> Writing("session"),
         trouble = {} => late' = {} /\ acked' = DOMAIN strand',
         ending.at \in AfterFlush /\ queue = <<>> /\ ~Writing("writer") => queue' = <<>> /\ ~Writing("writer")'
  PROVE  ItemsInv'
<1> USE DEF ItemsInv
<1>1. Forward
  BY DEF Forward
<1>2. MarksNew({})
  BY DEF MarksNew
<1>3. OnceInv'
  BY <1>1, <1>2, MarkedStep DEF SameItems
<1>4. ASSUME trouble = {}
      PROVE  LosesNothing({})
  BY <1>4 DEF LosesNothing, KeptInv, SameItems, AfterReplay
<1>5. KeptInv'
  BY <1>4, KeptStep
<1>6. QED
  BY <1>3, <1>5

LEMMA WriterTakesKeepsItems ==
  ASSUME ChainInv, SessionInv, ItemsInv, WriterTakes
  PROVE  ItemsInv'
<1>1. SameItems /\ (ItemsOnce => ItemsOnce')
  BY QueuedItemEnters
<1>2. /\ queue # <<>> /\ Log("writer", Head(queue), FALSE)
      /\ UNCHANGED <<spill, observer, ending, said, due, trouble>>
  BY DEF WriterTakes
<1>3. write'["session"] = write["session"] /\ UNCHANGED <<strand, late, acked>>
  BY <1>2, Enters DEF ChainInv, Tasks
<1>4. QED
  BY <1>1, <1>2, <1>3, IdleKeepsItems DEF Writing, ItemsInv, KeptInv

LEMMA StartKeepsItems ==
  ASSUME ChainInv, SessionInv, ItemsInv, NEW task \in Tasks, StartWrite(task)
  PROVE  ItemsInv'
<1>1. SameItems /\ (ItemsOnce => ItemsOnce')
  BY StartMovesNothing
<1>2. UNCHANGED <<strand, late, acked, queue, spill, observer, ending, due, trouble>>
  BY DEF StartWrite
<1>3. \A t \in Tasks : Writing(t)' <=> Writing(t)
  BY DEF StartWrite, ChainInv, WriteTypeOK, Writing
<1>4. QED
  BY <1>1, <1>2, <1>3, IdleKeepsItems DEF ItemsInv, KeptInv, Tasks

LEMMA LateKeepsItems ==
  ASSUME ChainInv, SessionInv, ItemsInv, ServerAppendsLate
  PROVE  ItemsInv'
<1>1. SameItems /\ (ItemsOnce => ItemsOnce')
  BY LateMovesNothing
<1>2. UNCHANGED <<write, queue, spill, observer, ending, due, trouble>> /\ late # {}
  BY DEF ServerAppendsLate
<1>3. QED
  BY <1>1, <1>2, IdleKeepsItems DEF ItemsInv, KeptInv, Writing

LEMMA AttachKeepsItems ==
  ASSUME ChainInv, SessionInv, ItemsInv, attach
  PROVE  ItemsInv'
<1>1. /\ observer' = [observer EXCEPT !.attached = TRUE]
      /\ UNCHANGED <<unwritten, queue, spill, ending, due, trouble>>
  BY DEF attach
<1>2. observer'.seen = observer.seen /\ observer'.started = observer.started
  BY <1>1 DEF SessionInv, SessionTypeOK
<1>3. SameItems /\ (ItemsOnce => ItemsOnce')
  BY <1>1, NothingMoves DEF Backlog
<1>4. QED
  BY <1>1, <1>2, <1>3, IdleKeepsItems DEF ItemsInv, KeptInv, Writing, unwritten

\* Steps that move no item, and by which on_session_end goes on.
LEMMA GoesOnKeepsItems ==
  ASSUME SessionInv, ItemsInv, ~Writing("session"),
         UNCHANGED <<unwritten, queue>>, Backlog' = Backlog,
         observer'.seen = observer.seen, observer'.started = observer.started, UNCHANGED due,
         trouble \subseteq trouble', Forward,
         trouble' = {} =>
            /\ ending'.at \in AfterStarted => observer.started \/ ending.at \in AfterStarted
            /\ ending'.at \in AfterRows => ending.at \in AfterRows
            /\ \A i \in DOMAIN ending.rows :
                  Placed(ending.rows[i]) \/ \E j \in DOMAIN ending'.rows : ending'.rows[j] = ending.rows[i]
            /\ ending'.at \in AfterFlush => queue' = <<>> /\ ~Writing("writer")
            /\ ending'.at \in AfterReplay => spill' = <<>>
  PROVE  ItemsInv'
<1> USE DEF ItemsInv
<1>1. SameItems /\ (ItemsOnce => ItemsOnce')
  BY NothingMoves
<1>2. MarksNew({})
  BY DEF MarksNew
<1>3. OnceInv'
  BY <1>1, <1>2, MarkedStep DEF SameItems
<1>4. ASSUME trouble' = {}
      PROVE  LosesNothing({})
  <2>1. trouble = {}
    BY <1>4
  <2>2. UNCHANGED <<strand, late, acked, write>>
    BY DEF unwritten
  <2>3. Writing("writer")' <=> Writing("writer")
    BY <2>2 DEF Writing
  <2>4. QED
    BY <1>1, <1>4, <2>1, <2>2, <2>3 DEF LosesNothing, KeptInv, SameItems
<1>5. KeptInv'
  BY <1>4, KeptStep
<1>6. QED
  BY <1>3, <1>5

LEMMA FlushKeepsItems ==
  ASSUME ChainInv, SessionInv, ItemsInv, NEW at, NEW replay, NEW next,
         \/ at = "flush" /\ replay = "replay" /\ next = "started"
         \/ at = "lastFlush" /\ replay = "lastReplay" /\ next = "stats",
         flush(at, replay, next)
  PROVE  ItemsInv'
<1>1. /\ ending.at = at /\ ~Writing("session")
      /\ UNCHANGED <<unwritten, queue, spill, observer, due>>
      /\ trouble' = IF AllDone THEN trouble ELSE trouble \cup {"timeout"}
      /\ ending' = IF spill = <<>> THEN [ending EXCEPT !.at = next] ELSE [ending EXCEPT !.at = replay, !.lines = spill]
  BY DEF flush, Pauses, Writing, Goes
<1>2. /\ ending'.rows = ending.rows
      /\ spill = <<>> => ending'.at = next
      /\ spill # <<>> => ending'.at = replay /\ ending'.lines = spill
  BY <1>1 DEF SessionInv, SessionTypeOK
<1>3. Backlog' = Backlog
  BY <1>1, <1>2 DEF Backlog, Replays
<1>4. Forward
  BY <1>1, <1>2 DEF Forward, AfterStarted, AfterRows
<1>5. trouble' = {} => queue = <<>> /\ ~Writing("writer")
  BY <1>1 DEF AllDone, Writing
<1>6. ending'.at \in AfterReplay => spill = <<>>
  BY <1>2 DEF AfterReplay, AfterFlush, AfterClose
<1>7. /\ ending'.at \in AfterStarted => ending.at \in AfterStarted
      /\ ending'.at \in AfterRows => ending.at \in AfterRows
  BY <1>1, <1>2 DEF AfterStarted, AfterRows
<1>8. QED
  BY <1>1, <1>2, <1>3, <1>4, <1>5, <1>6, <1>7, GoesOnKeepsItems

LEMMA DrainKeepsItems ==
  ASSUME ChainInv, SessionInv, ItemsInv, NEW replay, NEW next,
         \/ replay = "replay" /\ next = "started"
         \/ replay = "lastReplay" /\ next = "stats",
         _drain_spill(replay, next)
  PROVE  ItemsInv'
<1>1. /\ ending.at = replay /\ ~Writing("session") /\ ending.at \in Replays
      /\ UNCHANGED <<queue, observer, said, due, trouble>>
  BY DEF _drain_spill, Pauses, Writing, Replays
<1>2. CASE ending.lines # <<>>
  <2>1. Log("session", Head(ending.lines), FALSE) /\ UNCHANGED <<spill, ending>>
    BY <1>2 DEF _drain_spill
  <2>2. SameItems /\ (ItemsOnce => ItemsOnce')
    BY <1>1, <1>2, <2>1, ReplayedItemEnters
  <2>3. /\ Writing("session")' /\ write'["writer"] = write["writer"]
        /\ UNCHANGED <<strand, late, acked>>
    BY <2>1, Enters DEF ChainInv, Tasks
  <2>4. Forward
    BY <1>1, <2>1, <2>3 DEF Forward, Replays
  <2>5. MarksNew({})
    BY DEF MarksNew
  <2>6. OnceInv'
    BY <1>1, <2>2, <2>4, <2>5, MarkedStep DEF SameItems, ItemsInv
  <2>7. trouble' = {} => LosesNothing({})
    BY <1>1, <2>1, <2>2, <2>3 DEF LosesNothing, ItemsInv, KeptInv, SameItems, Writing
  <2>8. QED
    BY <2>6, <2>7, KeptStep DEF ItemsInv
<1>3. CASE ending.lines = <<>>
  <2>1. spill' = <<>> /\ ending' = [ending EXCEPT !.at = next] /\ UNCHANGED unwritten
    BY <1>3 DEF _drain_spill, Goes
  <2>2. ending'.at = next /\ ending'.rows = ending.rows
    BY <2>1 DEF SessionInv, SessionTypeOK
  <2>3. Backlog' = Backlog
    BY <1>1, <1>3, <2>1, <2>2 DEF Backlog, Replays
  <2>4. Forward
    BY <1>1, <2>2 DEF Forward, AfterStarted, AfterRows, Replays
  <2>5. /\ ending'.at \in AfterStarted => ending.at \in AfterStarted
        /\ ending'.at \in AfterRows => ending.at \in AfterRows
        /\ ending'.at \in AfterFlush => ending.at \in AfterFlush
    BY <1>1, <2>2 DEF AfterStarted, AfterRows, AfterFlush, AfterClose
  <2>6. trouble = {} /\ ending.at \in AfterFlush => queue = <<>> /\ ~Writing("writer")
    BY DEF ItemsInv, KeptInv
  <2>7. QED
    BY <1>1, <2>1, <2>2, <2>3, <2>4, <2>5, <2>6, GoesOnKeepsItems
<1>4. QED
  BY <1>2, <1>3

\* The session enters _log with an item that is nowhere yet.
LEMMA NewItemKeepsItems ==
  ASSUME ChainInv, SessionInv, ItemsInv, NEW item, NEW root, Log("session", item, root),
         "cancelled" \notin trouble => ~Placed(item), ~Writing("session"),
         UNCHANGED <<queue, spill, due, trouble>>, ending'.rows = ending.rows,
         ending.at \in {"started", "rows", "stats"},
         \/ ending'.at = ending.at /\ item # SessionEnded
         \/ ending.at = "rows" /\ ending'.at = "ended" /\ item = SessionEnded,
         item = SessionStarted => ending.at = "started",
         item = SessionStats => ending.at = "stats",
         observer'.started = observer.started,
         observer'.seen = observer.seen \cup (IF item \in 1 .. Turns THEN {item} ELSE {})
  PROVE  ItemsInv'
<1> USE DEF ItemsInv
<1>1. "session" \in Tasks /\ "writer" \in Tasks
  BY DEF Tasks
<1>2. /\ Writing("session")' /\ write'["writer"] = write["writer"]
      /\ UNCHANGED <<strand, late, acked>>
  BY <1>1, Enters DEF ChainInv, Tasks
<1>3. Backlog' = Backlog
  BY DEF Backlog, Replays
<1>4. ASSUME "cancelled" \notin trouble, ItemsOnce
      PROVE  ItemsOnce'
  BY <1>1, <1>3, <1>4, NewItemEnters DEF Replays
<1>5. \A x : Placed(x)' <=> Placed(x) \/ x = item
  <2>1. write'["session"].item = item
    BY <1>1, Enters DEF ChainInv
  <2>2. \A x : Fresh(x)' <=> Fresh(x)
    BY <1>2 DEF Fresh
  <2>3. Writing("writer")' <=> Writing("writer")
    BY <1>2 DEF Writing
  <2>4. QED
    BY <1>2, <1>3, <2>1, <2>2, <2>3 DEF Placed, Tasks
<1>6. Forward
  BY <1>2 DEF Forward, AfterStarted, AfterRows
<1>7. MarksNew({item})
  <2>1. Turns \in Nat
    BY ObserverAssumption
  <2>2. QED
    BY <1>2, <2>1 DEF MarksNew, AfterRows, AfterStarted, SessionStarted, SessionEnded, SessionStats
<1>8. OnceInv'
  BY <1>4, <1>5, <1>6, <1>7, MarkedStep DEF OnceInv
<1>9. trouble' = {} => LosesNothing({item})
  <2>1. ending'.at \notin AfterFlush \/ (ending'.at = ending.at /\ ending.at \in AfterFlush)
    BY DEF AfterFlush, AfterClose
  <2>2. ending'.at \notin AfterReplay \/ (ending'.at = ending.at /\ ending.at \in AfterReplay)
    BY DEF AfterReplay, AfterFlush, AfterClose
  <2>3. /\ ending'.at \in AfterStarted => ending.at \in AfterStarted
        /\ ending'.at \in AfterRows => ending.at \in AfterRows \/ item = SessionEnded
    BY DEF AfterStarted, AfterRows
  <2>4. Writing("writer")' <=> Writing("writer")
    BY <1>2 DEF Writing
  <2>5. QED
    BY <1>2, <1>5, <2>1, <2>2, <2>3, <2>4 DEF LosesNothing, KeptInv
<1>10. QED
  BY <1>8, <1>9, KeptStep

\* What is written beside the events of the call is none of them.
LEMMA SpecialItems ==
  /\ SessionStarted \notin 1 .. Turns /\ SessionEnded \notin 1 .. Turns /\ SessionStats \notin 1 .. Turns
  /\ SessionStarted # SessionEnded /\ SessionStarted # SessionStats /\ SessionEnded # SessionStats
  BY ObserverAssumption DEF SessionStarted, SessionEnded, SessionStats

LEMMA SessionStartedKeepsItems ==
  ASSUME ChainInv, SessionInv, ItemsInv, log_session_started
  PROVE  ItemsInv'
<1>1. /\ ending.at = "started" /\ ~Writing("session")
      /\ UNCHANGED <<queue, spill, observer, said, due, trouble>>
  BY DEF log_session_started, Pauses, Writing
<1>2. CASE observer.started
  <2>1. UNCHANGED unwritten /\ ending' = [ending EXCEPT !.at = "rows"]
    BY <1>2 DEF log_session_started, Goes
  <2>2. ending'.at = "rows" /\ ending'.rows = ending.rows
    BY <2>1 DEF SessionInv, SessionTypeOK
  <2>3. Backlog' = Backlog
    BY <1>1, <2>2 DEF Backlog, Replays
  <2>4. Forward
    BY <1>1, <2>2 DEF Forward, AfterStarted, AfterRows
  <2>5. ending'.at \notin AfterRows \cup AfterFlush \cup AfterReplay
    BY <2>2 DEF AfterStarted, AfterRows, AfterReplay, AfterFlush, AfterClose
  <2>6. QED
    BY <1>1, <1>2, <2>1, <2>2, <2>3, <2>4, <2>5, GoesOnKeepsItems
<1>3. CASE ~observer.started
  <2>1. Log("session", SessionStarted, TRUE) /\ UNCHANGED ending
    BY <1>3 DEF log_session_started
  <2>2. "cancelled" \notin trouble => ~Placed(SessionStarted)
    BY <1>1, <1>3 DEF ItemsInv, OnceInv, Marked, AfterStarted
  <2>3. QED
    BY <1>1, <2>1, <2>2, SpecialItems, NewItemKeepsItems
<1>4. QED
  BY <1>2, <1>3

LEMMA LogRowKeepsItems ==
  ASSUME ChainInv, SessionInv, ItemsInv, LogRow
  PROVE  ItemsInv'
<1>1. /\ ending.at = "rows" /\ ~Writing("session") /\ ending.rows # <<>>
      /\ UNCHANGED <<queue, spill, said, due, trouble>>
  BY DEF LogRow, Pauses, Writing
<1> DEFINE Events == 1 .. Turns
<1>2. ending.rows \in Seq(Events) /\ Turns \in Nat
  BY ObserverAssumption DEF SessionInv, SessionTypeOK
<1>3. CASE Head(ending.rows) \in observer.seen
  <2>1. UNCHANGED <<unwritten, observer>> /\ ending' = [ending EXCEPT !.rows = Tail(@)]
    BY <1>3 DEF LogRow
  <2>2. ending'.at = "rows" /\ ending'.rows = Tail(ending.rows)
    BY <1>1, <2>1 DEF SessionInv, SessionTypeOK
  <2>3. Backlog' = Backlog
    BY <1>1, <2>2 DEF Backlog, Replays
  <2>4. Forward
    BY <1>1, <2>1, <2>2 DEF Forward
  <2>5. trouble = {} => Placed(Head(ending.rows))
    BY <1>3 DEF ItemsInv, KeptInv
  <2> HIDE DEF Events
  <2>6. \A i \in DOMAIN ending.rows :
           ending.rows[i] = Head(ending.rows) \/ \E j \in DOMAIN ending'.rows : ending'.rows[j] = ending.rows[i]
    <3>1. /\ Head(ending.rows) = ending.rows[1]
          /\ \A i \in DOMAIN ending.rows :
                i = 1 \/ (i - 1 \in DOMAIN Tail(ending.rows) /\ Tail(ending.rows)[i - 1] = ending.rows[i])
      BY <1>1, <1>2, HeadAndTail
    <3>2. QED
      BY <2>2, <3>1
  <2>7. ending'.at \notin AfterRows \cup AfterFlush \cup AfterReplay
    BY <2>2 DEF AfterStarted, AfterRows, AfterReplay, AfterFlush, AfterClose
  <2>8. trouble' = {} => \A i \in DOMAIN ending.rows :
           Placed(ending.rows[i]) \/ \E j \in DOMAIN ending'.rows : ending'.rows[j] = ending.rows[i]
    BY <1>1, <2>5, <2>6
  <2>9. QED
    BY <1>1, <2>1, <2>2, <2>3, <2>4, <2>7, <2>8, GoesOnKeepsItems
<1>4. CASE Head(ending.rows) \notin observer.seen
  <2>1. /\ Log("session", Head(ending.rows), FALSE) /\ UNCHANGED ending
        /\ observer' = [observer EXCEPT !.seen = @ \cup {Head(ending.rows)}]
    BY <1>4 DEF LogRow
  <2>2. /\ observer'.started = observer.started
        /\ observer'.seen = observer.seen \cup {Head(ending.rows)}
    BY <2>1 DEF SessionInv, SessionTypeOK
  <2>3. Head(ending.rows) \in Events
    BY <1>1, <1>2, HeadTailProperties
  <2>4. "cancelled" \notin trouble => ~Placed(Head(ending.rows))
    BY <1>4, <2>3 DEF ItemsInv, OnceInv, Marked
  <2>5. /\ Head(ending.rows) # SessionStarted /\ Head(ending.rows) # SessionEnded
        /\ Head(ending.rows) # SessionStats
    BY <1>2, <2>3 DEF SessionStarted, SessionEnded, SessionStats
  <2>6. QED
    BY <1>1, <2>1, <2>2, <2>3, <2>4, <2>5, NewItemKeepsItems
<1>5. QED
  BY <1>3, <1>4

LEMMA SessionEndedKeepsItems ==
  ASSUME ChainInv, SessionInv, ItemsInv, log_session_ended
  PROVE  ItemsInv'
<1>1. /\ ending.at = "rows" /\ ~Writing("session")
      /\ Log("session", SessionEnded, FALSE)
      /\ ending' = [ending EXCEPT !.at = "ended"]
      /\ UNCHANGED <<queue, spill, observer, said, due, trouble>>
  BY DEF log_session_ended, Pauses, Goes, Writing
<1>2. ending'.at = "ended" /\ ending'.rows = ending.rows
  BY <1>1 DEF SessionInv, SessionTypeOK
<1>3. "cancelled" \notin trouble => ~Placed(SessionEnded)
  BY <1>1 DEF ItemsInv, OnceInv, Marked, AfterRows, AfterStarted
<1>4. QED
  BY <1>1, <1>2, <1>3, SpecialItems, NewItemKeepsItems

LEMMA CloseKeepsItems ==
  ASSUME ChainInv, SessionInv, ItemsInv, aclose
  PROVE  ItemsInv'
<1>1. /\ ending.at = "close" /\ ~Writing("session")
      /\ observer' = [observer EXCEPT !.closed = TRUE]
      /\ ending' = [ending EXCEPT !.at = "lastFlush"]
      /\ UNCHANGED <<unwritten, queue, spill, said, due, trouble>>
  BY DEF aclose, Pauses, Goes, Writing
<1>2. /\ ending'.at = "lastFlush" /\ ending'.rows = ending.rows
      /\ observer'.started = observer.started /\ observer'.seen = observer.seen
  BY <1>1 DEF SessionInv, SessionTypeOK
<1>3. Backlog' = Backlog
  BY <1>1, <1>2 DEF Backlog, Replays
<1>4. Forward
  BY <1>1, <1>2 DEF Forward, AfterStarted, AfterRows
<1>5. /\ ending.at \in AfterStarted /\ ending.at \in AfterRows
      /\ ending'.at \notin AfterFlush \cup AfterReplay
  BY <1>1, <1>2 DEF AfterStarted, AfterRows, AfterReplay, AfterFlush, AfterClose
<1>6. QED
  BY <1>1, <1>2, <1>3, <1>4, <1>5, GoesOnKeepsItems

LEMMA StatsKeepsItems ==
  ASSUME ChainInv, SessionInv, ItemsInv, _log_livekit_session_stats
  PROVE  ItemsInv'
<1>1. /\ ending.at = "stats" /\ ~Writing("session")
      /\ UNCHANGED <<queue, spill, observer, said, due, trouble>>
  BY DEF _log_livekit_session_stats, Pauses, Writing
<1>2. CASE observer.counted
  <2>1. Log("session", SessionStats, FALSE) /\ UNCHANGED ending
    BY <1>2 DEF _log_livekit_session_stats
  <2>2. "cancelled" \notin trouble => ~Placed(SessionStats)
    BY <1>1 DEF ItemsInv, OnceInv, Marked
  <2>3. QED
    BY <1>1, <2>1, <2>2, SpecialItems, NewItemKeepsItems
<1>3. CASE ~observer.counted
  <2>1. UNCHANGED unwritten /\ ending' = [ending EXCEPT !.at = "stop"]
    BY <1>3 DEF _log_livekit_session_stats, Goes
  <2>2. ending'.at = "stop" /\ ending'.rows = ending.rows
    BY <2>1 DEF SessionInv, SessionTypeOK
  <2>3. Backlog' = Backlog
    BY <1>1, <2>2 DEF Backlog, Replays
  <2>4. Forward
    BY <1>1, <2>2 DEF Forward, AfterStarted, AfterRows
  <2>5. /\ ending.at \in AfterStarted /\ ending.at \in AfterRows
        /\ ending.at \in AfterFlush /\ ending.at \in AfterReplay
    BY <1>1 DEF AfterStarted, AfterRows, AfterReplay, AfterFlush, AfterClose
  <2>6. trouble = {} => queue = <<>> /\ ~Writing("writer") /\ spill = <<>>
    BY <2>5 DEF ItemsInv, KeptInv
  <2>7. QED
    BY <1>1, <2>1, <2>2, <2>3, <2>4, <2>5, <2>6, GoesOnKeepsItems
<1>4. QED
  BY <1>2, <1>3

\* What a write that ends does to the items, and where on_session_end goes from there.
LEMMA ReturnMovesItems ==
  ASSUME ChainInv, SessionInv, NEW task \in Tasks, Writing(task), ~Writing(task)', Ends(task),
         \A t \in Tasks \ {task} : write'[t] = write[t],
         NEW answered \in BOOLEAN, Returns(task, answered), UNCHANGED <<queue, spill>>
  PROVE  /\ \A x : Placed(x)' => Placed(x)
         /\ UNCHANGED <<strand, late>> \/ SameItems
         /\ ItemsOnce => ItemsOnce'
         /\ Forward /\ observer'.seen = observer.seen
         /\ answered /\ (observer'.started \/ ending'.at \in AfterStarted) =>
               observer.started \/ ending.at \in AfterStarted \/ Placed(SessionStarted)
         /\ ending'.at \in AfterRows => ending.at \in AfterRows
         /\ \A i \in DOMAIN ending.rows :
               Placed(ending.rows[i]) \/ \E j \in DOMAIN ending'.rows : ending'.rows[j] = ending.rows[i]
         /\ ending'.at \in AfterFlush => ending.at \in AfterFlush
         /\ ending'.at \in AfterReplay => ending.at \in AfterReplay
<1>1. CASE task = "writer"
  <2>1. ending' = ending /\ observer' = [observer EXCEPT !.counted = @ \/ answered]
    BY <1>1 DEF Returns
  <2>2. observer'.seen = observer.seen /\ observer'.started = observer.started
    BY <2>1 DEF SessionInv, SessionTypeOK
  <2>3. Writing("session")' <=> Writing("session")
    BY <1>1 DEF Writing, Tasks
  <2>4. Backlog' = Backlog
    BY <2>1 DEF Backlog
  <2>5. Forward
    BY <2>1, <2>2, <2>3 DEF Forward
  <2>6. /\ \A x : Placed(x)' => Placed(x)
        /\ UNCHANGED <<strand, late>> \/ SameItems
        /\ ItemsOnce => ItemsOnce'
    BY <1>1, <2>1, <2>4, WriteEnds
  <2>7. QED
    BY <2>1, <2>2, <2>5, <2>6
<1>2. CASE task = "session"
  <2>1. observer' = [observer EXCEPT !.started = @ \/ (answered /\ ending.at = "started"),
                       !.counted = @ \/ (answered /\ ending.at \in {"replay", "lastReplay"})]
    BY <1>2 DEF Returns
  <2>2. /\ observer'.seen = observer.seen
        /\ observer'.started <=> observer.started \/ (answered /\ ending.at = "started")
    BY <2>1 DEF SessionInv, SessionTypeOK
  <2>3. write'["writer"] = write["writer"]
    BY <1>2 DEF Tasks
  <2>4. CASE ending.at \in Replays
    <3>1. ending' = [ending EXCEPT !.lines = Tail(@)]
      BY <1>2, <2>4 DEF Returns, Replays
    <3>2. ending'.at = ending.at /\ ending'.rows = ending.rows /\ ending'.lines = Tail(ending.lines)
      BY <3>1 DEF SessionInv, SessionTypeOK
    <3>3. /\ \A x : Placed(x)' => Placed(x)
          /\ UNCHANGED <<strand, late>> \/ SameItems
          /\ ItemsOnce => ItemsOnce'
      BY <1>2, <2>3, <2>4, <3>2, ReplayEnds
    <3>4. Forward
      BY <2>2, <2>4, <3>2 DEF Forward, Replays
    <3>5. QED
      BY <2>2, <2>4, <3>2, <3>3, <3>4 DEF Replays
  <2>5. ASSUME ending.at \notin Replays, ending'.at \notin Replays
        PROVE  /\ \A x : Placed(x)' => Placed(x)
               /\ UNCHANGED <<strand, late>> \/ SameItems
               /\ ItemsOnce => ItemsOnce'
    <3>1. Backlog' = Backlog
      BY <2>5 DEF Backlog
    <3>2. QED
      BY <1>2, <2>5, <3>1, WriteEnds
  <2>6. CASE ending.at = "started"
    <3>1. ending' = [ending EXCEPT !.at = "rows"]
      BY <1>2, <2>6 DEF Returns
    <3>2. ending'.at = "rows" /\ ending'.rows = ending.rows
      BY <3>1 DEF SessionInv, SessionTypeOK
    <3>3. Placed(SessionStarted)
      BY <1>2, <2>6 DEF Placed, SessionInv, StageInv, Replays
    <3>4. Forward
      BY <2>2, <2>6, <3>2 DEF Forward, AfterStarted, AfterRows
    <3>5. ending'.at \notin Replays \cup AfterRows \cup AfterFlush \cup AfterReplay
      BY <3>2 DEF Replays, AfterRows, AfterStarted, AfterReplay, AfterFlush, AfterClose
    <3>6. QED
      BY <2>2, <2>5, <2>6, <3>2, <3>3, <3>4, <3>5 DEF Replays
  <2>7. CASE ending.at = "rows"
    <3>1. ending' = [ending EXCEPT !.rows = Tail(@)]
      BY <1>2, <2>7 DEF Returns
    <3>2. ending'.at = "rows" /\ ending'.rows = Tail(ending.rows)
      BY <2>7, <3>1 DEF SessionInv, SessionTypeOK
    <3>3. Placed(Head(ending.rows)) /\ ending.rows # <<>>
      BY <1>2, <2>7 DEF Placed, SessionInv, StageInv, Replays
    <3>4. Forward
      BY <2>2, <2>7, <3>2 DEF Forward
    <3>5. ending'.at \notin Replays \cup AfterRows \cup AfterFlush \cup AfterReplay
      BY <3>2 DEF Replays, AfterRows, AfterStarted, AfterReplay, AfterFlush, AfterClose
    <3> DEFINE Events == 1 .. Turns
    <3>6. ending.rows \in Seq(Events)
      BY DEF SessionInv, SessionTypeOK
    <3> HIDE DEF Events
    <3>7. /\ Head(ending.rows) = ending.rows[1]
          /\ \A i \in DOMAIN ending.rows :
                i = 1 \/ (i - 1 \in DOMAIN Tail(ending.rows) /\ Tail(ending.rows)[i - 1] = ending.rows[i])
      BY <3>3, <3>6, HeadAndTail
    <3>8. \A i \in DOMAIN ending.rows :
             Placed(ending.rows[i]) \/ \E j \in DOMAIN ending'.rows : ending'.rows[j] = ending.rows[i]
      BY <3>2, <3>3, <3>7
    <3>9. QED
      BY <2>2, <2>5, <2>7, <3>2, <3>4, <3>5, <3>8 DEF Replays, AfterStarted
  <2>8. CASE ending.at = "ended"
    <3>1. ending' = [ending EXCEPT !.at = "close"]
      BY <1>2, <2>8 DEF Returns
    <3>2. ending'.at = "close" /\ ending'.rows = ending.rows
      BY <3>1 DEF SessionInv, SessionTypeOK
    <3>3. Forward
      BY <2>2, <2>8, <3>2 DEF Forward, AfterStarted, AfterRows
    <3>4. /\ ending.at \in AfterStarted /\ ending.at \in AfterRows
          /\ ending'.at \notin Replays \cup AfterFlush \cup AfterReplay
      BY <2>8, <3>2 DEF Replays, AfterRows, AfterStarted, AfterReplay, AfterFlush, AfterClose
    <3>5. QED
      BY <2>2, <2>5, <2>8, <3>2, <3>3, <3>4 DEF Replays
  <2>9. CASE ending.at = "stats"
    <3>1. ending' = [ending EXCEPT !.at = "stop"]
      BY <1>2, <2>9 DEF Returns
    <3>2. ending'.at = "stop" /\ ending'.rows = ending.rows
      BY <3>1 DEF SessionInv, SessionTypeOK
    <3>3. Forward
      BY <2>2, <2>9, <3>2 DEF Forward, AfterStarted, AfterRows
    <3>4. /\ ending.at \in AfterStarted /\ ending.at \in AfterRows
          /\ ending.at \in AfterFlush /\ ending.at \in AfterReplay /\ ending'.at \notin Replays
      BY <2>9, <3>2 DEF Replays, AfterRows, AfterStarted, AfterReplay, AfterFlush, AfterClose
    <3>5. QED
      BY <2>2, <2>5, <2>9, <3>2, <3>3, <3>4 DEF Replays
  <2>10. QED
    BY <1>2, <2>4, <2>6, <2>7, <2>8, <2>9 DEF SessionInv, StageInv
<1>3. QED
  BY <1>1, <1>2 DEF Tasks

LEMMA FailsKeepsItems ==
  ASSUME ChainInv, SessionInv, ItemsInv, NEW task \in Tasks, Fails(task)
  PROVE  ItemsInv'
<1>1. /\ Writing(task) /\ Ends(task) /\ Returns(task, FALSE)
      /\ chainLock' = RemoveFirst(chainLock, task) /\ write' = [write EXCEPT ![task] = NoWrite]
      /\ trouble' = trouble \cup {"failed"} /\ UNCHANGED <<queue, spill>>
  BY DEF Fails, Abandon, Ends, Releases, Writing
<1>2. ~Writing(task)' /\ \A t \in Tasks \ {task} : write'[t] = write[t]
  BY <1>1, LeavesLock DEF ChainInv
<1>3. (\A x : Placed(x)' => Placed(x)) /\ (ItemsOnce => ItemsOnce') /\ Forward
  BY <1>1, <1>2, ReturnMovesItems
<1>4. MarksNew({}) /\ \A x : Placed(x)' => Placed(x) \/ x \in {}
  BY <1>3 DEF MarksNew
<1>5. trouble \subseteq trouble'
  BY <1>1
<1>6. OnceInv'
  BY <1>3, <1>4, <1>5, MarkedStep DEF ItemsInv
<1>7. KeptInv'
  BY <1>1 DEF KeptInv
<1>8. QED
  BY <1>6, <1>7 DEF ItemsInv

LEMMA AnsweredKeepsItems ==
  ASSUME ChainInv, SessionInv, ItemsInv, NEW task \in Tasks, Answered(task)
  PROVE  ItemsInv'
<1>1. /\ Writing(task) /\ Ends(task) /\ Returns(task, TRUE)
      /\ strand' = Append(strand, Pending(task)) /\ acked' = acked \cup {Len(strand) + 1}
      /\ chainLock' = RemoveFirst(chainLock, task) /\ write' = [write EXCEPT ![task] = NoWrite]
      /\ UNCHANGED <<late, queue, spill, due, trouble>>
  BY DEF Answered, Ends, Releases, Writing
<1>2. ~Writing(task)' /\ \A t \in Tasks \ {task} : write'[t] = write[t]
  BY <1>1, LeavesLock DEF ChainInv
<1>3. Pending(task) \in Recording
  BY <1>1, PendingIsRecording DEF ChainInv
<1>4. /\ DOMAIN strand = 1 .. Len(strand) /\ Len(strand) \in Nat
      /\ DOMAIN strand' = 1 .. Len(strand) + 1
  BY <1>1, <1>3, StrandGrows
<1>5. DOMAIN strand' = DOMAIN strand \cup {Len(strand) + 1} /\ strand' # strand
  BY <1>4
<1>6. /\ SameItems
      /\ ItemsOnce => ItemsOnce'
      /\ Forward /\ observer'.seen = observer.seen
      /\ observer'.started \/ ending'.at \in AfterStarted =>
            observer.started \/ ending.at \in AfterStarted \/ Placed(SessionStarted)
      /\ ending'.at \in AfterRows => ending.at \in AfterRows
      /\ \A i \in DOMAIN ending.rows :
            Placed(ending.rows[i]) \/ \E j \in DOMAIN ending'.rows : ending'.rows[j] = ending.rows[i]
      /\ ending'.at \in AfterFlush => ending.at \in AfterFlush
      /\ ending'.at \in AfterReplay => ending.at \in AfterReplay
  BY <1>1, <1>2, <1>5, ReturnMovesItems
<1>7. OnceInv'
  <2>1. MarksNew({}) /\ \A x : Placed(x)' => Placed(x) \/ x \in {}
    BY <1>6 DEF MarksNew, SameItems
  <2>2. trouble \subseteq trouble' /\ Forward /\ (ItemsOnce /\ Marked => ItemsOnce')
    BY <1>1, <1>6
  <2>3. QED
    BY <2>1, <2>2, MarkedStep DEF ItemsInv
<1>8. ~Writing("writer") => ~Writing("writer")'
  BY <1>2 DEF Writing, Tasks
<1>9. trouble' = {} => LosesNothing({})
  BY <1>1, <1>5, <1>6, <1>8 DEF LosesNothing, ItemsInv, KeptInv, SameItems
<1>10. QED
  BY <1>7, <1>9, KeptStep DEF ItemsInv

LEMMA StopKeepsItems ==
  ASSUME ChainInv, SessionInv, ItemsInv, StopWriter
  PROVE  ItemsInv'
<1>1. /\ ending.at = "stop" /\ ~Writing("session")
      /\ ending' = [ending EXCEPT !.at = "done"] /\ observer' = [observer EXCEPT !.writes = FALSE]
      /\ Ends("writer")
      /\ chainLock' = RemoveFirst(chainLock, "writer") /\ write' = [write EXCEPT !["writer"] = NoWrite]
      /\ UNCHANGED <<acked, queue, spill, due, trouble>>
  BY DEF StopWriter, Pauses, Goes, Abandon, Ends, Releases, Writing
<1>2. ~Writing("writer")' /\ \A t \in Tasks \ {"writer"} : write'[t] = write[t]
  BY <1>1, LeavesLock DEF ChainInv, Tasks
<1>3. /\ ending'.at = "done" /\ ending'.rows = ending.rows
      /\ observer'.started = observer.started /\ observer'.seen = observer.seen
  BY <1>1 DEF SessionInv, SessionTypeOK
<1>4. /\ ending.at \in AfterStarted \cap AfterRows \cap AfterFlush \cap AfterReplay
      /\ ending.at \notin Replays /\ ending'.at \notin Replays
  BY <1>1, <1>3 DEF Replays, AfterStarted, AfterRows, AfterReplay, AfterFlush, AfterClose
<1>5. Backlog' = Backlog
  BY <1>1, <1>4 DEF Backlog
<1>6. /\ \A x : Placed(x)' => Placed(x)
      /\ ~Writing("writer") => SameItems
      /\ ItemsOnce => ItemsOnce'
  BY <1>1, <1>2, <1>4, <1>5, WriteEnds DEF Tasks
<1>7. Forward
  BY <1>1, <1>3 DEF Forward, AfterStarted, AfterRows
<1>8. MarksNew({}) /\ \A x : Placed(x)' => Placed(x) \/ x \in {}
  BY <1>6 DEF MarksNew
<1>9. OnceInv'
  BY <1>1, <1>6, <1>7, <1>8, MarkedStep DEF ItemsInv
<1>10. ASSUME trouble' = {}
       PROVE  LosesNothing({})
  <2>1. /\ trouble = {} /\ queue = <<>> /\ ~Writing("writer") /\ spill = <<>>
        /\ late = {} /\ acked = DOMAIN strand
    BY <1>1, <1>4, <1>10 DEF ItemsInv, KeptInv
  <2>2. UNCHANGED <<strand, late>>
    BY <1>1, <2>1 DEF Ends
  <2>3. QED
    BY <1>1, <1>2, <1>3, <1>4, <1>6, <2>1, <2>2 DEF LosesNothing, SameItems
<1>11. QED
  BY <1>9, <1>10, KeptStep DEF ItemsInv

LEMMA CancelKeepsItems ==
  ASSUME ItemsInv, CancelSession
  PROVE  ItemsInv'
<1>1. trouble' = trouble \cup {"cancelled"}
  BY DEF CancelSession
<1>2. QED
  BY <1>1 DEF ItemsInv, OnceInv, KeptInv

\* A live event that is new to the observer.
LEMMA LiveItemKeepsItems ==
  ASSUME ChainInv, SessionInv, ItemsInv, NEW item \in Items, Enqueue(item), UNCHANGED <<unwritten, ending>>,
         "cancelled" \notin trouble => ~Placed(item),
         observer.seen \subseteq observer'.seen, observer'.seen \subseteq observer.seen \cup {item},
         item \in 1 .. Turns => item \in observer'.seen,
         observer.started => observer'.started,
         observer'.started => observer.started \/ item = SessionStarted,
         item = SessionStarted => observer'.started,
         item \notin {SessionEnded, SessionStats},
         due' \subseteq due \cup {item}
  PROVE  ItemsInv'
<1> USE DEF ItemsInv
<1>1. UNCHANGED <<strand, late, acked, write>>
  BY DEF unwritten
<1>2. \A t \in Tasks : Writing(t)' <=> Writing(t)
  BY <1>1 DEF Writing
<1>3. "writer" \in Tasks /\ "session" \in Tasks
  BY DEF Tasks
<1>4. /\ \A x : Placed(x)' => Placed(x) \/ x = item
      /\ trouble' = {} => \A x : Placed(x) \/ x = item => Placed(x)'
      /\ trouble' = {} => trouble = {}
      /\ ItemsOnce /\ ~Placed(item) => ItemsOnce'
  BY ItemEnqueued
<1>5. Forward
  BY <1>2, <1>3 DEF Forward
<1>6. MarksNew({item})
  BY DEF MarksNew
<1>7. trouble \subseteq trouble'
  BY DEF Enqueue
<1>8. \A x : Placed(x)' => Placed(x) \/ x \in {item}
  BY <1>4
<1>9. OnceInv'
  <2>1. CASE "cancelled" \in trouble
    BY <1>7, <2>1 DEF OnceInv
  <2>2. CASE "cancelled" \notin trouble
    BY <1>4, <1>5, <1>6, <1>7, <1>8, <2>2, MarkedStep
  <2>3. QED
    BY <2>1, <2>2
<1>10. ending.at \notin AfterClose
  BY DEF Enqueue, SessionInv, StageInv
<1>11. ending.at \notin AfterFlush /\ ending.at \notin AfterReplay
  BY <1>10 DEF AfterFlush, AfterReplay
<1>12. ASSUME trouble' = {}
       PROVE  LosesNothing({item})
  BY <1>1, <1>4, <1>11, <1>12 DEF LosesNothing, KeptInv
<1>13. QED
  BY <1>9, <1>12, KeptStep

LEMMA QueueStartedKeepsItems ==
  ASSUME ChainInv, SessionInv, ItemsInv, queue_session_started
  PROVE  ItemsInv'
<1>1. /\ ending.at = "call" /\ ~observer.started /\ Enqueue(SessionStarted)
      /\ observer' = [observer EXCEPT !.started = TRUE, !.counted = @ \/ Len(queue) = QueueSize]
      /\ UNCHANGED <<unwritten, ending, due>>
  BY DEF queue_session_started, unwritten
<1>2. observer'.started = TRUE /\ observer'.seen = observer.seen
  BY <1>1 DEF SessionInv, SessionTypeOK
<1>3. "cancelled" \notin trouble => ~Placed(SessionStarted)
  BY <1>1 DEF ItemsInv, OnceInv, Marked, AfterStarted
<1>4. SessionStarted \in Items
  BY ObserverAssumption DEF SessionStarted, Items
<1>5. QED
  BY <1>1, <1>2, <1>3, <1>4, SpecialItems, LiveItemKeepsItems

LEMMA HearKeepsItems ==
  ASSUME ChainInv, SessionInv, ItemsInv, Hear
  PROVE  ItemsInv'
<1>1. said < Turns /\ UNCHANGED <<unwritten, ending>>
  BY DEF Hear
<1>2. /\ said \in 0 .. Turns /\ Turns \in Nat
      /\ said + 1 \in 1 .. Turns /\ said + 1 \in Items /\ said + 1 \notin 1 .. said
      /\ said + 1 # SessionStarted /\ said + 1 \notin {SessionEnded, SessionStats}
  BY <1>1, ObserverAssumption DEF SessionInv, SessionTypeOK, Items, SessionStarted, SessionEnded, SessionStats
<1>3. CASE observer.attached
  <2>1. /\ Enqueue(said + 1) /\ due' = due \cup {said + 1}
        /\ observer' = [observer EXCEPT !.seen = @ \cup {said + 1}, !.counted = @ \/ Len(queue) = QueueSize]
    BY <1>3 DEF Hear
  <2>2. observer'.started = observer.started /\ observer'.seen = observer.seen \cup {said + 1}
    BY <2>1 DEF SessionInv, SessionTypeOK
  <2>3. said + 1 \notin observer.seen
    BY <1>2 DEF SessionInv, StageInv
  <2>4. "cancelled" \notin trouble => ~Placed(said + 1)
    BY <1>2, <2>3 DEF ItemsInv, OnceInv, Marked
  <2> DEFINE item == said + 1
  <2> HIDE DEF item
  <2>5. /\ item \in Items /\ item \in 1 .. Turns /\ item # SessionStarted
        /\ item \notin {SessionEnded, SessionStats}
        /\ Enqueue(item) /\ due' = due \cup {item}
        /\ observer'.seen = observer.seen \cup {item}
        /\ "cancelled" \notin trouble => ~Placed(item)
    BY <1>2, <2>1, <2>2, <2>4 DEF item
  <2>6. QED
    BY <1>1, <2>2, <2>5, LiveItemKeepsItems
<1>4. CASE ~observer.attached
  <2>1. UNCHANGED <<queue, spill, observer, due, trouble>>
    BY <1>4 DEF Hear
  <2>2. SameItems /\ (ItemsOnce => ItemsOnce')
    BY <1>1, <2>1, NothingMoves DEF Backlog
  <2>3. QED
    BY <1>1, <2>1, <2>2, IdleKeepsItems DEF ItemsInv, KeptInv, Writing, unwritten
<1>5. QED
  BY <1>3, <1>4

LEMMA IngestKeepsItems ==
  ASSUME ChainInv, SessionInv, ItemsInv, ingest_session_report
  PROVE  ItemsInv'
<1>1. /\ ending.at = "call"
      /\ ending' = [at |-> "flush", lines |-> <<>>, rows |-> ReportOf(said)]
      /\ due' = due \cup Range(ReportOf(said))
      /\ UNCHANGED <<unwritten, queue, spill, observer, trouble>>
  BY DEF ingest_session_report
<1>2. ending'.at = "flush" /\ ending'.rows = ReportOf(said)
  BY <1>1
<1>3. \A x \in Range(ReportOf(said)) : \E i \in DOMAIN ending'.rows : ending'.rows[i] = x
  BY <1>2 DEF Range
<1>4. ~Writing("session") /\ ending.rows = <<>>
  BY <1>1 DEF SessionInv, StageInv, Replays
<1>5. Backlog' = Backlog
  BY <1>1, <1>2 DEF Backlog, Replays
<1>6. SameItems /\ (ItemsOnce => ItemsOnce')
  BY <1>1, <1>4, <1>5, NothingMoves
<1>7. Forward
  BY <1>1, <1>4 DEF Forward, AfterStarted, AfterRows
<1>8. MarksNew({}) /\ \A x : Placed(x)' => Placed(x) \/ x \in {}
  BY <1>6 DEF MarksNew, SameItems
<1>9. OnceInv'
  BY <1>1, <1>6, <1>7, <1>8, MarkedStep DEF ItemsInv
<1>10. ending'.at \notin AfterStarted \cup AfterRows \cup AfterFlush \cup AfterReplay
  BY <1>2 DEF AfterStarted, AfterRows, AfterReplay, AfterFlush, AfterClose
<1>11. UNCHANGED <<strand, late, acked>>
  BY <1>1 DEF unwritten
<1>12. DOMAIN ending.rows = {}
  BY <1>4
<1>13. ASSUME trouble' = {}
       PROVE  LosesNothing({})
  BY <1>1, <1>3, <1>6, <1>10, <1>11, <1>12, <1>13 DEF LosesNothing, SameItems, ItemsInv, KeptInv
<1>14. QED
  BY <1>9, <1>13, KeptStep DEF ItemsInv

LEMMA StepKeepsItems ==
  ASSUME ChainInv, SessionInv, ItemsInv, ObserverNext
  PROVE  ItemsInv'
<1>1. ASSUME NEW task \in Tasks, StartWrite(task) \/ Answered(task) \/ Fails(task)
      PROVE  ItemsInv'
  BY <1>1, StartKeepsItems, AnsweredKeepsItems, FailsKeepsItems
<1>2. CASE flush("flush", "replay", "started") \/ flush("lastFlush", "lastReplay", "stats")
  BY <1>2, FlushKeepsItems
<1>3. CASE _drain_spill("replay", "started") \/ _drain_spill("lastReplay", "stats")
  BY <1>3, DrainKeepsItems
<1>4. CASE WriterTakes \/ log_session_started \/ LogRow \/ log_session_ended
  BY <1>4, WriterTakesKeepsItems, SessionStartedKeepsItems, LogRowKeepsItems, SessionEndedKeepsItems
<1>5. CASE aclose \/ _log_livekit_session_stats \/ StopWriter \/ CancelSession
  BY <1>5, CloseKeepsItems, StatsKeepsItems, StopKeepsItems, CancelKeepsItems
<1>6. CASE queue_session_started \/ attach \/ Hear \/ ingest_session_report
  BY <1>6, QueueStartedKeepsItems, AttachKeepsItems, HearKeepsItems, IngestKeepsItems
<1>7. CASE ServerAppendsLate
  BY <1>7, LateKeepsItems
<1>8. QED
  BY <1>1, <1>2, <1>3, <1>4, <1>5, <1>6, <1>7 DEF ObserverNext, ObserverSettles

-----------------------------------------------------------------------------
(* The theorems *)

LEMMA InitKeepsAll == ASSUME ObserverInit PROVE ObserverInv
<1> USE DEF ObserverInit
<1>1. /\ \A task \in Tasks : write[task] = NoWrite
      /\ DOMAIN strand = {} /\ DOMAIN chainLock = {} /\ DOMAIN queue = {} /\ DOMAIN spill = {}
      /\ DOMAIN ending.rows = {} /\ ending.at = "call"
      /\ observer.seen = {} /\ observer.closed = FALSE /\ observer.started = FALSE
  OBVIOUS
<1>2. NoWrite \in [step : {"none", "waits", "sent"}, item : Items \cup {None}, root : BOOLEAN, parent : Parent]
  BY DEF NoWrite, Parent
<1>3. \A task \in Tasks : ~Writing(task) /\ write[task].step # "sent"
  BY <1>1 DEF Writing, NoWrite
<1>4. WriteTypeOK
  <2>1. chainLock \in Locks
    BY <1>1 DEF Locks
  <2>2. strand \in Seq(Recording) /\ late \subseteq Recording /\ acked \subseteq DOMAIN strand /\ head \in Parent
    BY DEF Parent
  <2>3. QED
    BY <1>2, <2>1, <2>2 DEF WriteTypeOK
<1>5. LockInv /\ HeadInv /\ AckedStrandIsSingle
  BY <1>1, <1>3 DEF LockInv, HeadInv, AckedStrandIsSingle
<1>6. SessionTypeOK
  <2>1. queue \in Seq(Items) /\ spill \in Seq(Items) /\ said \in 0 .. Turns /\ due \subseteq 1 .. Turns
    BY ObserverAssumption
  <2>2. ending \in [at : Stages, lines : Seq(Items), rows : Seq(1 .. Turns)]
    BY DEF Stages
  <2>3. observer \in [attached : BOOLEAN, seen : SUBSET (1 .. Turns), started : BOOLEAN,
                      closed : BOOLEAN, counted : BOOLEAN, writes : BOOLEAN]
    OBVIOUS
  <2>4. QED
    BY <2>1, <2>2, <2>3 DEF SessionTypeOK
<1>7. StageInv
  BY <1>1, <1>3 DEF StageInv, AfterClose, AfterRows, AfterStarted, Tasks
<1>8. \A x : Fresh(x)
  BY <1>1 DEF Fresh
<1>9. Backlog = <<>> /\ DOMAIN Backlog = {}
  BY <1>1 DEF Backlog, Replays
<1>10. \A x : ~Placed(x)
  BY <1>1, <1>3, <1>8, <1>9 DEF Placed
<1>11. ItemsOnce
  BY <1>1, <1>3, <1>9 DEF ItemsOnce, GoneOnce, WaitingOnce, Tasks
<1>12. ItemsInv
  <2>1. OnceInv
    BY <1>10, <1>11 DEF OnceInv, Marked
  <2>2. KeptInv
    <3>1. ending.at \notin AfterStarted /\ ending.at \notin AfterRows
          /\ ending.at \notin AfterFlush /\ ending.at \notin AfterReplay
      BY <1>1 DEF AfterStarted, AfterRows, AfterReplay, AfterFlush, AfterClose
    <3>2. QED
      BY <1>1, <3>1 DEF KeptInv
  <2>3. QED
    BY <2>1, <2>2 DEF ItemsInv
<1>13. QED
  BY <1>4, <1>5, <1>6, <1>7, <1>12 DEF ObserverInv, ChainInv

LEMMA StutterKeepsAll == ASSUME ObserverInv, UNCHANGED observerVars PROVE ObserverInv'
<1>1. UNCHANGED <<strand, late, acked, head, chainLock, write, queue, spill, observer, ending, said, due, trouble>>
  BY DEF observerVars
<1>2. ChainInv' /\ SessionTypeOK' /\ StageInv'
  BY <1>1 DEF ObserverInv, ChainInv, WriteTypeOK, LockInv, HeadInv, AckedStrandIsSingle, SessionTypeOK,
     StageInv, Writing
<1>3. ItemsInv'
  <2>1. UNCHANGED unwritten /\ Backlog' = Backlog
    BY <1>1 DEF unwritten, Backlog
  <2>2. SameItems /\ (ItemsOnce => ItemsOnce')
    BY <1>1, <2>1, NothingMoves
  <2>3. QED
    BY <1>1, <2>2, IdleKeepsItems DEF ObserverInv, ItemsInv, KeptInv, SessionInv, Writing
<1>4. QED
  BY <1>2, <1>3 DEF ObserverInv

\* The observer's two tasks never disagree about who holds the chain lock, a request on
\* its way continues the newest answered event, each item waits in one place, and
\* nothing that reached the observer gets lost as long as nothing goes wrong.
THEOREM ObserverInvariant == ObserverSpec => []ObserverInv
<1>1. ObserverInit => ObserverInv
  BY InitKeepsAll
<1>2. ObserverInv /\ [ObserverNext]_observerVars => ObserverInv'
  <2>1. ASSUME ObserverInv, ObserverNext
        PROVE  ObserverInv'
    BY <2>1, StepKeepsChain, StepKeepsSession, StepKeepsItems DEF ObserverInv, SessionInv
  <2>2. QED
    BY <2>1, StutterKeepsAll
<1>3. QED
  BY <1>1, <1>2, PTL DEF ObserverSpec

\* Whatever the two tasks write at the same time, fails or is abandoned, the events whose
\* answer _log received form a single strand, which is what why() follows.
THEOREM SingleStrand == ObserverSpec => []AckedStrandIsSingle
<1>1. ObserverInv => AckedStrandIsSingle
  BY DEF ObserverInv, ChainInv
<1>2. QED
  BY <1>1, ObserverInvariant, PTL

\* Live stream, report and spill file together bring each event of the call into the log
\* at most once unless the session was cancelled, and once if nothing went wrong.
THEOREM RecordedOnce == ObserverSpec => []TurnsRecordedOnce
<1>1. ASSUME ObserverInv
      PROVE  TurnsRecordedOnce
  <2>1. "cancelled" \notin trouble =>
           \A i, j \in DOMAIN strand : strand[i].item = strand[j].item => i = j
    BY <1>1 DEF ObserverInv, ItemsInv, OnceInv, ItemsOnce, GoneOnce
  <2>2. ASSUME ending.at = "done", trouble = {}
        PROVE  due \cup {SessionStarted, SessionEnded} \subseteq {strand[e].item : e \in acked}
    <3>1. /\ ending.at \in AfterStarted /\ ending.at \in AfterRows
          /\ ending.at \in AfterFlush /\ ending.at \in AfterReplay /\ ending.at \notin Replays
      BY <2>2 DEF AfterStarted, AfterRows, AfterReplay, AfterFlush, AfterClose, Replays
    <3>2. ending.rows = <<>> /\ ~Writing("session")
      BY <1>1, <2>2, <3>1 DEF ObserverInv, StageInv
    <3>3. /\ late = {} /\ acked = DOMAIN strand /\ queue = <<>> /\ spill = <<>> /\ ~Writing("writer")
          /\ Placed(SessionStarted) /\ Placed(SessionEnded)
          /\ \A x \in due : Placed(x) \/ \E i \in DOMAIN ending.rows : ending.rows[i] = x
      BY <1>1, <2>2, <3>1 DEF ObserverInv, ItemsInv, KeptInv
    <3>4. DOMAIN ending.rows = {} /\ DOMAIN queue = {} /\ Backlog = <<>> /\ DOMAIN Backlog = {}
      BY <3>1, <3>2, <3>3 DEF Backlog
    <3>5. \A x : Placed(x) => \E e \in acked : strand[e].item = x
      BY <3>2, <3>3, <3>4 DEF Placed, Fresh, Tasks
    <3>6. \A x \in due \cup {SessionStarted, SessionEnded} : Placed(x)
      BY <3>3, <3>4
    <3>7. QED
      BY <3>5, <3>6
  <2>3. QED
    BY <2>1, <2>2 DEF TurnsRecordedOnce
<1>2. QED
  BY <1>1, ObserverInvariant, PTL
=============================================================================
