--------------------------- MODULE LiveKitObserver ----------------------------
(***************************************************************************)
(* ZizkaDBLiveKitObserver, which logs a voice call from within the agent's *)
(* worker process.  Live events go into a bounded queue that a background  *)
(* task drains; what does not fit goes into a spill file.  When the call   *)
(* ends, on_session_end ingests the session report and closes the          *)
(* observer.  Both tasks, "writer" and "session", write, each holding the  *)
(* chain lock across its round trip.                                       *)
(***************************************************************************)
EXTENDS Basics, Naturals, Sequences, FiniteSets, SequencesExt

CONSTANTS
    Turns,      \* bound: events of the call, numbered as they happen
    LiveOnly,   \* those that never appear in the session report
    QueueSize   \* _QUEUE_MAXSIZE (1000 in the code)

ASSUME ObserverAssumption ==
    /\ Turns \in Nat
    /\ LiveOnly \subseteq 1 .. Turns
    /\ QueueSize \in Nat \ {0}
    /\ None \notin Nat

VARIABLES
    strand,     \* the events the server has recorded, in order
    late,       \* requests nobody waits for, which the server may still get
    acked,      \* the events whose answer a write has received
    head,       \* last_event_id
    chainLock,  \* holder and waiters of _chain_lock, in order (asyncio.Lock)
    write,      \* the call of _log each task is in
    queue,      \* the items of _queue; the one "writer" is in is not done yet
    spill,      \* the lines of the spill file
    observer,   \* the flags of the observer
    ending,     \* where on_session_end is, lines to replay, rows of the report
    said,       \* events of the call so far
    due,        \* those that reached the observer
    trouble     \* what went wrong

observerVars == <<strand, late, acked, head, chainLock, write, queue, spill, observer, ending,
                  said, due, trouble>>

\* Bound: one write fails, or is dropped, or on_session_end is cancelled.
Unscathed == trouble \cap {"failed", "dropped", "cancelled"} = {}

\* What _log reads and writes.
unwritten == <<strand, late, acked, head, chainLock, write>>

Tasks == {"writer", "session"}

\* What is written beside the numbered events of the call.
SessionStarted == 0
SessionEnded == Turns + 1
SessionStats == Turns + 2

NoWrite == [step |-> "none", item |-> None, root |-> FALSE, parent |-> None]

-----------------------------------------------------------------------------
(* _log: one event, with the chain lock held across the round trip. *)

\* Enters _log.  "root" is an explicit parent_id of None, in place of _CHAIN, which
\* becomes the head as of the moment the lock is there; a free lock is taken, and
\* the request sent, in the same turn.
Log(task, item, root) ==
    /\ chainLock' = Append(chainLock, task)
    /\ write' = [write EXCEPT ![task] =
                   [step |-> IF chainLock = <<>> THEN "sent" ELSE "waits", item |-> item,
                    root |-> root, parent |-> IF root \/ chainLock # <<>> THEN None ELSE head]]
    /\ UNCHANGED <<strand, late, acked, head>>

\* Mutant: the lock is not waited for.
StartUnlocked(task) ==
    /\ write[task].step = "waits"
    /\ write' = [write EXCEPT ![task].step = "sent",
                              ![task].parent = IF write[task].root THEN None ELSE head]
    /\ UNCHANGED <<strand, late, acked, head, chainLock, queue, spill, observer, ending,
                   said, due, trouble>>

\* The lock comes to one who waited: the request goes.
StartWrite(task) ==
    /\ write[task].step = "waits" /\ Head(chainLock) = task
    /\ write' = [write EXCEPT ![task].step = "sent",
                              ![task].parent = IF write[task].root THEN None ELSE head]
    /\ UNCHANGED <<strand, late, acked, head, chainLock, queue, spill, observer, ending,
                   said, due, trouble>>

Recorded(item, root, parent) == [item |-> item, root |-> root, parent |-> parent]

\* The server gets a request that nobody waits for any more.
ServerAppendsLate ==
    \E r \in late :
       /\ late' = late \ {r}
       /\ strand' = Append(strand, r)
       /\ UNCHANGED <<acked, head, chainLock, write, queue, spill, observer, ending,
                      said, due, trouble>>

\* Mutant: an exception leaves the lock taken.
ReleasesIfAnswered(task, answered) ==
    IF answered THEN RemoveFirst(chainLock, task) ELSE chainLock

\* async with: the lock is released, or no longer waited for, however _log ends.
Releases(task, answered) == RemoveFirst(chainLock, task)

Pending(task) == Recorded(write[task].item, write[task].root, write[task].parent)

\* A request that is given up is lost, or on its way, or has been recorded.
Abandon(task) ==
    \/ UNCHANGED <<strand, late>>
    \/ write[task].step = "sent" /\ late' = late \cup {Pending(task)} /\ UNCHANGED strand
    \/ write[task].step = "sent" /\ strand' = Append(strand, Pending(task)) /\ UNCHANGED late

\* What a finished write means to the task that made it.
Returns(task, answered) ==
    CASE task = "session" ->
           /\ ending' = CASE ending.at \in {"replay", "lastReplay"} -> [ending EXCEPT !.lines = Tail(@)]
                           [] ending.at = "started" -> [ending EXCEPT !.at = "rows"]
                           [] ending.at = "rows" -> [ending EXCEPT !.rows = Tail(@)]
                           [] ending.at = "ended" -> [ending EXCEPT !.at = "close"]
                           [] ending.at = "stats" -> [ending EXCEPT !.at = "stop"]
           /\ observer' =
                [observer EXCEPT
                   !.started = @ \/ (answered /\ ending.at = "started"),
                   !.counted = @ \/ (answered /\ ending.at \in {"replay", "lastReplay"})]
      [] task = "writer" ->
           /\ observer' = [observer EXCEPT !.counted = @ \/ answered]
           /\ UNCHANGED ending

\* The server has recorded the event, and its answer is read.
Answered(task) ==
    /\ write[task].step = "sent"
    /\ strand' = Append(strand, Pending(task))
    /\ head' = Len(strand) + 1
    /\ acked' = acked \cup {Len(strand) + 1}
    /\ chainLock' = Releases(task, TRUE)
    /\ write' = [write EXCEPT ![task] = NoWrite]
    /\ Returns(task, TRUE)
    /\ UNCHANGED <<late, queue, spill, said, due, trouble>>

\* Refused, timed out, or the answer is lost; the head stays, and nobody retries.
Fails(task) ==
    /\ write[task].step = "sent" /\ Unscathed
    /\ Abandon(task)
    /\ chainLock' = Releases(task, FALSE)
    /\ write' = [write EXCEPT ![task] = NoWrite]
    /\ Returns(task, FALSE)
    /\ trouble' = trouble \cup {"failed"}
    /\ UNCHANGED <<acked, head, queue, spill, said, due>>

-----------------------------------------------------------------------------
(* During the call. *)

\* enqueue: put_nowait, or the spill file, or neither.
Enqueue(item) ==
    /\ ~observer.closed
    /\ \/ /\ Len(queue) < QueueSize
          /\ queue' = Append(queue, item)
          /\ UNCHANGED <<spill, trouble>>
       \/ /\ Len(queue) = QueueSize
          /\ spill' = Append(spill, item)
          /\ trouble' = IF ending.at = "replay" THEN trouble \cup {"overlap"} ELSE trouble
          /\ UNCHANGED queue
       \/ /\ Len(queue) = QueueSize
          /\ Unscathed
          /\ trouble' = trouble \cup {"dropped"}
          /\ UNCHANGED <<queue, spill>>

\* At the top of the call.
queue_session_started ==
    /\ ending.at = "call" /\ said = 0 /\ ~observer.started
    /\ Enqueue(SessionStarted)
    /\ observer' = [observer EXCEPT !.started = TRUE, !.counted = @ \/ Len(queue) = QueueSize]
    /\ UNCHANGED <<strand, late, acked, head, chainLock, write, ending, said, due>>

\* Live handlers hear what happens from now on.
attach ==
    /\ ending.at = "call" /\ ~observer.attached
    /\ observer' = [observer EXCEPT !.attached = TRUE]
    /\ UNCHANGED <<unwritten, queue, spill, ending, said, due, trouble>>

\* The next event of the call happens; a handler that hears it marks it as seen
\* before it is queued.  What happens once the observer is closed goes nowhere,
\* and is left out.
Hear ==
    /\ said < Turns /\ ~observer.closed
    /\ said' = said + 1
    /\ IF observer.attached
       THEN /\ Enqueue(said + 1)
            /\ observer' = [observer EXCEPT !.seen = @ \cup {said + 1}, !.counted = @ \/ Len(queue) = QueueSize]
            /\ due' = due \cup {said + 1}
       ELSE UNCHANGED <<queue, spill, observer, due, trouble>>
    /\ UNCHANGED <<unwritten, ending>>

\* _writer: one item at a time, until it is cancelled.
WriterTakes ==
    /\ observer.writes /\ write["writer"].step = "none" /\ queue # <<>>
    /\ queue' = Tail(queue)
    /\ Log("writer", Head(queue), FALSE)
    /\ UNCHANGED <<spill, observer, ending, said, due, trouble>>

-----------------------------------------------------------------------------
(* on_session_end: ingest_session_report, and finally aclose. *)

Pauses(at) == ending.at = at /\ write["session"].step = "none"

Goes(at) == ending' = [ending EXCEPT !.at = at]

\* The chat items and events of a session report, in order of time.
Reported(n) == (1 .. n) \ LiveOnly

ReportOf(n) ==
    CHOOSE rows \in [1 .. Cardinality(Reported(n)) -> Reported(n)] :
       \A i, j \in DOMAIN rows : i < j => rows[i] < rows[j]

\* make_report: what has been said so far, in order of time.
ingest_session_report ==
    /\ ending.at = "call"
    /\ ending' = [at |-> "flush", lines |-> <<>>, rows |-> ReportOf(said)]
    /\ due' = due \cup Range(ReportOf(said))
    /\ UNCHANGED <<unwritten, queue, spill, observer, said, trouble>>

AllDone == queue = <<>> /\ write["writer"].step = "none"

\* flush: queue.join() returns or times out, and the spill file is read.
flush(at, replay, next) ==
    /\ Pauses(at)
    /\ IF spill = <<>> THEN Goes(next) ELSE ending' = [ending EXCEPT !.at = replay, !.lines = spill]
    /\ trouble' = IF AllDone THEN trouble ELSE trouble \cup {"timeout"}
    /\ UNCHANGED <<unwritten, queue, spill, observer, said, due>>

\* _drain_spill: the lines that were read, one by one, then the file goes.
_drain_spill(replay, next) ==
    /\ Pauses(replay)
    /\ IF ending.lines # <<>>
       THEN Log("session", Head(ending.lines), FALSE) /\ UNCHANGED <<spill, ending>>
       ELSE spill' = <<>> /\ Goes(next) /\ UNCHANGED unwritten
    /\ UNCHANGED <<queue, observer, said, due, trouble>>

log_session_started ==
    /\ Pauses("started")
    /\ IF observer.started
       THEN Goes("rows") /\ UNCHANGED unwritten
       ELSE Log("session", SessionStarted, TRUE) /\ UNCHANGED ending
    /\ UNCHANGED <<queue, spill, observer, said, due, trouble>>

\* Mutant: a row of the report is written, seen or not.
LogAnyRow ==
    /\ Pauses("rows") /\ ending.rows # <<>>
    /\ Log("session", Head(ending.rows), FALSE)
    /\ UNCHANGED <<queue, spill, observer, ending, said, due, trouble>>

\* _log_chat_item, _log_backend_event: what the live stream brought is skipped;
\* the rest is marked as seen, and written.
LogRow ==
    /\ Pauses("rows") /\ ending.rows # <<>>
    /\ IF Head(ending.rows) \in observer.seen
       THEN ending' = [ending EXCEPT !.rows = Tail(@)] /\ UNCHANGED <<unwritten, observer>>
       ELSE /\ Log("session", Head(ending.rows), FALSE)
            /\ observer' = [observer EXCEPT !.seen = @ \cup {Head(ending.rows)}]
            /\ UNCHANGED ending
    /\ UNCHANGED <<queue, spill, said, due, trouble>>

log_session_ended ==
    /\ Pauses("rows") /\ ending.rows = <<>>
    /\ Log("session", SessionEnded, FALSE)
    /\ Goes("ended")
    /\ UNCHANGED <<queue, spill, observer, said, due, trouble>>

\* aclose: the door is closed first, then everything is flushed once more.
aclose ==
    /\ Pauses("close")
    /\ observer' = [observer EXCEPT !.closed = TRUE]
    /\ Goes("lastFlush")
    /\ UNCHANGED <<unwritten, queue, spill, said, due, trouble>>

\* The counters are logged as an event, if one of them is not zero.
_log_livekit_session_stats ==
    /\ Pauses("stats")
    /\ IF observer.counted
       THEN Log("session", SessionStats, FALSE) /\ UNCHANGED ending
       ELSE Goes("stop") /\ UNCHANGED unwritten
    /\ UNCHANGED <<queue, spill, observer, said, due, trouble>>

\* The writer is cancelled wherever it is; what is still queued stays there.
StopWriter ==
    /\ Pauses("stop")
    /\ Goes("done")
    /\ observer' = [observer EXCEPT !.writes = FALSE]
    /\ Abandon("writer")
    /\ chainLock' = Releases("writer", FALSE)
    /\ write' = [write EXCEPT !["writer"] = NoWrite]
    /\ UNCHANGED <<acked, head, queue, spill, said, due, trouble>>

\* on_session_end is cancelled while it awaits: ingest goes on with aclose, and
\* aclose ends without stopping the writer.
CancelSession ==
    /\ Unscathed
    /\ ending.at \in {"flush", "lastFlush"} \/ write["session"].step # "none"
    /\ ending' = [at |-> IF observer.closed THEN "done" ELSE "close", lines |-> <<>>, rows |-> <<>>]
    /\ Abandon("session")
    /\ chainLock' = Releases("session", FALSE)
    /\ write' = [write EXCEPT !["session"] = NoWrite]
    /\ trouble' = trouble \cup {"cancelled"}
    /\ UNCHANGED <<acked, head, queue, spill, observer, said, due>>

-----------------------------------------------------------------------------
ObserverInit ==
    /\ strand = <<>> /\ late = {} /\ acked = {}
    /\ head = None
    /\ chainLock = <<>>
    /\ write = [task \in Tasks |-> NoWrite]
    /\ queue = <<>> /\ spill = <<>>
    /\ observer = [attached |-> FALSE, seen |-> {}, started |-> FALSE, closed |-> FALSE, counted |-> FALSE,
                   writes |-> TRUE]
    /\ ending = [at |-> "call", lines |-> <<>>, rows |-> <<>>]
    /\ said = 0 /\ due = {} /\ trouble = {}

\* What goes on by itself: the client of the SDK has a timeout, so every write
\* ends, and so does every wait for the queue.
ObserverSettles ==
    \/ WriterTakes
    \/ \E task \in Tasks : StartWrite(task) \/ Answered(task) \/ Fails(task)
    \/ flush("flush", "replay", "started")
    \/ _drain_spill("replay", "started")
    \/ log_session_started
    \/ LogRow
    \/ log_session_ended
    \/ aclose
    \/ flush("lastFlush", "lastReplay", "stats")
    \/ _drain_spill("lastReplay", "stats")
    \/ _log_livekit_session_stats
    \/ StopWriter

ObserverNext ==
    \/ ObserverSettles
    \/ ServerAppendsLate
    \/ queue_session_started
    \/ attach
    \/ Hear
    \/ ingest_session_report
    \/ CancelSession

ObserverSpec == ObserverInit /\ [][ObserverNext]_observerVars

-----------------------------------------------------------------------------
(* Properties. *)

\* Whatever the two tasks write at the same time, fails or is abandoned, the
\* events whose answer was received form a single strand, as why() needs: each
\* continues the one before it.  Only session_started may open a second one, when
\* the report writes it after live events (observer.py _log).
AckedStrandIsSingle ==
    \A e \in acked : ~strand[e].root =>
       LET before == {f \in acked : f < e}
       IN  IF before = {} THEN strand[e].parent = None
           ELSE strand[e].parent \in before /\ \A f \in before : f <= strand[e].parent

\* Live stream, report and spill file bring no event twice, unless a replay was
\* cancelled and starts anew; and if nothing went wrong, every event that
\* reached the observer is in the log when the session has ended (observer.py:
\* _enqueue_event, _log_chat_item, _drain_spill, aclose).
TurnsRecordedOnce ==
    /\ "cancelled" \notin trouble =>
          \A i, j \in DOMAIN strand : strand[i].item = strand[j].item => i = j
    /\ ending.at = "done" /\ trouble = {} =>
          due \cup {SessionStarted, SessionEnded} \subseteq {strand[e].item : e \in acked}

\* on_session_end returns, though ZizkaDB may answer nothing: flush is bounded
\* and the lock comes free (observer.py flush, aclose).
SessionEnds == []<>(ending.at \in {"call", "done"})
=============================================================================
