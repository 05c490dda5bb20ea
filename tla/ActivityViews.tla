---------------------------- MODULE ActivityViews -----------------------------
(***************************************************************************)
(* The other views of the activity page: the agent's sessions              *)
(* (useAgentSessions, SessionsSegment), the cross-agent session timeline   *)
(* (SessionTimelineSegment), time travel (useTimeTravel,                   *)
(* TimeTravelSegment) and the statistics in the page's head                *)
(* (useAgentStats).  A request that an effect sent is live until the       *)
(* effect is cleaned up; a request that a click sent has no such guard.    *)
(***************************************************************************)
EXTENDS Browser

CONSTANT Instants   \* points in time the user can pick

VARIABLES
    sessions,   \* the state of useAgentSessions
    timeline,   \* the state of SessionTimelineSegment
    travel,     \* the state of useTimeTravel
    stats       \* the state of useAgentStats

\* What is abstracted to whom it belongs: the session list and the statistics
\* to their agent, the events and the memory diff to their session.
Session(a, n) == [agent |-> a, no |-> n]
SessionsOf(a) == {Session(a, n) : n \in 1 .. 2}

Request(a) == [agent |-> a, live |-> TRUE]
CleanUp(requests) == {[r EXCEPT !.live = FALSE] : r \in requests}

-----------------------------------------------------------------------------
(* useAgentSessions and SessionsSegment. *)

SessionsInit ==
    sessions = [agent |-> None, list |-> None, loading |-> FALSE,
                error |-> FALSE, flights |-> {}, selected |-> None,
                events |-> None, diff |-> None, detailLoading |-> FALSE,
                opens |-> {}]

\* The effect on [agentId].  Without a token it returns before its request,
\* with the skeleton already on.
SessionsAgentChanges(a) ==
    /\ Acts
    /\ a # sessions.agent
    /\ Cardinality(sessions.flights) < MaxFlights
    /\ sessions' =
         LET s == [sessions EXCEPT !.agent = a, !.flights = CleanUp(@)]
         IN  IF a = None
             THEN [s EXCEPT !.list = None, !.loading = FALSE]
             ELSE [s EXCEPT !.loading = TRUE, !.error = FALSE, !.selected = None,
                            !.events = None, !.diff = None,
                            !.flights = IF token THEN Put(@, Request(a)) ELSE @]

\* Mutant: an answer is taken although its effect has been cleaned up.
AnswerOfAnyEffect(r) ==
    /\ Quiet
    /\ sessions' = [sessions EXCEPT !.flights = Drop(@, r), !.list = r.agent,
                                    !.loading = FALSE]

\* getSessions answers: taken by the effect that asked, unless cleaned up.
SessionsAnswer(r) ==
    /\ Quiet
    /\ sessions' = [sessions EXCEPT !.flights = Drop(@, r),
                                    !.list = IF r.live THEN r.agent ELSE @,
                                    !.loading = @ /\ ~r.live]

SessionsFail(r) ==
    /\ Acts
    /\ sessions' = [sessions EXCEPT !.flights = Drop(@, r),
                                    !.error = @ \/ r.live,
                                    !.loading = @ /\ ~r.live]

\* The sessions on screen, each a button.
SessionsScreen ==
    IF sessions.loading \/ sessions.error \/ sessions.list = None
    THEN {}
    ELSE SessionsOf(sessions.list)

\* openSession: a click on a session asks for its events and its memory diff.
openSession(s) ==
    /\ Acts
    /\ s \in SessionsScreen
    /\ Cardinality(sessions.opens) < MaxFlights
    /\ sessions' = IF sessions.agent = None \/ ~token
                   THEN sessions
                   ELSE [sessions EXCEPT !.selected = s, !.detailLoading = TRUE,
                                         !.events = None, !.diff = None,
                                         !.opens = Put(@, s)]

\* Both answers are in (Promise.all); each failed one counts as empty.
SessionOpened(s) ==
    \E events, diff \in {s, None} :
       /\ IF None \in {events, diff} THEN Acts ELSE Quiet
       /\ sessions' = [sessions EXCEPT !.opens = Drop(@, s), !.events = events,
                                       !.diff = diff, !.detailLoading = FALSE]

SessionsUser ==
    \/ \E a \in Agents \cup {None} : SessionsAgentChanges(a)
    \/ \E s \in SessionsScreen : openSession(s)

SessionsAnswers ==
    \/ \E r \in sessions.flights : SessionsAnswer(r)
    \/ \E s \in sessions.opens : SessionOpened(s)

SessionsNext ==
    \/ SessionsUser
    \/ SessionsAnswers
    \/ \E r \in sessions.flights : SessionsFail(r)

-----------------------------------------------------------------------------
(* SessionTimelineSegment: sessions across agents.  Nothing here is guarded  *)
(* against answers out of order, and an error stays.                         *)

TimelineInit ==
    timeline = [mounted |-> FALSE, listed |-> FALSE, selected |-> None,
                events |-> None, chain |-> None, loading |-> TRUE,
                detailLoading |-> FALSE, error |-> FALSE,
                opens |-> {}, traces |-> {}, list |-> FALSE]

TimelineMounts ==
    /\ Quiet
    /\ ~timeline.mounted
    /\ timeline' = [timeline EXCEPT !.mounted = TRUE, !.list = token]

TimelineListed(ok) ==
    /\ timeline.list
    /\ IF ok THEN Quiet ELSE Acts
    /\ timeline' = [timeline EXCEPT !.list = FALSE, !.loading = FALSE,
                                    !.listed = ok, !.error = @ \/ ~ok]

TimelineScreen ==
    CASE timeline.loading -> "skeleton"
      [] ~timeline.loading /\ timeline.error -> "error"
      [] OTHER -> "sessions"

\* openSession: the events of the session before stay until the answer.
openTimeline(n) ==
    /\ Acts
    /\ TimelineScreen = "sessions" /\ timeline.listed
    /\ timeline' = IF ~token
                   THEN timeline
                   ELSE [timeline EXCEPT !.selected = n, !.chain = None,
                                         !.detailLoading = TRUE, !.opens = Put(@, n)]

TimelineOpened(n, ok) ==
    /\ IF ok THEN Quiet ELSE Acts
    /\ timeline' = [timeline EXCEPT !.opens = Drop(@, n),
                                    !.events = IF ok THEN n ELSE @,
                                    !.error = @ \/ ~ok,
                                    !.detailLoading = FALSE]

\* The events on screen, each a button that traces its causes.
TimelineEvents ==
    IF TimelineScreen = "sessions" /\ timeline.selected # None
    THEN timeline.events
    ELSE None

\* traceWhy: an event of the list on screen, within the selected session.
traceTimeline ==
    /\ Acts
    /\ TimelineEvents # None
    /\ timeline' = IF ~token
                   THEN timeline
                   ELSE [timeline EXCEPT !.detailLoading = TRUE,
                           !.traces = Put(@, <<timeline.selected, timeline.events>>)]

TimelineTraced(t, ok) ==
    /\ IF ok THEN Quiet ELSE Acts
    /\ timeline' = [timeline EXCEPT !.traces = Drop(@, t),
                                    !.chain = IF ok THEN t ELSE @,
                                    !.error = @ \/ ~ok,
                                    !.detailLoading = FALSE]

TimelineAnswers ==
    \E ok \in BOOLEAN :
       \/ TimelineListed(ok)
       \/ \E n \in timeline.opens : TimelineOpened(n, ok)
       \/ \E t \in timeline.traces : TimelineTraced(t, ok)

TimelineNext ==
    \/ TimelineMounts
    \/ \E n \in 1 .. 2 : openTimeline(n)
    \/ traceTimeline
    \/ TimelineAnswers

-----------------------------------------------------------------------------
(* useTimeTravel and TimeTravelSegment. *)

TravelInit ==
    travel = [agent |-> None, timestamp |-> None, loading |-> FALSE,
              result |-> None, error |-> FALSE, flights |-> {}]

\* The effect on [agentId] clears what was reconstructed for another agent.
TravelAgentChanges(a) ==
    /\ Acts
    /\ a # travel.agent
    /\ travel' = [travel EXCEPT !.agent = a, !.result = None, !.error = FALSE]

\* The date input (emptied: None), or a quick pick.
setTimestamp(t) ==
    /\ Acts
    /\ t # travel.timestamp
    /\ travel' = [travel EXCEPT !.timestamp = t]

\* TimeTravelSegment: the dates to pick from, and the button, disabled while
\* loading and without a date.
TimeTravelSegment == ~travel.loading /\ travel.timestamp # None

\* run.
runTravel ==
    /\ Acts
    /\ TimeTravelSegment
    /\ travel' = IF travel.agent = None \/ ~token
                 THEN travel
                 ELSE [travel EXCEPT !.loading = TRUE, !.error = FALSE,
                         !.flights = Put(@, [agent |-> travel.agent,
                                             at |-> travel.timestamp])]

TravelAnswer(r, ok) ==
    /\ IF ok THEN Quiet ELSE Acts
    /\ travel' = [travel EXCEPT !.flights = Drop(@, r),
                                !.result = IF ok THEN r ELSE None,
                                !.error = @ \/ ~ok, !.loading = FALSE]

TravelAnswers == \E r \in travel.flights, ok \in BOOLEAN : TravelAnswer(r, ok)

TravelNext ==
    \/ \E a \in Agents \cup {None} : TravelAgentChanges(a)
    \/ \E t \in Instants \cup {None} : setTimestamp(t)
    \/ runTravel
    \/ TravelAnswers

-----------------------------------------------------------------------------
(* useAgentStats: loaded at a switch, then polled while the tab is visible. *)

StatsInit ==
    stats = [agent |-> None, of |-> None, loading |-> FALSE,
             pollError |-> FALSE, flights |-> {}]

StatsRequest(a, first) == [agent |-> a, first |-> first, live |-> TRUE]

\* The effect on [agentId, load].  The statistics of the agent before stay on
\* the page until the answer.
StatsAgentChanges(a) ==
    /\ Acts
    /\ a # stats.agent
    /\ Cardinality(stats.flights) < MaxFlights
    /\ stats' =
         LET s == [stats EXCEPT !.agent = a, !.flights = CleanUp(@)]
         IN  CASE a = None -> [s EXCEPT !.of = None, !.loading = FALSE]
               [] a # None /\ ~token -> [s EXCEPT !.loading = FALSE]
               [] OTHER -> [s EXCEPT !.loading = TRUE,
                                     !.flights = Put(@, StatsRequest(a, TRUE))]

StatsPoll ==
    /\ Quiet
    /\ stats.agent # None /\ token /\ visible
    /\ Cardinality(stats.flights) < MaxFlights
    /\ stats' = [stats EXCEPT !.flights = Put(@, StatsRequest(stats.agent, FALSE))]

\* Mutant: a request that fails leaves the skeleton on.
EndsIfAnswered(r, ok) ==
    /\ IF ok THEN Quiet ELSE Acts
    /\ stats' = [stats EXCEPT !.flights = Drop(@, r), !.pollError = ~ok,
                              !.of = IF ok /\ r.live THEN r.agent ELSE @,
                              !.loading = @ /\ ~(ok /\ r.first /\ r.live)]

\* load ends: the error flag is set by every request, the numbers by live ones.
StatsAnswer(r, ok) ==
    /\ IF ok THEN Quiet ELSE Acts
    /\ stats' = [stats EXCEPT !.flights = Drop(@, r), !.pollError = ~ok,
                              !.of = IF ok /\ r.live THEN r.agent ELSE @,
                              !.loading = @ /\ ~(r.first /\ r.live)]

StatsAnswers == \E r \in stats.flights : StatsAnswer(r, TRUE)

FirstStats == \E r \in stats.flights : r.first /\ StatsAnswer(r, TRUE)

StatsNext ==
    \/ \E a \in Agents \cup {None} : StatsAgentChanges(a)
    \/ StatsPoll
    \/ StatsAnswers
    \/ \E r \in stats.flights : StatsAnswer(r, FALSE)

-----------------------------------------------------------------------------
(* Properties. *)

\* Sessions and statistics that come in are of the agent on screen, in whatever
\* order the answers arrive (useAgentSessions.ts, useAgentStats.ts: cancelled).
ViewsKeepToAgent ==
    [][/\ sessions'.list # sessions.list => sessions'.list \in {sessions'.agent, None}
       /\ stats'.of # stats.of => stats'.of \in {stats'.agent, None}]_<<sessions, stats>>
=============================================================================
