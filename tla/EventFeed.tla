------------------------------ MODULE EventFeed -------------------------------
(***************************************************************************)
(* The Events segment of the activity page: the hook useAgentEvents (pages *)
(* of 50 events, type filter, semantic search, polling), the hook          *)
(* useWhyChain, and the list and detail panel EventsSegment draws from     *)
(* them.  Answers arrive in any order; a request is recognised as stale by *)
(* the agent it was issued for, never by its page or filter.               *)
(***************************************************************************)
EXTENDS Browser

CONSTANTS
    Types,      \* event types
    TypeOf,     \* the type of an agent's n-th event
    PageSize,   \* PAGE_SIZE, scaled down
    MaxEvents   \* bound: events of an agent

ASSUME FeedAssumption ==
    /\ None \notin Agents \cup Types
    /\ PageSize \in Nat \ {0}
    /\ MaxEvents \in Nat
    /\ TypeOf \in [1 .. MaxEvents -> Types]

VARIABLES
    served,     \* [Agents -> Nat]: events the API holds for each agent
    feed,       \* the state of useAgentEvents
    panel       \* the state of EventsSegment and useWhyChain

feedVars == <<served, feed, panel>>

-----------------------------------------------------------------------------
(* What the API answers. *)

\* The n-th event of an agent.
Row(a, n) == [agent |-> a, no |-> n]

\* The events of one type (None: of every type), newest first.
Newest(a, type) ==
    LET of == {n \in 1 .. served[a] : type = None \/ TypeOf[n] = type}
        order == Ranked(of, [n \in of |-> {m \in of : m > n}])
    IN  [i \in 1 .. Cardinality(of) |-> Row(a, order[i])]

\* GET /v1/events with limit and offset.
getEvents(a, type, page) ==
    LET rows == Newest(a, type)
        last == IF page * PageSize < Len(rows) THEN page * PageSize ELSE Len(rows)
    IN  SubSeq(rows, (page - 1) * PageSize + 1, last)

-----------------------------------------------------------------------------
(* The state of the hook and of the segment when they mount. *)

NewFeed ==
    [agent |-> None, events |-> <<>>, page |-> 1, hasMore |-> FALSE,
     loading |-> FALSE, error |-> FALSE, filter |-> None,
     searching |-> FALSE, results |-> None, searchError |-> FALSE,
     requestFor |-> None, flights |-> {}, search |-> None]

NewPanel ==
    [selected |-> None, tab |-> "data", chain |-> None, loading |-> FALSE,
     error |-> FALSE, cache |-> {}, flights |-> {}]

FeedInit ==
    /\ served = [a \in Agents |-> 1]
    /\ feed = NewFeed
    /\ panel = NewPanel

-----------------------------------------------------------------------------
(* Requests. *)

Flight(a, page, append, type, first) ==
    [agent |-> a, page |-> page, append |-> append, type |-> type,
     first |-> first, rows |-> getEvents(a, type, page)]

\* fetchEvents of the closure for f.agent: nothing without agent or token.
\* "first" marks the request whose finally() ends the skeleton.
fetchEvents(f, page, append, type, first) ==
    IF f.agent = None \/ ~token
    THEN f
    ELSE [f EXCEPT !.requestFor = f.agent,
                   !.flights = @ \cup {Flight(f.agent, page, append, type, first)}]

HasRoom == Cardinality(feed.flights) < MaxFlights

\* An effect that is cleaned up ignores the end of its request, not its rows.
Cancelled(fs) == {[f EXCEPT !.first = FALSE] : f \in fs}

-----------------------------------------------------------------------------
(* The effects of useAgentEvents. *)

\* The effect on [agentId]: the hook is handed another agent, or none.
FeedAgentChanges(a) ==
    /\ Acts
    /\ HasRoom
    /\ a # feed.agent
    /\ feed' = LET f == [feed EXCEPT !.agent = a, !.flights = Cancelled(@)]
               IN  IF a = None
                   THEN [f EXCEPT !.events = <<>>, !.loading = FALSE]
                   ELSE fetchEvents([f EXCEPT !.loading = token, !.page = 1,
                                              !.filter = None, !.results = None,
                                              !.searchError = FALSE],
                                    1, FALSE, None, TRUE)
    /\ UNCHANGED <<served, panel>>

\* The polling effect: armed unless loading or showing search results; a tick
\* of a hidden tab is skipped, and turning visible polls at once.
Polling == feed.agent # None /\ ~feed.loading /\ feed.results = None

\* Mutant: a poll asks for every type, whatever filter is on.
PollsUnfiltered ==
    /\ Polling
    /\ visible
    /\ token
    /\ HasRoom
    /\ feed' = fetchEvents(feed, 1, FALSE, None, FALSE)
    /\ Quiet /\ UNCHANGED <<served, panel>>

\* A tick of the interval, or the tab turns visible.
FeedPoll ==
    /\ Polling
    /\ visible
    /\ token
    /\ HasRoom
    /\ feed' = fetchEvents(feed, 1, FALSE, feed.filter, FALSE)
    /\ Quiet /\ UNCHANGED <<served, panel>>

\* Mutant: rows are taken whoever was asked for last.
AnswerUnchecked(f) ==
    /\ feed' = [feed EXCEPT !.flights = @ \ {f}, !.loading = @ /\ ~f.first,
                            !.events = IF f.append THEN @ \o f.rows ELSE f.rows,
                            !.hasMore = Len(f.rows) = PageSize, !.error = FALSE]
    /\ Quiet /\ UNCHANGED <<served, panel>>

\* An answer of getEvents.  The API handled the request when it was sent or
\* just now; rows for another agent than the one last asked for are dropped.
FeedAnswer(f) ==
    /\ \E rows \in {f.rows, getEvents(f.agent, f.type, f.page)} :
         feed' = LET g == [feed EXCEPT !.flights = @ \ {f},
                                       !.loading = @ /\ ~f.first]
                 IN  IF feed.requestFor # f.agent
                     THEN g
                     ELSE [g EXCEPT !.events = IF f.append THEN @ \o rows ELSE rows,
                                    !.hasMore = Len(rows) = PageSize,
                                    !.error = FALSE]
    /\ Quiet /\ UNCHANGED <<served, panel>>

\* getEvents fails: an error of the API, a lost connection, the timeout.
FeedFails(f) ==
    /\ Acts
    /\ feed' = [feed EXCEPT !.flights = @ \ {f},
                            !.loading = @ /\ ~f.first,
                            !.error = @ \/ feed.requestFor = f.agent]
    /\ UNCHANGED <<served, panel>>

\* An agent records an event (it does not wait for the dashboard).
EventRecorded(a) ==
    /\ served[a] < MaxEvents
    /\ Acts
    /\ served' = [served EXCEPT ![a] = @ + 1]
    /\ UNCHANGED <<feed, panel>>

-----------------------------------------------------------------------------
(* What EventsSegment shows, and so what the user can reach. *)

FeedScreen ==
    CASE feed.agent = None -> "none"
      [] feed.agent # None /\ feed.loading -> "skeleton"
      [] feed.agent # None /\ ~feed.loading /\ feed.error -> "error"
      [] OTHER -> "list"

\* The rows on screen: search results replace the list until cleared.
displayEvents ==
    IF feed.results # None THEN feed.results ELSE feed.events

\* FilterPill: one for each type and one for all, hidden by search results; the
\* pill of the filter that is on takes it off.
FilterPills ==
    IF FeedScreen = "list" /\ feed.results = None
    THEN {None} \cup Drop(Types, feed.filter)
    ELSE {}

\* EventList: the rows a click can select.
EventRows ==
    IF FeedScreen = "list" THEN {displayEvents[i] : i \in 1 .. Len(displayEvents)} ELSE {}

\* The button under the list.
LoadMoreButton ==
    /\ FeedScreen = "list" /\ feed.results = None
    /\ feed.events # <<>> /\ feed.hasMore

\* The form: its button is disabled, and with it the Enter key, while a search
\* runs or the query is blank.
SearchForm == FeedScreen = "list" /\ ~feed.searching

\* EventDetailPanel shows the selected event and two tabs: "data", or "why", where
\* WhyPanel draws the chain that was traced.
EventDetailPanel == FeedScreen = "list" /\ panel.selected # None
WhyPanel == EventDetailPanel /\ panel.tab = "why"

ResetPanel(p) == [p EXCEPT !.selected = None, !.chain = None, !.error = FALSE]

\* changeFilter and applyFilter: a pill, or "Show all events".
changeFilter(type) ==
    /\ Acts
    /\ type \in FilterPills
    /\ HasRoom
    /\ feed' = fetchEvents([feed EXCEPT !.filter = type, !.page = 1,
                                        !.searchError = FALSE],
                           1, FALSE, type, FALSE)
    /\ panel' = ResetPanel(panel)
    /\ UNCHANGED served

\* loadMore: the next page is counted before it is asked for.
loadMore ==
    /\ Acts
    /\ LoadMoreButton
    /\ HasRoom
    /\ feed' = fetchEvents([feed EXCEPT !.page = @ + 1],
                           feed.page + 1, TRUE, feed.filter, FALSE)
    /\ UNCHANGED <<served, panel>>

\* refresh: "Try again" on the error screen.
refresh ==
    /\ Acts
    /\ FeedScreen = "error"
    /\ HasRoom
    /\ feed' = fetchEvents([feed EXCEPT !.page = 1], 1, FALSE, feed.filter, FALSE)
    /\ UNCHANGED <<served, panel>>

-----------------------------------------------------------------------------
(* Search. *)

\* onSubmitSearch and runSearch, for the agent on screen.
runSearch ==
    /\ Acts
    /\ SearchForm
    /\ panel' = ResetPanel(panel)
    /\ feed' = IF token
               THEN [feed EXCEPT !.searching = TRUE, !.searchError = FALSE,
                                 !.search = feed.agent]
               ELSE feed
    /\ UNCHANGED served

\* The answer of searchEvents: rows of the agent the search was run for, which
\* need not be the agent on screen any more.
SearchAnswer ==
    /\ feed.searching
    /\ \E n \in 0 .. 1 :
         feed' = [feed EXCEPT !.results = SubSeq(Newest(feed.search, None), 1, n),
                              !.searching = FALSE, !.search = None]
    /\ Quiet /\ UNCHANGED <<served, panel>>

SearchFails ==
    /\ Acts
    /\ feed.searching
    /\ feed' = [feed EXCEPT !.results = None, !.searchError = TRUE,
                            !.searching = FALSE, !.search = None]
    /\ UNCHANGED <<served, panel>>

clearSearch ==
    /\ Acts
    /\ FeedScreen = "list"
    /\ feed.results # None
    /\ feed' = [feed EXCEPT !.results = None, !.searchError = FALSE]
    /\ UNCHANGED <<served, panel>>

-----------------------------------------------------------------------------
(* The detail panel and its causal chain. *)

\* selectEvent: a click on a row; on the selected row it closes the panel.
selectEvent(r) ==
    /\ Acts
    /\ r \in EventRows
    /\ panel' = [ResetPanel(panel) EXCEPT
                   !.selected = IF panel.selected = r THEN None ELSE r,
                   !.tab = "data"]
    /\ UNCHANGED <<served, feed>>

\* changePanelTab("why") and useWhyChain.load: a chain that was loaded before
\* comes from the cache.
traceWhy ==
    /\ Acts
    /\ EventDetailPanel
    /\ Cardinality(panel.flights) < MaxFlights
    /\ panel' = LET p == [panel EXCEPT !.tab = "why", !.error = FALSE]
                IN  CASE p.selected \in p.cache -> [p EXCEPT !.chain = p.selected]
                      [] p.selected \notin p.cache /\ ~token -> p
                      [] OTHER -> [p EXCEPT !.loading = TRUE,
                                            !.flights = @ \cup {p.selected}]
    /\ UNCHANGED <<served, feed>>

\* changePanelTab("data").
showData ==
    /\ Acts
    /\ WhyPanel
    /\ panel' = [panel EXCEPT !.tab = "data"]
    /\ UNCHANGED <<served, feed>>

\* Another segment of the activity page is shown, and this one again: the hook
\* of the list is the page's and stays, the panel mounts anew.
SwitchSegment ==
    /\ Acts
    /\ panel # NewPanel
    /\ panel' = NewPanel
    /\ UNCHANGED <<served, feed>>

WhyAnswer(r) ==
    /\ panel' = [panel EXCEPT !.flights = @ \ {r}, !.cache = @ \cup {r},
                              !.chain = r, !.loading = FALSE]
    /\ Quiet /\ UNCHANGED <<served, feed>>

WhyFails(r) ==
    /\ Acts
    /\ panel' = [panel EXCEPT !.flights = @ \ {r}, !.chain = None,
                              !.error = TRUE, !.loading = FALSE]
    /\ UNCHANGED <<served, feed>>

-----------------------------------------------------------------------------
FeedUser ==
    \/ \E a \in Agents \cup {None} : FeedAgentChanges(a)
    \/ \E type \in Types \cup {None} : changeFilter(type)
    \/ loadMore
    \/ refresh
    \/ runSearch
    \/ clearSearch
    \/ \E a \in Agents, n \in 1 .. MaxEvents : selectEvent(Row(a, n))
    \/ traceWhy
    \/ showData
    \/ SwitchSegment

ClickedAnswers ==
    \/ SearchAnswer
    \/ \E r \in panel.flights : WhyAnswer(r)

FeedAnswers ==
    \/ \E f \in feed.flights : FeedAnswer(f)
    \/ ClickedAnswers

FeedSystem ==
    \/ FeedPoll
    \/ FeedAnswers
    \/ \E f \in feed.flights : FeedFails(f)
    \/ SearchFails
    \/ \E r \in panel.flights : WhyFails(r)
    \/ \E a \in Agents : EventRecorded(a)

FeedNext == FeedUser \/ FeedSystem

-----------------------------------------------------------------------------
(* Properties. *)

\* A row that comes into the list is of the agent on screen, whatever answers
\* are late: while there is a session, a switch of agents asks anew at once and
\* answers for the agent before are dropped (useAgentEvents.ts:71-93).
FeedKeepsToAgent ==
    [][token /\ feed'.agent # None =>
         \A i \in 1 .. Len(feed'.events) :
            i > Len(feed.events) \/ feed.events[i] # feed'.events[i] =>
               feed'.events[i].agent = feed'.agent]_feed

\* Answers are not matched with the filter they were asked for, so the list may
\* show the wrong one; but once the user rests, polling makes it the first page
\* of the filter (useAgentEvents.ts:122-150).
FeedConverges ==
    <>[](token /\ visible /\ feed.agent # None /\ feed.results = None /\ ~feed.searching)
       => <>[](/\ feed.agent # None
               /\ ~feed.loading
               /\ feed.events = getEvents(feed.agent, feed.filter, 1))
=============================================================================
