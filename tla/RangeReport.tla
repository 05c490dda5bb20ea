----------------------------- MODULE RangeReport ------------------------------
(***************************************************************************)
(* The pages that show one computed result for an agent and a date range:  *)
(* reports, token usage, suggestions, token optimization, and behavior     *)
(* (whose range is a window).  Each is a hook that asks again when agent,  *)
(* range or nonce change and ignores the answers of earlier effects, under *)
(* a page that pins the range and a toolbar that regenerates.              *)
(***************************************************************************)
EXTENDS Browser

CONSTANTS
    Periods,    \* the rolling periods, each resolved to a range of its own
    Customs     \* valid custom date ranges

Pages == {"report", "usage", "suggestions", "optimization", "behavior"}

ASSUME ReportAssumption == None \notin Agents \cup Periods \cup Customs \cup Pages

VARIABLE report     \* page and hook state of the page that is mounted

\* The inputs of the page, what it pinned, and the hook: data is None or names
\* the agent and range it was computed for; refreshed: the API's cache was
\* bypassed; ok: there is something to show (status "ok", any data).
ReportInit ==
    report = [page |-> None, agent |-> None, period |-> None, custom |-> None,
              range |-> None, regenerated |-> FALSE, data |-> None,
              loading |-> TRUE, refreshing |-> FALSE, error |-> FALSE,
              flights |-> {}]

-----------------------------------------------------------------------------
(* The hooks: what their effect does on a new agent, range or nonce.        *)

Ask(s) == Put({[f EXCEPT !.live = FALSE] : f \in s.flights},
              [agent |-> s.agent, range |-> s.range, live |-> TRUE,
               refresh |-> s.page = "suggestions" /\ s.regenerated])

Cancel(s) == [s EXCEPT !.flights = {[f EXCEPT !.live = FALSE] : f \in @}]

\* Once regenerate was pressed, every later change keeps the result on screen.
Load(s) ==
    IF s.regenerated /\ s.data # None
    THEN [s EXCEPT !.refreshing = TRUE, !.error = FALSE, !.flights = Ask(s)]
    ELSE [s EXCEPT !.loading = TRUE, !.error = FALSE, !.flights = Ask(s)]

Nothing(s) == [Cancel(s) EXCEPT !.data = None, !.loading = FALSE]

\* Without a token: an early return, with the skeleton as it was.
useAgentReport(s) ==
    CASE s.agent = None \/ s.range = None -> Nothing(s)
      [] s.agent # None /\ s.range # None /\ ~token -> Cancel(s)
      [] OTHER -> Load(s)

useAgentSuggestions(s) ==
    CASE s.agent = None \/ s.range = None -> Nothing(s)
      [] s.agent # None /\ s.range # None /\ ~token -> Cancel(s)
      [] OTHER -> Load(s)

\* The same, with the skeleton taken off.
useAgentTokenUsage(s) ==
    CASE s.agent = None \/ s.range = None -> Nothing(s)
      [] s.agent # None /\ s.range # None /\ ~token ->
           [Cancel(s) EXCEPT !.loading = FALSE]
      [] OTHER -> Load(s)

useAgentTokenOptimization(s) ==
    CASE s.agent = None \/ s.range = None -> Nothing(s)
      [] s.agent # None /\ s.range # None /\ ~token ->
           [Cancel(s) EXCEPT !.loading = FALSE]
      [] OTHER -> Load(s)

\* No range but a window, which has a default; always a skeleton.
useAgentBehavior(s) ==
    CASE s.agent = None -> Nothing(s)
      [] s.agent # None /\ ~token -> Cancel(s)
      [] OTHER -> [s EXCEPT !.loading = TRUE, !.error = FALSE, !.flights = Ask(s)]

Effect(s) ==
    CASE s.page = "report" -> useAgentReport(s)
      [] s.page = "usage" -> useAgentTokenUsage(s)
      [] s.page = "suggestions" -> useAgentSuggestions(s)
      [] s.page = "optimization" -> useAgentTokenOptimization(s)
      [] s.page = "behavior" -> useAgentBehavior(s)

\* The effect runs when what it depends on changed.
Rerun(s) ==
    IF <<s.agent, s.range>> = <<report.agent, report.range>> THEN s ELSE Effect(s)

-----------------------------------------------------------------------------
(* The pages: what is on screen, and which controls it enables.             *)

ReportsContent ==
    CASE report.loading -> "skeleton"
      [] ~report.loading /\ report.error -> "error"
      [] ~report.loading /\ ~report.error /\ report.range = None
           /\ report.period = "custom" -> "choose"
      [] OTHER -> IF report.data # None THEN "data" ELSE "empty"

SuggestionsContent ==
    CASE report.loading -> "skeleton"
      [] ~report.loading /\ report.error -> "error"
      [] ~report.loading /\ ~report.error /\ report.range = None
           /\ report.period = "custom" -> "choose"
      [] OTHER -> IF report.data # None THEN "data" ELSE "empty"

TokenUsageContent ==
    CASE report.loading -> "skeleton"
      [] ~report.loading /\ report.error -> "error"
      [] OTHER -> IF report.data # None /\ report.data.ok THEN "data" ELSE "empty"

TokenOptimizationContent ==
    CASE report.loading -> "skeleton"
      [] ~report.loading /\ report.error -> "error"
      [] OTHER -> IF report.data # None /\ report.data.ok THEN "data" ELSE "empty"

BehaviorContent ==
    CASE report.loading -> "skeleton"
      [] ~report.loading /\ report.error -> "error"
      [] OTHER -> IF report.data # None /\ report.agent # None THEN "data" ELSE "empty"

ReportScreen ==
    CASE report.page = "report" -> ReportsContent
      [] report.page = "suggestions" -> SuggestionsContent
      [] report.page = "usage" -> TokenUsageContent
      [] report.page = "optimization" -> TokenOptimizationContent
      [] report.page = "behavior" -> BehaviorContent
      [] OTHER -> "none"

\* The button Regenerate of the toolbars, and Recompute, which BehaviorPanel has
\* only with a full report: its other states offer no button.
ReportToolbar ==
    /\ report.page \in {"report", "optimization"}
    /\ report.data # None /\ ~report.loading /\ ~report.refreshing

SuggestionsToolbar ==
    /\ report.page = "suggestions"
    /\ report.data # None /\ report.data.ok /\ ~report.refreshing

BehaviorPanel ==
    CASE ReportScreen # "data" -> "none"
      [] ReportScreen = "data" /\ ~report.data.ok -> "warming_up"
      [] OTHER -> "drift"

DriftHeadline == report.page = "behavior" /\ BehaviorPanel = "drift"

-----------------------------------------------------------------------------
(* Steps. *)

\* The window the behavior page starts with; it is not in the URL.
DefaultWindow == CHOOSE p \in Periods : TRUE

\* The page mounts with the period of its URL; a deep link may carry a valid
\* custom range, which is resolved at once.
ReportOpens(page, period, custom) ==
    /\ report.page = None
    /\ page = "behavior" => period = DefaultWindow
    /\ Acts
    /\ report' =
         LET s == [report EXCEPT !.page = page, !.period = period, !.custom = custom,
                     !.range = IF period = "custom" THEN custom ELSE period]
         IN  Effect(s)

\* useSelectedAgent hands the page an agent.
ReportAgentChanges(a) ==
    /\ report.page # None
    /\ Acts
    /\ a # report.agent
    /\ Cardinality(report.flights) < MaxFlights
    /\ report' = Effect([report EXCEPT !.agent = a])

\* onPeriodChange (setWindow on the behavior page) and the effect on [period]:
\* "custom" resolves only if the dates are already valid.
onPeriodChange(p) ==
    /\ report.page # None /\ (p = "custom" => report.page # "behavior")
    /\ Acts
    /\ p # report.period
    /\ Cardinality(report.flights) < MaxFlights
    /\ report' = Rerun([report EXCEPT !.period = p,
                          !.range = CASE p # "custom" -> p
                                      [] p = "custom" /\ report.custom # None -> report.custom
                                      [] OTHER -> @])

\* The two date fields, taken together: valid, or not (None).
onCustomChange(c) ==
    /\ report.page # None /\ report.period = "custom"
    /\ Acts
    /\ c # report.custom
    /\ report' = [report EXCEPT !.custom = c]

\* Generate, or Analyze: disabled while the dates are invalid.
onGenerateCustom ==
    /\ report.period = "custom" /\ report.custom # None
    /\ Acts
    /\ Cardinality(report.flights) < MaxFlights
    /\ report' = Rerun([report EXCEPT !.range = report.custom])

\* refetch, or recompute: the nonce changes, so the effect runs again.
refetch ==
    /\ ReportToolbar \/ SuggestionsToolbar \/ DriftHeadline
    /\ Acts
    /\ Cardinality(report.flights) < MaxFlights
    /\ report' = Effect([report EXCEPT !.regenerated = TRUE])

\* Mutant: an answer is taken although a later effect has asked again.
AnswerOfAnyRange(f, ok) ==
    /\ Quiet
    /\ report' = [report EXCEPT !.flights = Drop(@, f), !.loading = FALSE,
                    !.refreshing = FALSE,
                    !.data = [agent |-> f.agent, range |-> f.range, ok |-> ok]]

\* The answer: taken by the effect that asked, unless cleaned up.
ReportAnswer(f, ok) ==
    /\ Quiet
    /\ report' = LET s == [report EXCEPT !.flights = Drop(@, f)]
                 IN  IF ~f.live
                     THEN s
                     ELSE [s EXCEPT !.data = [agent |-> f.agent, range |-> f.range, ok |-> ok],
                                    !.loading = FALSE, !.refreshing = FALSE]

\* The behavior hook drops its baseline on a failure, the others keep theirs.
ReportFails(f) ==
    /\ Acts
    /\ report' = LET s == [report EXCEPT !.flights = Drop(@, f)]
                 IN  IF ~f.live
                     THEN s
                     ELSE [s EXCEPT !.error = TRUE, !.loading = FALSE,
                                    !.refreshing = FALSE,
                                    !.data = IF report.page = "behavior" THEN None ELSE @]

ReportAnswers == \E f \in report.flights, ok \in BOOLEAN : ReportAnswer(f, ok)

ReportNext ==
    \/ \E page \in Pages, period \in Periods \cup {"custom"}, custom \in Customs \cup {None} :
          /\ period # "custom" => custom = None
          /\ ReportOpens(page, period, custom)
    \/ \E a \in Agents \cup {None} : ReportAgentChanges(a)
    \/ \E p \in Periods \cup {"custom"} : onPeriodChange(p)
    \/ \E c \in Customs \cup {None} : onCustomChange(c)
    \/ onGenerateCustom
    \/ refetch
    \/ ReportAnswers
    \/ \E f \in report.flights : ReportFails(f)

-----------------------------------------------------------------------------
(* Properties. *)

\* What a page shows as its result was computed for the agent and the range it
\* names, unless it is being renewed (the behavior page keeps the window with
\* its data): a result never outlives a change of agent, period or custom dates
\* (hooks/useAgentReport.ts, useAgentTokenUsage.ts, useAgentSuggestions.ts,
\* useAgentTokenOptimization.ts).
ShownReportMatches ==
    token /\ ReportScreen = "data" /\ ~report.refreshing /\ report.page # "behavior" =>
       report.data.agent = report.agent /\ report.data.range = report.range
=============================================================================
