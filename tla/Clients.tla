------------------------------- MODULE Clients --------------------------------
(***************************************************************************)
(* The clients of the server: the screens of the dashboard, the TypeScript *)
(* SDK, and the observer of a voice call; and the rate limiter their calls *)
(* meet first.  A behaviour plays one scene, on one page or with one of    *)
(* the others; the parts of the other scenes stand still.  The session     *)
(* token and the visibility of the tab are shared, and change under a      *)
(* screen as they do for one (Browser).                                    *)
(***************************************************************************)
EXTENDS EventFeed, ActivityViews, RangeReport, AgentStore, SignIn, SettingsPage,
        Prompts, CommunityBoard, DashboardLib, TsSdk, LiveKitObserver, RateLimiter

VARIABLE scene

activityVars == <<sessions, timeline, travel, stats>>

clientVars == <<browserVars, scene, feedVars, activityVars, report, storeVars,
                signinVars, settingsVars, promptVars, boardVars, sample, sdkVars, observerVars, limiterVars>>

\* Every part but the one named stands still.
Others(part) ==
    /\ UNCHANGED scene
    /\ IF part = "feed" THEN TRUE ELSE UNCHANGED feedVars
    /\ IF part = "sessions" THEN TRUE ELSE UNCHANGED sessions
    /\ IF part = "timeline" THEN TRUE ELSE UNCHANGED timeline
    /\ IF part = "travel" THEN TRUE ELSE UNCHANGED travel
    /\ IF part = "stats" THEN TRUE ELSE UNCHANGED stats
    /\ IF part = "report" THEN TRUE ELSE UNCHANGED report
    /\ IF part = "store" THEN TRUE ELSE UNCHANGED storeVars
    /\ IF part = "signin" THEN TRUE ELSE UNCHANGED signinVars
    /\ IF part = "settings" THEN TRUE ELSE UNCHANGED settingsVars
    /\ IF part = "prompts" THEN TRUE ELSE UNCHANGED promptVars
    /\ IF part = "board" THEN TRUE ELSE UNCHANGED boardVars
    /\ IF part = "lib" THEN TRUE ELSE UNCHANGED sample
    /\ IF part = "sdk" THEN TRUE ELSE UNCHANGED sdkVars
    /\ IF part = "observer" THEN TRUE ELSE UNCHANGED observerVars
    /\ IF part = "limits" THEN TRUE ELSE UNCHANGED limiterVars

\* One of these, or one of the rate limiters.
Scenes == {"feed", "sessions", "timeline", "travel", "stats", "report", "store", "signin",
           "settings", "keys", "prompts", "health", "board", "lib", "logs", "process", "voice"}

\* The screens that the user can leave for another tab, and those that can
\* lose their session without a step of their own.
InTab == {"feed", "stats", "store", "health"}
InSession == {"feed", "sessions", "timeline", "travel", "stats", "report", "settings", "keys"}

\* Bound: the largest scenes have one act less.
Larger == {"store", "keys"}

ClientsInit ==
    /\ scene \in Scenes \cup Limiters
    /\ BrowserInit(IF scene \in Larger THEN 1 ELSE 0)
    /\ FeedInit /\ SessionsInit /\ TimelineInit /\ TravelInit /\ StatsInit
    /\ ReportInit /\ StoreInit /\ SigninInit /\ SettingsInit /\ PromptsInit /\ BoardInit
    /\ LibInit /\ SdkInit /\ ObserverInit /\ LimiterInit

ClientsNext ==
    \/ scene = "feed" /\ FeedNext /\ Others("feed")
    \/ scene = "sessions" /\ SessionsNext /\ Others("sessions")
    \/ scene = "timeline" /\ TimelineNext /\ Others("timeline")
    \/ scene = "travel" /\ TravelNext /\ Others("travel")
    \/ scene = "stats" /\ StatsNext /\ Others("stats")
    \/ scene = "report" /\ ReportNext /\ Others("report")
    \/ scene = "store" /\ StoreNext /\ Others("store")
    \/ scene = "signin" /\ SigninNext /\ Others("signin")
    \/ scene = "settings" /\ SettingsNext /\ Others("settings")
    \/ scene = "keys" /\ PanelNext /\ Others("settings")
    \/ scene = "prompts" /\ PromptsNext /\ Others("prompts")
    \/ scene = "health" /\ HealthNext /\ Others("prompts")
    \/ scene = "board" /\ BoardNext /\ Others("board")
    \/ scene = "lib" /\ Examine /\ Others("lib")
    \/ scene = "logs" /\ LogNext /\ Quiet /\ Others("sdk")
    \/ scene = "process" /\ ClientNext /\ Quiet /\ Others("sdk")
    \/ scene = "voice" /\ ObserverNext /\ Quiet /\ Others("observer")
    \/ scene \in Limiters /\ LimiterNext({<<scene>>}) /\ Quiet /\ Others("limits")
    \/ scene \in InTab /\ SwitchTab /\ Others("none")
    \/ scene \in InSession /\ SignOutElsewhere /\ Others("none")

-----------------------------------------------------------------------------
(* Fairness: requests are answered, intervals tick, effects run.           *)

\* Answers that come as long as something polls, and those of the screens
\* where nothing does.
ScreensAnswer ==
    \/ scene = "feed" /\ FeedAnswers /\ Others("feed")
    \/ scene = "sessions" /\ SessionsAnswers /\ Others("sessions")
    \/ scene = "timeline" /\ TimelineAnswers /\ Others("timeline")
    \/ scene = "travel" /\ TravelAnswers /\ Others("travel")
    \/ scene = "stats" /\ StatsAnswers /\ Others("stats")
    \/ scene = "report" /\ ReportAnswers /\ Others("report")
    \/ scene = "store" /\ StoreAnswers /\ Others("store")
    \/ scene = "signin" /\ SigninAnswers /\ Others("signin")
    \/ scene = "settings" /\ SettingsAnswers /\ Others("settings")
    \/ scene = "keys" /\ PanelAnswers /\ Others("settings")
    \/ scene = "prompts" /\ PromptsAnswers /\ Others("prompts")
    \/ scene = "health" /\ HealthAnswers /\ Others("prompts")
    \/ scene = "board" /\ BoardAnswers /\ Others("board")
    \/ scene = "logs" /\ SdkSettles /\ Quiet /\ Others("sdk")
    \/ scene = "voice" /\ ObserverSettles /\ Quiet /\ Others("observer")

\* Answers to what the user did on a screen that polls.
ClicksAnswered ==
    \/ scene = "feed" /\ ClickedAnswers /\ Others("feed")
    \/ scene = "stats" /\ FirstStats /\ Others("stats")
    \/ scene = "store" /\ FleetAnswers /\ Others("store")

Ticks ==
    \/ scene = "feed" /\ FeedPoll /\ Others("feed")
    \/ scene = "store" /\ AgentsPoll /\ Others("store")
    \/ scene = "health" /\ CheckHealth /\ Others("prompts")

EffectsRun == scene = "store" /\ RedirectOss /\ Others("store")

ClientsSpec ==
    /\ ClientsInit
    /\ [][ClientsNext]_clientVars
    /\ WF_clientVars(ScreensAnswer)
    /\ WF_clientVars(ClicksAnswered)
    /\ WF_clientVars(Ticks)
    /\ WF_clientVars(EffectsRun)

-----------------------------------------------------------------------------
(* Properties. *)

\* What tells the user to wait.
Busy ==
    \/ feed.loading \/ feed.searching \/ panel.loading
    \/ sessions.detailLoading \/ (sessions.loading /\ token)
    \/ timeline.detailLoading \/ travel.loading \/ stats.loading
    \/ (report.agent # None /\ token /\ (report.loading \/ report.refreshing))
    \/ fleet.busy \/ shell.editionAsked
    \/ settings.running # {} \/ settings.busy \/ (settings.at = "settings" /\ settings.loading)
    \/ keysPanel.running # {}
    \/ (\E k \in Kinds : prompt[k].busy)
    \/ forum.loading \/ draft.uploading \/ draft.submitting \/ thread.submitting

\* No spinner turns for ever: whatever the user does meanwhile, and whatever
\* fails, every handler that says it is busy comes to its finally (hooks/,
\* components/ and app/ of the dashboard).
NothingSpins == []<>~Busy

\* Overlapping checks may be answered in the wrong order, but the light turns
\* green for good while the API is healthy and the tab is looked at
\* (hooks/useConnectionHealth.ts).
HealthConverges ==
    <>[](scene = "health" /\ visible /\ up) => <>[](health.state = "ok")
=============================================================================
