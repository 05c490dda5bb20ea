---------------------------- MODULE ScreensProofs -----------------------------
(***************************************************************************)
(* Theorems about the screens of the dashboard, as Clients composes them:  *)
(* for every number of acts, requests in flight, agents, accounts, posts   *)
(* and keys.  Each screen has an invariant of its own; a step of Clients   *)
(* is a step of one screen, or leaves the screen as it is.                 *)
(***************************************************************************)
EXTENDS Clients, FiniteSetTheorems, SequenceTheorems, TLAPS

\* A step of some scene is, for each part, a step of it or none.
ScreensStep ==
    /\ FeedNext \/ UNCHANGED feedVars
    /\ SessionsNext \/ UNCHANGED sessions
    /\ StatsNext \/ UNCHANGED stats
    /\ ReportNext \/ UNCHANGED report
    /\ StoreNext \/ UNCHANGED storeVars
    /\ SigninNext \/ UNCHANGED signinVars
    /\ SettingsNext \/ PanelNext \/ UNCHANGED settingsVars
    /\ BoardNext \/ UNCHANGED boardVars
    /\ Examine \/ UNCHANGED sample

LEMMA OneSceneAtATime == [ClientsNext]_clientVars => ScreensStep
<1>1. ASSUME ClientsNext PROVE ScreensStep
  BY <1>1 DEF ClientsNext, Others, ScreensStep, Scenes
<1>2. ASSUME UNCHANGED clientVars PROVE ScreensStep
  BY <1>2 DEF clientVars, activityVars, ScreensStep
<1> QED
  BY <1>1, <1>2

-----------------------------------------------------------------------------
(* Ranking a finite set. *)

LEMMA FirstNumbers ==
  ASSUME NEW n \in Nat
  PROVE  IsFiniteSet(1 .. n) /\ Cardinality(1 .. n) = n
<1>1. /\ IsFiniteSet(1 .. n)
      /\ Cardinality(1 .. n) = IF 1 > n THEN 0 ELSE n - 1 + 1
  BY FS_Interval
<1> QED
  BY <1>1

\* Those ahead of each are a strict order in which any two members differ.
StrictOrder(S, ahead) ==
    /\ ahead \in [S -> SUBSET S]
    /\ \A i \in S : i \notin ahead[i]
    /\ \A i, j \in S : j \in ahead[i] => ahead[j] \subseteq ahead[i]
    /\ \A i, j \in S : i = j \/ i \in ahead[j] \/ j \in ahead[i]

\* A list without repetition of the members, each ahead of all that follow.
InOrder(order, S, ahead) ==
    /\ order \in [1 .. Cardinality(S) -> S]
    /\ \A i \in S : \E p \in 1 .. Cardinality(S) : order[p] = i
    /\ \A p, q \in 1 .. Cardinality(S) : p < q => order[p] \in ahead[order[q]]

LEMMA RankedInOrder ==
  ASSUME NEW S, IsFiniteSet(S), NEW ahead, StrictOrder(S, ahead)
  PROVE  InOrder(Ranked(S, ahead), S, ahead)
<1> DEFINE n == Cardinality(S)
           rank == [i \in S |-> Cardinality(ahead[i])]
           order == Ranked(S, ahead)
<1>1. n \in Nat
  BY FS_CardinalityType
<1>2. \A i \in S : IsFiniteSet(ahead[i]) /\ rank[i] \in Nat /\ rank[i] < n
  <2> TAKE i \in S
  <2>1. ahead[i] \in SUBSET S /\ ahead[i] # S
    BY DEF StrictOrder
  <2>2. IsFiniteSet(ahead[i]) /\ Cardinality(ahead[i]) <= n /\ Cardinality(ahead[i]) # n
    BY <2>1, FS_Subset
  <2> QED
    BY <1>1, <2>2, FS_CardinalityType
<1>3. \A i, j \in S : j \in ahead[i] => rank[j] < rank[i]
  <2> SUFFICES ASSUME NEW i \in S, NEW j \in S, j \in ahead[i]
               PROVE  rank[j] < rank[i]
    OBVIOUS
  <2>1. ahead[j] \in SUBSET ahead[i] /\ ahead[j] # ahead[i]
    BY DEF StrictOrder
  <2>2. Cardinality(ahead[j]) <= Cardinality(ahead[i]) /\ Cardinality(ahead[j]) # Cardinality(ahead[i])
    BY <1>2, <2>1, FS_Subset
  <2> QED
    BY <1>2, <2>2
<1>4. rank \in Injection(S, 0 .. n - 1)
  <2>1. rank \in [S -> 0 .. n - 1]
    BY <1>1, <1>2
  <2>2. \A i, j \in S : rank[i] = rank[j] => i = j
    BY <1>2, <1>3 DEF StrictOrder
  <2> QED
    BY <2>1, <2>2 DEF Injection, IsInjective
<1>5. rank \in Surjection(S, 0 .. n - 1)
  <2>1. IsFiniteSet(0 .. n - 1) /\ Cardinality(0 .. n - 1) = n
    BY <1>1, FS_Interval
  <2> QED
    BY <1>4, <2>1, FS_Injection
<1>6. \A p \in 1 .. n : order[p] \in S /\ rank[order[p]] = p - 1
  <2> TAKE p \in 1 .. n
  <2>1. p - 1 \in 0 .. n - 1
    BY <1>1
  <2>2. \E i \in S : rank[i] = p - 1
    BY <1>5, <2>1 DEF Surjection
  <2>3. order[p] = CHOOSE i \in S : Cardinality(ahead[i]) = p - 1
    BY DEF Ranked
  <2> QED
    BY <2>2, <2>3
<1>7. order \in [1 .. n -> S]
  BY <1>6 DEF Ranked
<1> HIDE DEF order
<1>8. \A i \in S : \E p \in 1 .. n : order[p] = i
  <2> TAKE i \in S
  <2>1. rank[i] + 1 \in 1 .. n /\ rank[order[rank[i] + 1]] = rank[i]
    BY <1>1, <1>2, <1>6
  <2>2. order[rank[i] + 1] = i
    BY <1>4, <1>6, <2>1 DEF Injection, IsInjective
  <2> QED
    BY <2>1, <2>2
<1>9. \A p, q \in 1 .. n : p < q => order[p] \in ahead[order[q]]
  <2> SUFFICES ASSUME NEW p \in 1 .. n, NEW q \in 1 .. n, p < q
               PROVE  order[p] \in ahead[order[q]]
    OBVIOUS
  <2>1. rank[order[p]] < rank[order[q]] /\ order[p] \in S /\ order[q] \in S
    BY <1>1, <1>6
  <2>2. order[p] # order[q] /\ order[q] \notin ahead[order[p]]
    BY <1>2, <1>3, <2>1
  <2> QED
    BY <2>1, <2>2 DEF StrictOrder
<1> QED
  BY <1>7, <1>8, <1>9 DEF InOrder, order

\* In an order each member has one place.
LEMMA OnePlaceEach ==
  ASSUME NEW S, IsFiniteSet(S), NEW ahead, StrictOrder(S, ahead), NEW order, InOrder(order, S, ahead),
         NEW p \in 1 .. Cardinality(S), NEW q \in 1 .. Cardinality(S), order[p] = order[q]
  PROVE  p = q
<1>1. Cardinality(S) \in Nat
  BY FS_CardinalityType
<1>2. order[p] \notin ahead[order[q]] /\ order[q] \notin ahead[order[p]]
  BY DEF StrictOrder, InOrder
<1> QED
  BY <1>1, <1>2 DEF InOrder

\* Of some that are ordered, one is ahead of all others.
LEMMA OneIsFirst ==
  ASSUME NEW S, IsFiniteSet(S), S # {}, NEW ahead, StrictOrder(S, ahead)
  PROVE  \E i \in S : \A j \in S : i = j \/ i \in ahead[j]
<1> DEFINE order == Ranked(S, ahead)
<1>1. Cardinality(S) \in Nat \ {0}
  BY FS_CardinalityType, FS_EmptySet
<1>2. InOrder(order, S, ahead)
  BY RankedInOrder
<1> HIDE DEF order
<1>3. 1 \in 1 .. Cardinality(S) /\ order[1] \in S
  BY <1>1, <1>2 DEF InOrder
<1>4. \A j \in S : order[1] = j \/ order[1] \in ahead[j]
  <2> TAKE j \in S
  <2>1. PICK p \in 1 .. Cardinality(S) : order[p] = j
    BY <1>2 DEF InOrder
  <2>2. p = 1 \/ 1 < p
    BY <1>1
  <2> QED
    BY <1>2, <1>3, <2>1, <2>2 DEF InOrder
<1> QED
  BY <1>3, <1>4

-----------------------------------------------------------------------------
(* The acts are counted: a step is one more of them, or none. *)

Counted == acts' = acts \/ acts' = acts + 1

LEMMA FeedCounts == FeedNext => Counted
  BY Zenon DEF Counted,
         Acts, ClickedAnswers, EventRecorded, FeedAgentChanges, FeedAnswer,
         FeedAnswers, FeedFails, FeedNext, FeedPoll, FeedSystem, FeedUser, Quiet,
         SearchAnswer, SearchFails, Spend, SwitchSegment, WhyAnswer, WhyFails,
         changeFilter, clearSearch, loadMore, refresh, runSearch, selectEvent,
         showData, traceWhy, browserVars

LEMMA SessionsCounts == SessionsNext => Counted
  BY Zenon DEF Counted,
         Acts, Quiet, SessionOpened, SessionsAgentChanges, SessionsAnswer,
         SessionsAnswers, SessionsFail, SessionsNext, SessionsUser, Spend,
         openSession, browserVars

LEMMA TimelineCounts == TimelineNext => Counted
  BY Zenon DEF Counted,
         Acts, Quiet, Spend, TimelineAnswers, TimelineListed, TimelineMounts,
         TimelineNext, TimelineOpened, TimelineTraced, openTimeline, traceTimeline,
         browserVars

LEMMA TravelCounts == TravelNext => Counted
  BY Zenon DEF Counted,
         Acts, Quiet, Spend, TravelAgentChanges, TravelAnswer, TravelAnswers,
         TravelNext, runTravel, setTimestamp, browserVars

LEMMA StatsCounts == StatsNext => Counted
  BY Zenon DEF Counted,
         Acts, Quiet, Spend, StatsAgentChanges, StatsAnswer, StatsAnswers,
         StatsNext, StatsPoll, browserVars

LEMMA ReportCounts == ReportNext => Counted
  BY Zenon DEF Counted,
         Acts, Quiet, ReportAgentChanges, ReportAnswer, ReportAnswers, ReportFails,
         ReportNext, ReportOpens, Spend, onCustomChange, onGenerateCustom,
         onPeriodChange, refetch, browserVars

LEMMA StoreCounts == StoreNext => Counted
  BY Zenon DEF Counted,
         Acts, AgentAppears, AgentCreated, AgentDeleted, AgentsAnswer, AgentsFail,
         AgentsPoll, CreateFails, DashboardOpens, DeleteFails, DismissKey,
         EditionAnswer, FleetAnswers, GoToTab, PinAgent, Quiet, RedirectOss,
         SignInAs, Spend, StoreAnswers, StoreNext, ToggleForm, handleDelete,
         selectAgent, signOut, submitAgent, browserVars

LEMMA SigninCounts == SigninNext => Counted
  BY Zenon DEF Counted,
         Acts, BrowserOpens, CodeSent, CookieExpires, CooldownEnds, DevAnswer,
         ExistingSession, FunnelGuard, LoginVerified, OpenDashboard, PlanFails,
         PlanSelected, Quiet, SendFails, SessionExpired, SigninAnswers, SigninNext,
         SignupVerified, Spend, TypeCode, VerifyFails, Visit, choosePlan,
         giveConsent, handleDevLogin, handleRequestOtp, handleResendOtp,
         handleUseDifferentEmail, handleVerifyOtp, browserVars

LEMMA SettingsCounts == SettingsNext => Counted
  BY Zenon DEF Counted, AccountCallFails, AccountDeleted, AccountGone, Acts, FormAnswered,
         ListedRevokeFails, ListedRevoked, OptionsAnswered, Quiet, SettingsAnswers,
         SettingsFocus, SettingsListed, SettingsMounts, SettingsNext, SettingsQuota,
         Spend, TenantKeyCreated, TenantKeyFails, TrialGranted, closeDialog,
         createTenantKey, deleteAccount, keepAccount, openDialog, revokeListed,
         submitForm, typeDelete, browserVars

LEMMA PanelCounts == PanelNext => Counted
  BY Zenon DEF Counted,
         Acts, AgentTested, KeyCreateFails, KeyCreated, KeyRevokeFails, KeyRevoked,
         MintedElsewhere, PanelAgentChanges, PanelAnswers, PanelListed, PanelMounts,
         PanelNext, PanelQuota, Quiet, RevokedElsewhere, Spend, dismissKey,
         handleCreateKey, handleRevokeKey, testAgent, browserVars

LEMMA PromptsCounts == PromptsNext => Counted
  BY Zenon DEF Counted,
         Acts, CloseBooking, DismissalEnds, DocumentLoads, EventScheduled,
         OpenBooking, PromptAnswered, PromptCloses, PromptMounts, PromptOpens,
         PromptUnmounts, PromptsAnswers, PromptsNext, Quiet, ScriptEnds, Spend,
         decide, submitPrompt, browserVars

LEMMA HealthCounts == HealthNext => Counted
  BY Zenon DEF Counted,
         Acts, ApiChanges, CheckHealth, HealthAnswer, HealthAnswers, HealthNext,
         Quiet, Spend, browserVars

LEMMA BoardCounts == BoardNext => Counted
  BY Zenon DEF Counted,
         Acts, BatchUploaded, BoardAnswers, BoardNext, CommunityPage,
         CommunityPostPage, PostCreated, PostFails, PostLoaded, PostedElsewhere,
         PostsListed, Quiet, RepliedElsewhere, ReplyAnswered, ReplyCounted,
         ReplyFails, ReplyNeverCounted, ReplyStored, Spend, ToggleNewPost, onFile,
         removeImage, setFilter, submitPost, submitReply, writePost, writeReply,
         browserVars

LEMMA LibCounts == Examine => Counted
  BY DEF Counted,
         Examine, Quiet, browserVars

LEMMA StepCounts == [ClientsNext]_clientVars => Counted
<1>1. ASSUME ClientsNext PROVE Counted
  BY <1>1, FeedCounts, SessionsCounts, TimelineCounts, TravelCounts, StatsCounts,
     ReportCounts, StoreCounts, SigninCounts, SettingsCounts, PanelCounts,
     PromptsCounts, HealthCounts, BoardCounts, LibCounts
     DEF ClientsNext, SwitchTab, SignOutElsewhere, Spend, Quiet, browserVars, Counted
<1>2. ASSUME UNCHANGED clientVars PROVE Counted
  BY <1>2 DEF clientVars, browserVars, Counted
<1> QED
  BY <1>1, <1>2

ActsInv == acts \in Nat

THEOREM ActsAreCounted == ClientsSpec => []ActsInv
<1>1. ClientsInit => ActsInv
  BY DEF ClientsInit, BrowserInit, ActsInv
<1>2. ActsInv /\ [ClientsNext]_clientVars => ActsInv'
  BY StepCounts DEF Counted, ActsInv
<1> QED
  BY <1>1, <1>2, PTL DEF ClientsSpec

-----------------------------------------------------------------------------
(* Signing in. *)

Plans == MANAGED_PLANS \cup {None}

AuthCalls ==
    [kind : {"send"}] \cup [kind : {"verify"}, otp : Nat \cup {None}]
      \cup [kind : {"plan"}, plan : Plans]

Mailboxes == [registered : BOOLEAN, mailed : Nat, code : Nat \cup {None}, plan : Plans,
              chosen : Plans]
Funnels == [plan : Plans, gdpr : BOOLEAN, marketing : BOOLEAN]
SigninPages == [page : {"closed", "login", "plan", "start", "signup", "dashboard"},
                navigating : BOOLEAN, dev : BOOLEAN, stuck : BOOLEAN]
Forms == [step : {"email", "otp"}, otp : Nat \cup {None}, loading : BOOLEAN,
          error : {"none", "failed", "refused", "noAccount", "alreadyRegistered"},
          lock : BOOLEAN, paused : BOOLEAN, cooldown : BOOLEAN, calls : SUBSET AuthCalls]

SigninTypeOK ==
    mailbox \in Mailboxes /\ funnel \in Funnels /\ signin \in SigninPages /\ form \in Forms

\* One call is the most there is, and the form waits for it.
OneCall ==
    form.calls # {} => form.loading /\ \E c \in AuthCalls : form.calls = {c}

\* What a signup that is opening the dashboard still waits for is its plan.
PlanUnderWay ==
    signin.page = "signup" /\ signin.navigating /\ ~signin.stuck =>
       /\ form.calls = {} => mailbox.plan = mailbox.chosen
       /\ \A c \in form.calls : c.kind = "plan" /\ c.plan = mailbox.chosen

SigninInv == SigninTypeOK /\ OneCall /\ PlanUnderWay

LEMMA AuthCallKinds ==
  /\ [kind |-> "send"] \in AuthCalls
  /\ \A code \in Nat \cup {None} : [kind |-> "verify", otp |-> code] \in AuthCalls
  /\ \A plan \in Plans : [kind |-> "plan", plan |-> plan] \in AuthCalls
  /\ \A c \in AuthCalls : c.kind = "plan" => c.plan \in Plans
BY DEF AuthCalls

LEMMA SigninStarts == SigninInit => SigninInv
  BY DEF SigninInit, SigninInv, SigninTypeOK, OneCall, PlanUnderWay, NewSignin, NewForm,
         Plans, Mailboxes, Funnels, SigninPages, Forms

LEMMA SigninStep == SigninInv /\ SigninNext => SigninInv'
<1> SUFFICES ASSUME SigninInv, SigninNext PROVE SigninInv'
  OBVIOUS
<1> USE DEF SigninInv, SigninTypeOK
<1>1. CASE \E page \in {"login", "plan"}, registered \in BOOLEAN :
              BrowserOpens(page, FALSE, registered)
  <2>1. mailbox' \in Mailboxes
    BY <1>1 DEF Mailboxes, Plans, BrowserOpens, SetSession, NewSignin
  <2>2. signin' \in SigninPages
    BY <1>1 DEF SigninPages, BrowserOpens, SetSession, NewSignin
  <2>3. SigninTypeOK'
    BY <1>1, <2>1, <2>2 DEF BrowserOpens, SetSession, NewSignin
  <2>4. OneCall'
    BY <1>1 DEF OneCall, SigninPages, Forms, BrowserOpens, SetSession, NewSignin
  <2>5. PlanUnderWay'
    BY <1>1
       DEF OneCall, PlanUnderWay, SigninPages, Forms, Mailboxes, BrowserOpens, SetSession,
           NewSignin
  <2> QED
    BY <2>3, <2>4, <2>5
<1>2. CASE BrowserOpens("dashboard", TRUE, TRUE)
  <2>1. mailbox' \in Mailboxes
    BY <1>2 DEF Mailboxes, Plans, BrowserOpens, SetSession, NewSignin
  <2>2. signin' \in SigninPages
    BY <1>2 DEF SigninPages, BrowserOpens, SetSession, NewSignin
  <2>3. SigninTypeOK'
    BY <1>2, <2>1, <2>2 DEF BrowserOpens, SetSession, NewSignin
  <2>4. OneCall'
    BY <1>2 DEF OneCall, SigninPages, Forms, BrowserOpens, SetSession, NewSignin
  <2>5. PlanUnderWay'
    BY <1>2
       DEF OneCall, PlanUnderWay, SigninPages, Forms, Mailboxes, BrowserOpens, SetSession,
           NewSignin
  <2> QED
    BY <2>3, <2>4, <2>5
<1>3. CASE ExistingSession
  <2>1. signin' \in SigninPages
    BY <1>3 DEF SigninPages, ExistingSession, SetSession
  <2>2. SigninTypeOK'
    BY <1>3, <2>1 DEF ExistingSession, SetSession
  <2>3. OneCall'
    BY <1>3 DEF OneCall, SigninPages, Forms, ExistingSession, SetSession
  <2>4. PlanUnderWay'
    BY <1>3
       DEF OneCall, PlanUnderWay, SigninPages, Forms, Mailboxes, ExistingSession,
           SetSession
  <2> QED
    BY <2>2, <2>3, <2>4
<1>4. CASE FunnelGuard
  <2>1. signin' \in SigninPages
    BY <1>4 DEF SigninPages, FunnelGuard, signupOtpRedirect, NewSignin, NewForm
  <2>2. form' \in Forms
    BY <1>4 DEF Forms, FunnelGuard, signupOtpRedirect, NewSignin, NewForm
  <2>3. SigninTypeOK'
    BY <1>4, <2>1, <2>2 DEF FunnelGuard, signupOtpRedirect, NewSignin, NewForm
  <2>4. OneCall'
    BY <1>4
       DEF OneCall, SigninPages, Forms, FunnelGuard, signupOtpRedirect, NewSignin, NewForm
  <2>5. PlanUnderWay'
    BY <1>4
       DEF OneCall, PlanUnderWay, SigninPages, Forms, Mailboxes, FunnelGuard,
           signupOtpRedirect, NewSignin, NewForm
  <2> QED
    BY <2>3, <2>4, <2>5
<1>5. CASE OpenDashboard
  <2>1. signin' \in SigninPages
    BY <1>5 DEF SigninPages, OpenDashboard, NewSignin, NewForm, middleware
  <2>2. form' \in Forms
    BY <1>5 DEF Forms, OpenDashboard, NewSignin, NewForm, middleware
  <2>3. SigninTypeOK'
    BY <1>5, <2>1, <2>2 DEF OpenDashboard, NewSignin, NewForm, middleware
  <2>4. OneCall'
    BY <1>5 DEF OneCall, SigninPages, Forms, OpenDashboard, NewSignin, NewForm, middleware
  <2>5. PlanUnderWay'
    BY <1>5
       DEF OneCall, PlanUnderWay, SigninPages, Forms, Mailboxes, OpenDashboard, NewSignin,
           NewForm, middleware
  <2> QED
    BY <2>3, <2>4, <2>5
<1>6. CASE \E ok \in BOOLEAN : DevAnswer(ok)
  <2>1. signin' \in SigninPages
    BY <1>6 DEF SigninPages, DevAnswer, SetSession
  <2>2. SigninTypeOK'
    BY <1>6, <2>1 DEF DevAnswer, SetSession
  <2>3. OneCall'
    BY <1>6 DEF OneCall, SigninPages, Forms, DevAnswer, SetSession
  <2>4. PlanUnderWay'
    BY <1>6 DEF OneCall, PlanUnderWay, SigninPages, Forms, Mailboxes, DevAnswer, SetSession
  <2> QED
    BY <2>2, <2>3, <2>4
<1>7. CASE handleRequestOtp \/ handleResendOtp
  <2>1. /\ ~form.loading
        /\ form' = [form EXCEPT !.loading = TRUE, !.error = "none",
                                !.calls = form.calls \cup {[kind |-> "send"]}]
        /\ UNCHANGED <<mailbox, funnel, signin>>
        /\ ~signin.navigating
    BY <1>7 DEF handleRequestOtp, handleResendOtp, Send, EmailStep, CodeStep, FormShown,
                LoginForm, SignupForm, Put
  <2>2. form.calls = {}
    BY <2>1 DEF OneCall
  <2>3. form' = [form EXCEPT !.loading = TRUE, !.error = "none", !.calls = {[kind |-> "send"]}]
    BY <2>1, <2>2
  <2>4. form' \in Forms
    BY <2>3, AuthCallKinds DEF Forms
  <2>5. OneCall'
    BY <2>3, AuthCallKinds DEF OneCall, Forms
  <2>6. PlanUnderWay'
    BY <2>1 DEF PlanUnderWay
  <2> QED
    BY <2>1, <2>4, <2>5, <2>6
<1>8. CASE CooldownEnds
  <2>1. form' \in Forms
    BY <1>8 DEF Forms, CooldownEnds
  <2>2. SigninTypeOK'
    BY <1>8, <2>1 DEF CooldownEnds
  <2>3. OneCall'
    BY <1>8 DEF OneCall, SigninPages, Forms, CooldownEnds
  <2>4. PlanUnderWay'
    BY <1>8 DEF OneCall, PlanUnderWay, SigninPages, Forms, Mailboxes, CooldownEnds
  <2> QED
    BY <2>2, <2>3, <2>4
<1>9. CASE \E code \in {None} \cup (0 .. mailbox.mailed) : TypeCode(code)
  <2>1. mailbox' \in Mailboxes
    BY <1>9 DEF Mailboxes, Plans, TypeCode
  <2>2. form' \in Forms
    <3>1. \A code \in {None} \cup (0 .. mailbox.mailed) : code \in Nat \cup {None}
      BY DEF Mailboxes
    <3>2. PICK code \in {None} \cup (0 .. mailbox.mailed) :
             form' = [form EXCEPT !.otp = code, !.paused = FALSE]
      BY <1>9, Zenon DEF TypeCode
    <3> QED
      BY <3>1, <3>2 DEF Forms
  <2>3. SigninTypeOK'
    BY <1>9, <2>1, <2>2 DEF TypeCode
  <2>4. OneCall'
    BY <1>9 DEF OneCall, SigninPages, Forms, TypeCode
  <2>5. PlanUnderWay'
    BY <1>9 DEF OneCall, PlanUnderWay, SigninPages, Forms, Mailboxes, TypeCode
  <2> QED
    BY <2>3, <2>4, <2>5
<1>10. CASE handleUseDifferentEmail
  <2>1. form' \in Forms
    BY <1>10 DEF Forms, handleUseDifferentEmail
  <2>2. SigninTypeOK'
    BY <1>10, <2>1 DEF handleUseDifferentEmail
  <2>3. OneCall'
    BY <1>10 DEF OneCall, SigninPages, Forms, handleUseDifferentEmail
  <2>4. PlanUnderWay'
    BY <1>10 DEF OneCall, PlanUnderWay, SigninPages, Forms, Mailboxes, handleUseDifferentEmail
  <2> QED
    BY <2>2, <2>3, <2>4
<1>11. CASE handleVerifyOtp
  <2>1. /\ ~form.loading /\ form.otp # None
        /\ UNCHANGED <<mailbox, funnel>>
        /\ ~signin.navigating
        /\ IF NoConsent THEN signin' = NewSignin("start") /\ form' = Aborted(form)
           ELSE form' = Verify /\ UNCHANGED signin
    BY <1>11 DEF handleVerifyOtp, FormShown, LoginForm, SignupForm, AutoSubmit, SubmitButton,
                 CodeStep
  <2>2. form.calls = {}
    BY <2>1 DEF OneCall
  <2>3. CASE NoConsent
    <3>1. signin' = NewSignin("start") /\ form' = Aborted(form)
      BY <2>1, <2>3
    <3>2. signin' \in SigninPages /\ form' \in Forms
      BY <3>1 DEF NewSignin, SigninPages, Aborted, Forms
    <3>3. OneCall' /\ PlanUnderWay'
      BY <2>2, <3>1 DEF OneCall, PlanUnderWay, NewSignin, Aborted, Forms
    <3> QED
      BY <2>1, <3>2, <3>3
  <2>4. CASE ~NoConsent
    <3> DEFINE verify == [kind |-> "verify", otp |-> form.otp]
    <3>1. form' = [form EXCEPT !.lock = TRUE, !.loading = TRUE, !.error = "none",
                               !.calls = {verify}]
      BY <2>1, <2>2, <2>4 DEF Verify, Put
    <3>2. verify \in AuthCalls
      BY AuthCallKinds DEF Forms
    <3> HIDE DEF verify
    <3>3. form' \in Forms
      BY <3>1, <3>2 DEF Forms
    <3>4. form'.calls = {verify} /\ form'.loading = TRUE
      BY <3>1 DEF Forms
    <3>5. OneCall'
      BY <3>2, <3>4 DEF OneCall
    <3>6. PlanUnderWay'
      BY <2>1, <2>4 DEF PlanUnderWay
    <3> QED
      BY <2>1, <2>4, <3>3, <3>5, <3>6
  <2> QED
    BY <2>3, <2>4
<1>12. CASE handleDevLogin
  <2>1. signin' \in SigninPages
    BY <1>12 DEF SigninPages, handleDevLogin
  <2>2. SigninTypeOK'
    BY <1>12, <2>1 DEF handleDevLogin
  <2>3. OneCall'
    BY <1>12 DEF OneCall, SigninPages, Forms, handleDevLogin
  <2>4. PlanUnderWay'
    BY <1>12 DEF OneCall, PlanUnderWay, SigninPages, Forms, Mailboxes, handleDevLogin
  <2> QED
    BY <2>2, <2>3, <2>4
<1>13. CASE \E plan \in MANAGED_PLANS : choosePlan(plan)
  <2>1. funnel' \in Funnels
    BY <1>13 DEF Funnels, Plans, choosePlan, NewSignin
  <2>2. signin' \in SigninPages
    BY <1>13 DEF SigninPages, choosePlan, NewSignin
  <2>3. SigninTypeOK'
    BY <1>13, <2>1, <2>2 DEF choosePlan, NewSignin
  <2>4. OneCall'
    BY <1>13 DEF OneCall, SigninPages, Forms, choosePlan, NewSignin
  <2>5. PlanUnderWay'
    BY <1>13 DEF OneCall, PlanUnderWay, SigninPages, Forms, Mailboxes, choosePlan, NewSignin
  <2> QED
    BY <2>3, <2>4, <2>5
<1>14. CASE \E marketing \in BOOLEAN : giveConsent(marketing)
  <2>1. funnel' \in Funnels
    BY <1>14 DEF Funnels, Plans, giveConsent, NewSignin, NewForm
  <2>2. signin' \in SigninPages
    BY <1>14 DEF SigninPages, giveConsent, NewSignin, NewForm
  <2>3. form' \in Forms
    BY <1>14 DEF Forms, giveConsent, NewSignin, NewForm
  <2>4. SigninTypeOK'
    BY <1>14, <2>1, <2>2, <2>3 DEF giveConsent, NewSignin, NewForm
  <2>5. OneCall'
    BY <1>14 DEF OneCall, SigninPages, Forms, giveConsent, NewSignin, NewForm
  <2>6. PlanUnderWay'
    BY <1>14
       DEF OneCall, PlanUnderWay, SigninPages, Forms, Mailboxes, giveConsent, NewSignin,
           NewForm
  <2> QED
    BY <2>4, <2>5, <2>6
<1>15. CASE \E page \in {"login", "plan", "start", "signup", "dashboard"},
               plan \in MANAGED_PLANS \cup {None} : Visit(page, plan)
  <2>1. funnel' \in Funnels
    BY <1>15 DEF Funnels, Plans, Visit, NewSignin, NewForm, middleware, persistSignupPlanParam
  <2>2. signin' \in SigninPages
    BY <1>15 DEF SigninPages, Visit, NewSignin, NewForm, middleware, persistSignupPlanParam
  <2>3. form' \in Forms
    BY <1>15 DEF Forms, Visit, NewSignin, NewForm, middleware, persistSignupPlanParam
  <2>4. SigninTypeOK'
    BY <1>15, <2>1, <2>2, <2>3
       DEF Visit, NewSignin, NewForm, middleware, persistSignupPlanParam
  <2>5. OneCall'
    BY <1>15
       DEF OneCall, SigninPages, Forms, Visit, NewSignin, NewForm, middleware,
           persistSignupPlanParam
  <2>6. PlanUnderWay'
    BY <1>15
       DEF OneCall, PlanUnderWay, SigninPages, Forms, Mailboxes, Visit, NewSignin,
           NewForm, middleware, persistSignupPlanParam
  <2> QED
    BY <2>4, <2>5, <2>6
<1>16. CASE SessionExpired
  <2>1. signin' \in SigninPages
    BY <1>16 DEF SigninPages, SessionExpired, SetSession, NewSignin, NewForm
  <2>2. form' \in Forms
    BY <1>16 DEF Forms, SessionExpired, SetSession, NewSignin, NewForm
  <2>3. SigninTypeOK'
    BY <1>16, <2>1, <2>2 DEF SessionExpired, SetSession, NewSignin, NewForm
  <2>4. OneCall'
    BY <1>16 DEF OneCall, SigninPages, Forms, SessionExpired, SetSession, NewSignin, NewForm
  <2>5. PlanUnderWay'
    BY <1>16
       DEF OneCall, PlanUnderWay, SigninPages, Forms, Mailboxes, SessionExpired,
           SetSession, NewSignin, NewForm
  <2> QED
    BY <2>3, <2>4, <2>5
<1>17. CASE CookieExpires
  <2>1. SigninTypeOK'
    BY <1>17 DEF CookieExpires, SetSession
  <2>2. OneCall'
    BY <1>17 DEF OneCall, SigninPages, Forms, CookieExpires, SetSession
  <2>3. PlanUnderWay'
    BY <1>17
       DEF OneCall, PlanUnderWay, SigninPages, Forms, Mailboxes, CookieExpires, SetSession
  <2> QED
    BY <2>1, <2>2, <2>3
<1>18. ASSUME NEW c \in form.calls,
                 \/ CodeSent(c) \/ SendFails(c) \/ LoginVerified(c) \/ SignupVerified(c)
                 \/ PlanSelected(c) \/ VerifyFails(c) \/ PlanFails(c)
      PROVE  SigninInv'
  <2>1. CASE CodeSent(c)
    <3>1. mailbox' \in Mailboxes
      <4>1. mailbox.mailed + 1 \in Nat
        BY DEF Mailboxes
      <4> QED
        BY <2>1, <4>1 DEF Mailboxes, CodeSent
    <3>2. form' \in Forms
      BY <2>1 DEF Forms, Mailboxes, CodeSent, Drop
    <3>3. SigninTypeOK'
      BY <2>1, <3>1, <3>2 DEF CodeSent, Drop
    <3>4. OneCall'
      BY <2>1 DEF OneCall, SigninPages, Forms, CodeSent, Drop
    <3>5. PlanUnderWay'
      BY <2>1 DEF OneCall, PlanUnderWay, SigninPages, Forms, Mailboxes, CodeSent, Drop
    <3> QED
      BY <3>3, <3>4, <3>5
  <2>2. CASE SendFails(c)
    <3>1. form' \in Forms
      BY <2>2 DEF Forms, SendFails, Drop
    <3>2. SigninTypeOK'
      BY <2>2, <3>1 DEF SendFails, Drop
    <3>3. OneCall'
      BY <2>2 DEF OneCall, SigninPages, Forms, SendFails, Drop
    <3>4. PlanUnderWay'
      BY <2>2 DEF OneCall, PlanUnderWay, SigninPages, Forms, Mailboxes, SendFails, Drop
    <3> QED
      BY <3>2, <3>3, <3>4
  <2>3. CASE LoginVerified(c)
    <3>1. mailbox' \in Mailboxes
      BY <2>3 DEF Mailboxes, Plans, LoginVerified, Right, SetSession, Drop
    <3>2. signin' \in SigninPages
      BY <2>3 DEF SigninPages, LoginVerified, Right, SetSession, Drop
    <3>3. form' \in Forms
      BY <2>3 DEF Forms, Mailboxes, LoginVerified, Right, SetSession, Drop
    <3>4. SigninTypeOK'
      BY <2>3, <3>1, <3>2, <3>3 DEF LoginVerified, Right, SetSession, Drop
    <3>5. OneCall'
      BY <2>3 DEF OneCall, SigninPages, Forms, LoginVerified, Right, SetSession, Drop
    <3>6. PlanUnderWay'
      BY <2>3
         DEF OneCall, PlanUnderWay, SigninPages, Forms, Mailboxes, LoginVerified, Right,
             SetSession, Drop
    <3> QED
      BY <3>4, <3>5, <3>6
  <2>4. CASE SignupVerified(c)
    <3>1. mailbox' \in Mailboxes
      BY <2>4, AuthCallKinds
         DEF Mailboxes, Plans, Funnels, SignupVerified, Right, SetSession, Drop
    <3>2. funnel' \in Funnels
      BY <2>4 DEF Funnels, Plans, SignupVerified, Right, SetSession, Drop
    <3>3. signin' \in SigninPages
      BY <2>4 DEF SigninPages, SignupVerified, Right, SetSession, Drop
    <3>4. form' \in Forms
      BY <2>4, AuthCallKinds
         DEF Forms, Plans, Mailboxes, Funnels, SignupVerified, Right, SetSession, Drop
    <3>5. SigninTypeOK'
      BY <2>4, <3>1, <3>2, <3>3, <3>4 DEF SignupVerified, Right, SetSession, Drop
    <3>6. /\ form'.calls = {[kind |-> "plan", plan |-> funnel.plan]}
          /\ mailbox'.chosen = funnel.plan
      BY <2>4 DEF Forms, Mailboxes, SignupVerified
    <3>7. OneCall'
      <4>1. form.loading /\ form'.loading = form.loading
        BY <2>4 DEF OneCall, Forms, SignupVerified
      <4>2. [kind |-> "plan", plan |-> funnel.plan] \in AuthCalls
        BY AuthCallKinds DEF Funnels
      <4> QED
        BY <3>6, <4>1, <4>2 DEF OneCall
    <3>8. PlanUnderWay'
      <4>1. form'.calls # {} /\ \A d \in form'.calls : d.kind = "plan" /\ d.plan = mailbox'.chosen
        BY <3>6
      <4> QED
        BY <4>1 DEF PlanUnderWay
    <3> QED
      BY <3>5, <3>7, <3>8
  <2>5. CASE PlanSelected(c)
    <3>1. mailbox' \in Mailboxes
      <4>1. c.plan \in Plans
        BY <2>5, AuthCallKinds DEF Forms, PlanSelected
      <4> QED
        BY <2>5, <4>1 DEF Mailboxes, PlanSelected
    <3>2. form' \in Forms
      BY <2>5, AuthCallKinds DEF Forms, Plans, Mailboxes, PlanSelected, Drop
    <3>3. SigninTypeOK'
      BY <2>5, <3>1, <3>2 DEF PlanSelected, Drop
    <3>4. OneCall'
      BY <2>5, AuthCallKinds DEF OneCall, SigninPages, Forms, Plans, PlanSelected, Drop
    <3>5. PlanUnderWay'
      BY <2>5 DEF OneCall, PlanUnderWay, SigninPages, Forms, Mailboxes, PlanSelected, Drop
    <3> QED
      BY <3>3, <3>4, <3>5
  <2>6. CASE VerifyFails(c)
    <3>1. form' \in Forms
      BY <2>6 DEF Forms, VerifyFails, Drop
    <3>2. SigninTypeOK'
      BY <2>6, <3>1 DEF VerifyFails, Drop
    <3>3. OneCall'
      BY <2>6 DEF OneCall, SigninPages, Forms, VerifyFails, Drop
    <3>4. PlanUnderWay'
      BY <2>6 DEF OneCall, PlanUnderWay, SigninPages, Forms, Mailboxes, VerifyFails, Drop
    <3> QED
      BY <3>2, <3>3, <3>4
  <2>7. CASE PlanFails(c)
    <3>1. signin' \in SigninPages
      BY <2>7 DEF SigninPages, PlanFails, Drop
    <3>2. form' \in Forms
      BY <2>7 DEF Forms, PlanFails, Drop
    <3>3. SigninTypeOK'
      BY <2>7, <3>1, <3>2 DEF PlanFails, Drop
    <3>4. OneCall'
      BY <2>7 DEF OneCall, SigninPages, Forms, PlanFails, Drop
    <3>5. PlanUnderWay'
      BY <2>7 DEF OneCall, PlanUnderWay, SigninPages, Forms, Mailboxes, PlanFails, Drop
    <3> QED
      BY <3>3, <3>4, <3>5
  <2> QED
    BY <1>18, <2>1, <2>2, <2>3, <2>4, <2>5, <2>6, <2>7
<1> QED
  BY <1>1, <1>2, <1>3, <1>4, <1>5, <1>6, <1>7, <1>8, <1>9, <1>10, <1>11, <1>12, <1>13,
     <1>14, <1>15, <1>16, <1>17, <1>18
     DEF SigninNext, SigninAnswers

\* Whatever the user does meanwhile, the calls of the form are in order, and one at
\* a time.
THEOREM SigninInvariant == ClientsSpec => []SigninInv
<1>1. ClientsInit => SigninInv
  BY SigninStarts DEF ClientsInit
<1>2. SigninInv /\ UNCHANGED signinVars => SigninInv'
  BY DEF signinVars, SigninInv, SigninTypeOK, OneCall, PlanUnderWay
<1>3. SigninInv /\ [ClientsNext]_clientVars => SigninInv'
  BY <1>2, OneSceneAtATime, SigninStep DEF ScreensStep
<1> QED
  BY <1>1, <1>3, PTL DEF ClientsSpec

\* The form of a code has one call in flight at the most: the lock, the pause and
\* loading let none of the three ways to submit start a second one.
THEOREM OneAuthCall == ClientsSpec => []OneAuthCallAtATime
<1>1. SigninInv => OneAuthCallAtATime
  BY FS_EmptySet, FS_Singleton DEF SigninInv, OneCall, OneAuthCallAtATime
<1> QED
  BY <1>1, SigninInvariant, PTL

\* No step opens the dashboard after a signup before the plan that was chosen is the
\* plan of the account, but those the user makes.
LEMMA OpensWithPlan ==
  ASSUME SigninInv, ActsInv, SigninNext, acts' = acts,
         signin.page = "signup", signin'.page = "dashboard"
  PROVE  mailbox.plan = mailbox.chosen
<1>1. ~SessionExpired /\ ~CookieExpires /\ ~FunnelGuard
      /\ ~(\E page \in {"login", "plan"}, registered \in BOOLEAN :
             BrowserOpens(page, FALSE, registered))
      /\ ~BrowserOpens("dashboard", TRUE, TRUE)
      /\ ~(\E plan \in MANAGED_PLANS : choosePlan(plan))
      /\ ~(\E marketing \in BOOLEAN : giveConsent(marketing))
  BY DEF SessionExpired, CookieExpires, FunnelGuard, signupOtpRedirect, BrowserOpens,
         choosePlan, SignupPlanPage, giveConsent, SignupStartInner, NewSignin, Spend, ActsInv
<1>2. \A page \in {"login", "plan", "start", "signup", "dashboard"},
         plan \in MANAGED_PLANS \cup {None} : ~Visit(page, plan)
  BY DEF Visit, Acts, Spend, ActsInv
<1>3. ~handleVerifyOtp
  BY DEF handleVerifyOtp, NewSignin
<1>4. ~ExistingSession /\ ~handleDevLogin /\ \A ok \in BOOLEAN : ~DevAnswer(ok)
  BY DEF ExistingSession, handleDevLogin, DevAnswer, SigninInv, SigninTypeOK, SigninPages
<1>5. \A c \in form.calls : ~LoginVerified(c) /\ ~SignupVerified(c) /\ ~PlanFails(c)
  BY DEF LoginVerified, SignupVerified, PlanFails, SigninInv, SigninTypeOK, SigninPages
<1>6. \A c \in form.calls : ~CodeSent(c) /\ ~PlanSelected(c) /\ ~SendFails(c) /\ ~VerifyFails(c)
  BY DEF CodeSent, PlanSelected, SendFails, VerifyFails
<1>7. OpenDashboard
  BY <1>1, <1>2, <1>3, <1>4, <1>5, <1>6, Zenon
     DEF SigninNext, SigninAnswers, handleRequestOtp, handleResendOtp, CooldownEnds, TypeCode,
         handleUseDifferentEmail
<1> QED
  BY <1>7 DEF SigninInv, SigninTypeOK, SigninPages, OpenDashboard, PlanUnderWay

THEOREM PlanFirst == ClientsSpec => PlanBeforeDashboard
<1>1. SigninInv /\ ActsInv /\ [ClientsNext]_clientVars =>
        [signin.page = "signup" /\ signin'.page = "dashboard" /\ acts' = acts =>
           mailbox.plan = mailbox.chosen]_<<signin, acts>>
  BY OneSceneAtATime, OpensWithPlan DEF ScreensStep, signinVars
<1> QED
  BY <1>1, SigninInvariant, ActsAreCounted, PTL DEF ClientsSpec, PlanBeforeDashboard

-----------------------------------------------------------------------------
(* The settings page: the end of the account. *)

SettingsShape ==
    DOMAIN settings = {"at", "managed", "list", "loading", "atLimit", "newKey", "revoking",
                       "running", "calls", "trial", "opts", "dialog", "typed", "busy", "ready"}

EndsAccount(c) == c.kind \in {"trial", "delete"}

\* A call that decides about the account is the only such, and the dialog waits for it.
DecisionWatched ==
    \A c \in settings.calls : EndsAccount(c) =>
       /\ settings.dialog /\ settings.busy
       /\ \A other \in settings.calls : EndsAccount(other) => other = c

SettingsInv == SettingsShape /\ DecisionWatched

\* Most steps leave the decision alone: they send other calls, or drop some.
NoDecision ==
    /\ settings'.dialog = settings.dialog /\ settings'.busy = settings.busy
    /\ \A c \in settings'.calls : c \in settings.calls \/ ~EndsAccount(c)

LEMMA DecisionKept == SettingsInv /\ SettingsShape' /\ NoDecision => SettingsInv'
  BY DEF SettingsInv, NoDecision, DecisionWatched

LEMMA PageAnew == ASSUME NEW at, settings' = NewSettings(at) PROVE SettingsInv'
  BY DEF NewSettings, SettingsInv, SettingsShape, DecisionWatched

LEMMA SettingsStep == SettingsInv /\ (SettingsNext \/ PanelNext) => SettingsInv'
<1> SUFFICES ASSUME SettingsInv, SettingsNext \/ PanelNext PROVE SettingsInv'
  OBVIOUS
<1>1. ASSUME UNCHANGED settings PROVE SettingsInv'
  BY <1>1 DEF SettingsInv, SettingsShape, DecisionWatched
<1>2. CASE PanelNext
  <2>1. UNCHANGED settings
    BY <1>2, Zenon
       DEF PanelNext, PanelAnswers, PanelMounts, PanelListed, KeyCreateFails, AgentTested,
           KeyRevokeFails, PanelAgentChanges, testAgent, handleCreateKey, dismissKey,
           handleRevokeKey, MintedElsewhere, RevokedElsewhere, PanelQuota, KeyCreated,
           KeyRevoked
  <2> QED
    BY <1>1, <2>1
<1>3. ASSUME NEW managed \in BOOLEAN, SettingsMounts(managed) PROVE SettingsInv'
  BY <1>3, PageAnew
     DEF SettingsMounts, requireAuth, NewSettings, SettingsInv, SettingsShape,
         DecisionWatched, EndsAccount, Call, QuotaCall
<1>4. ASSUME NEW c \in settings.calls,
             \/ \E ok \in BOOLEAN : \/ SettingsListed(c, ok)
                                    \/ OptionsAnswered(c, ok)
                                    \/ FormAnswered(c, ok)
             \/ SettingsQuota(c)
             \/ TenantKeyCreated(c)
             \/ TenantKeyFails(c)
             \/ ListedRevoked(c)
             \/ ListedRevokeFails(c)
      PROVE  SettingsInv'
  <2>1. SettingsShape' /\ NoDecision
    <3> USE DEF SettingsInv, SettingsShape, NoDecision, EndsAccount, Drop, Finish
    <3>1. ASSUME NEW ok \in BOOLEAN, SettingsListed(c, ok) PROVE SettingsShape' /\ NoDecision
      BY <3>1 DEF SettingsListed
    <3>2. ASSUME NEW ok \in BOOLEAN, OptionsAnswered(c, ok) PROVE SettingsShape' /\ NoDecision
      BY <3>2 DEF OptionsAnswered
    <3>3. ASSUME NEW ok \in BOOLEAN, FormAnswered(c, ok) PROVE SettingsShape' /\ NoDecision
      BY <3>3 DEF FormAnswered
    <3>4. CASE SettingsQuota(c)
      <4>1. PICK level : \/ settings' = [settings EXCEPT !.running = Drop(@, c.arg),
                                            !.calls = Drop(@, c), !.atLimit = level]
                         \/ settings' = [settings EXCEPT !.running = Drop(@, c.arg),
                                            !.calls = Drop(@, c)]
        BY <3>4, Zenon DEF SettingsQuota, QuotaAnswered, QuotaFailed
      <4>2. CASE settings' = [settings EXCEPT !.running = Drop(@, c.arg),
                                !.calls = Drop(@, c), !.atLimit = level]
        BY <4>2
      <4>3. CASE settings' = [settings EXCEPT !.running = Drop(@, c.arg), !.calls = Drop(@, c)]
        BY <4>3
      <4> QED
        BY <4>1, <4>2, <4>3
    <3>5. CASE TenantKeyCreated(c)
      BY <3>5 DEF TenantKeyCreated, refreshQuota, QuotaCall, Call, Put
    <3>6. CASE TenantKeyFails(c) \/ ListedRevokeFails(c)
      <4>1. CASE TenantKeyFails(c)
        BY <4>1 DEF TenantKeyFails
      <4>2. CASE ListedRevokeFails(c)
        BY <4>2 DEF ListedRevokeFails
      <4> QED
        BY <3>6, <4>1, <4>2
    <3>7. CASE ListedRevoked(c)
      BY <3>7 DEF ListedRevoked, refreshQuota, QuotaCall, Call, Put
    <3> QED
      BY <1>4, <3>1, <3>2, <3>3, <3>4, <3>5, <3>6, <3>7
  <2> QED
    BY <2>1, DecisionKept
<1>5. ASSUME NEW c \in settings.calls, TrialGranted(c) PROVE SettingsInv'
  BY <1>5 DEF TrialGranted, SettingsInv, SettingsShape, DecisionWatched, EndsAccount, Drop
<1>6. ASSUME NEW c \in settings.calls, NEW done \in BOOLEAN, AccountCallFails(c, done)
      PROVE  SettingsInv'
  BY <1>6 DEF AccountCallFails, SettingsInv, SettingsShape, DecisionWatched, EndsAccount, Drop
<1>7. ASSUME NEW c \in settings.calls, AccountDeleted(c) \/ AccountGone(c)
      PROVE  SettingsInv'
  BY <1>7, PageAnew DEF AccountDeleted, AccountGone
<1>8. CASE SettingsFocus
  <2>1. SettingsShape' /\ NoDecision
    BY <1>8
       DEF SettingsFocus, SettingsInv, SettingsShape, NoDecision, EndsAccount,
           refreshQuota, QuotaCall, Call, Put, Drop, Finish
  <2> QED
    BY <2>1, DecisionKept
<1>9. ASSUME \/ \E f \in {"embeddings", "test"} : submitForm(f)
             \/ createTenantKey
             \/ \E k \in settings.list : revokeListed(k)
      PROVE  SettingsInv'
  <2>1. CASE token
    <3> USE DEF requireAuth, Sends, Call, Put, SettingsInv, SettingsShape, NoDecision, EndsAccount
    <3>1. ASSUME NEW f, submitForm(f) PROVE SettingsShape' /\ NoDecision
      BY <3>1, <2>1 DEF submitForm
    <3>2. ASSUME createTenantKey PROVE SettingsShape' /\ NoDecision
      BY <3>2, <2>1 DEF createTenantKey
    <3>3. ASSUME NEW k, revokeListed(k) PROVE SettingsShape' /\ NoDecision
      BY <3>3, <2>1 DEF revokeListed
    <3> QED
      BY <1>9, <3>1, <3>2, <3>3, DecisionKept
  <2>2. CASE ~token
    BY <1>9, <2>2, PageAnew DEF submitForm, createTenantKey, revokeListed, requireAuth
  <2> QED
    BY <2>1, <2>2
<1>10. CASE openDialog \/ closeDialog \/ typeDelete
  BY <1>10 DEF openDialog, DangerZone, closeDialog, DeleteDialog, typeDelete, SettingsInv,
               SettingsShape, DecisionWatched
<1>11. CASE keepAccount \/ deleteAccount
  <2>1. CASE token
    <3>1. \A c \in settings.calls : ~EndsAccount(c)
      BY <1>11 DEF keepAccount, deleteAccount, DeleteDialog, SettingsInv, DecisionWatched
    <3>2. PICK c : settings' = [settings EXCEPT !.calls = settings.calls \cup {c}, !.busy = TRUE]
      BY <1>11, <2>1, Zenon
         DEF keepAccount, deleteAccount, requireAuth, Sends, Put, SettingsInv,
             SettingsShape
    <3>3. settings.dialog
      BY <1>11 DEF keepAccount, deleteAccount, DeleteDialog
    <3> QED
      BY <3>1, <3>2, <3>3 DEF SettingsInv, SettingsShape, DecisionWatched
  <2>2. CASE ~token
    BY <1>11, <2>2, PageAnew DEF keepAccount, deleteAccount, requireAuth
  <2> QED
    BY <2>1, <2>2
<1> QED
  BY <1>2, <1>3, <1>4, <1>5, <1>6, <1>7, <1>8, <1>9, <1>10, <1>11
     DEF SettingsNext, SettingsAnswers

\* While the deletion of the account is under way, the dialog that says so is on
\* screen, and no other call decides about the account.
THEOREM DeletionWatched == ClientsSpec => []DeleteIsWatched
<1>1. ClientsInit => SettingsInv
  BY DEF ClientsInit, SettingsInit, NewSettings, SettingsInv, SettingsShape, DecisionWatched
<1>2. SettingsInv /\ UNCHANGED settingsVars => SettingsInv'
  BY DEF settingsVars, SettingsInv, SettingsShape, DecisionWatched
<1>3. SettingsInv /\ [ClientsNext]_clientVars => SettingsInv'
  BY <1>2, OneSceneAtATime, SettingsStep DEF ScreensStep
<1>4. SettingsInv => DeleteIsWatched
  BY DEF SettingsInv, DecisionWatched, DeleteIsWatched, EndsAccount
<1> QED
  BY <1>1, <1>3, <1>4, PTL DEF ClientsSpec

-----------------------------------------------------------------------------
(* The panel of an agent's keys: the key that is shown once. *)

PanelShape ==
    DOMAIN keysPanel = {"at", "agent", "oss", "list", "loading", "atLimit", "newKey", "revoking",
                        "running", "calls"}

VaultShape == DOMAIN vault = {"account", "keys", "minted", "trialUsed"} /\ vault.minted \in Nat

\* Keys are asked for for an agent, or for the account.
MintsForSomeone ==
    /\ keysPanel.agent \in Agents \cup {None}
    /\ \A c \in keysPanel.calls : c.kind = "create" => c.arg \in Agents \cup {None}

\* Where there is no panel, nothing is shown and nothing in flight.
GoneIsEmpty ==
    keysPanel.at \notin {"panel", "card"} => keysPanel.newKey = None /\ keysPanel.calls = {}

PanelInv == PanelShape /\ VaultShape /\ MintsForSomeone /\ GoneIsEmpty

LEMMA VaultStep == VaultShape /\ (SettingsNext \/ PanelNext) => VaultShape'
<1> SUFFICES ASSUME VaultShape, SettingsNext \/ PanelNext PROVE VaultShape'
  OBVIOUS
<1>1. ASSUME UNCHANGED vault PROVE VaultShape'
  BY <1>1 DEF VaultShape
<1>2. ASSUME NEW a, vault' = WithKey(a) PROVE VaultShape'
  BY <1>2 DEF WithKey, VaultShape
<1>3. ASSUME NEW k, vault' = [vault EXCEPT !.keys = Drop(@, k)] PROVE VaultShape'
  BY <1>3 DEF VaultShape
<1>4. CASE SettingsNext
  <2>1. ASSUME NEW c, TenantKeyCreated(c) PROVE VaultShape'
    BY <2>1, <1>2 DEF TenantKeyCreated
  <2>2. ASSUME NEW c, ListedRevoked(c) PROVE VaultShape'
    BY <2>2, <1>3 DEF ListedRevoked
  <2>3. ASSUME NEW c, TrialGranted(c) PROVE VaultShape'
    BY <2>3 DEF TrialGranted, VaultShape
  <2>4. ASSUME NEW c, AccountDeleted(c) PROVE VaultShape'
    BY <2>4 DEF AccountDeleted, VaultShape
  <2>5. ASSUME NEW c, NEW done \in BOOLEAN, AccountCallFails(c, done) PROVE VaultShape'
    BY <2>5 DEF AccountCallFails, VaultShape
  <2>6. ASSUME NEW c, \/ \E ok \in BOOLEAN : \/ SettingsListed(c, ok) \/ OptionsAnswered(c, ok)
                                             \/ FormAnswered(c, ok)
                      \/ SettingsQuota(c) \/ TenantKeyFails(c) \/ ListedRevokeFails(c)
                      \/ AccountGone(c)
        PROVE  UNCHANGED vault
    BY <2>6, Zenon
       DEF SettingsListed, OptionsAnswered, FormAnswered, SettingsQuota, TenantKeyFails,
           ListedRevokeFails, AccountGone
  <2>7. ASSUME \/ \E managed \in BOOLEAN : SettingsMounts(managed)
               \/ SettingsFocus
               \/ \E f \in {"embeddings", "test"} : submitForm(f)
               \/ createTenantKey
               \/ \E k \in settings.list : revokeListed(k)
               \/ openDialog \/ closeDialog \/ typeDelete \/ keepAccount \/ deleteAccount
        PROVE  UNCHANGED vault
    BY <2>7, Zenon
       DEF SettingsMounts, SettingsFocus, submitForm, createTenantKey, revokeListed,
           openDialog, closeDialog, typeDelete, keepAccount, deleteAccount, requireAuth
  <2> QED
    BY <1>1, <1>4, <2>1, <2>2, <2>3, <2>4, <2>5, <2>6, <2>7 DEF SettingsNext, SettingsAnswers
<1>5. CASE PanelNext
  <2>1. ASSUME NEW c, KeyCreated(c) PROVE VaultShape'
    BY <2>1, <1>2 DEF KeyCreated
  <2>2. ASSUME NEW c, KeyRevoked(c) PROVE VaultShape'
    BY <2>2, <1>3 DEF KeyRevoked
  <2>3. ASSUME NEW a, MintedElsewhere(a) \/ RevokedElsewhere(a) PROVE VaultShape'
    BY <2>3, <1>2, <1>3 DEF MintedElsewhere, RevokedElsewhere
  <2>4. ASSUME NEW c, \/ \E ok \in BOOLEAN : PanelListed(c, ok) \/ AgentTested(c, ok)
                      \/ PanelQuota(c) \/ KeyRevokeFails(c) \/ KeyCreateFails(c)
        PROVE  UNCHANGED vault
    BY <2>4, Zenon DEF PanelListed, AgentTested, PanelQuota, KeyRevokeFails, KeyCreateFails
  <2>5. ASSUME \/ \E a, oss : PanelMounts(a, oss)
               \/ \E a \in Agents : PanelAgentChanges(a)
               \/ testAgent \/ handleCreateKey \/ dismissKey
               \/ \E k \in keysPanel.list : handleRevokeKey(k)
        PROVE  UNCHANGED vault
    BY <2>5, Zenon DEF PanelMounts, PanelAgentChanges, testAgent, handleCreateKey, dismissKey,
                handleRevokeKey
  <2> QED
    BY <1>1, <1>5, <2>1, <2>2, <2>3, <2>4, <2>5 DEF PanelNext, PanelAnswers
<1> QED
  BY <1>4, <1>5

\* What the panel does with a key that is shown: the answers that come by themselves
\* leave it, or show another.
PanelKeeps ==
    \/ keysPanel'.newKey = keysPanel.newKey
    \/ keysPanel'.newKey # None
    \/ keysPanel'.at # keysPanel.at
    \/ acts' # acts

PanelGone == keysPanel' = NewKeysPanel("login", None)

LEMMA PanelGoes ==
  ASSUME PanelInv, VaultShape', PanelGone, keysPanel.at \in {"panel", "card"}
  PROVE  PanelInv' /\ PanelKeeps
  BY DEF PanelInv, PanelShape, MintsForSomeone, GoneIsEmpty, PanelGone, NewKeysPanel,
         PanelKeeps

\* Most steps leave the key, the agent and the place alone.
PanelStays ==
    /\ keysPanel'.newKey = keysPanel.newKey /\ keysPanel'.agent \in Agents \cup {None}
    /\ keysPanel'.at = keysPanel.at
    /\ keysPanel.at \in {"panel", "card"}
    /\ \A c \in keysPanel'.calls : c \in keysPanel.calls \/ c.kind # "create"

LEMMA PanelKept == PanelInv /\ PanelShape' /\ VaultShape' /\ PanelStays => PanelInv' /\ PanelKeeps
  BY DEF PanelInv, PanelStays, MintsForSomeone, GoneIsEmpty, PanelKeeps

LEMMA PanelStep ==
  PanelInv /\ ActsInv /\ (SettingsNext \/ PanelNext) => PanelInv' /\ PanelKeeps
<1> SUFFICES ASSUME PanelInv, ActsInv, SettingsNext \/ PanelNext PROVE PanelInv' /\ PanelKeeps
  OBVIOUS
<1>1. VaultShape'
  BY VaultStep DEF PanelInv
<1>2. ASSUME UNCHANGED keysPanel PROVE PanelInv' /\ PanelKeeps
  BY <1>1, <1>2 DEF PanelInv, PanelShape, MintsForSomeone, GoneIsEmpty, PanelKeeps
<1>3. CASE SettingsNext
  <2>1. UNCHANGED keysPanel
    BY <1>3, Zenon
       DEF SettingsNext, SettingsAnswers, SettingsMounts, SettingsFocus, submitForm,
           createTenantKey, revokeListed, openDialog, closeDialog, typeDelete,
           keepAccount, deleteAccount, requireAuth, SettingsListed, OptionsAnswered,
           FormAnswered, SettingsQuota, TenantKeyFails, ListedRevokeFails, AccountGone,
           TenantKeyCreated, ListedRevoked, TrialGranted, AccountDeleted, AccountCallFails
  <2> QED
    BY <1>2, <2>1
<1>4. ASSUME NEW agent \in Agents \cup {None}, NEW oss \in BOOLEAN, PanelMounts(agent, oss)
      PROVE  PanelInv' /\ PanelKeeps
  BY <1>1, <1>4 DEF PanelMounts, NewKeysPanel, loadKeys, QuotaCall, Call, Put, PanelInv,
                    PanelShape, MintsForSomeone, GoneIsEmpty, PanelKeeps
<1>5. ASSUME NEW c \in keysPanel.calls PROVE keysPanel.at \in {"panel", "card"}
  BY DEF PanelInv, GoneIsEmpty
<1>6. ASSUME NEW c \in keysPanel.calls, NEW ok \in BOOLEAN, PanelListed(c, ok)
      PROVE  PanelInv' /\ PanelKeeps
  <2>1. PICK keys : LET p == [keysPanel EXCEPT !.calls = Drop(@, c), !.list = keys,
                                               !.loading = FALSE]
                    IN  keysPanel' = IF c.arg.then = None THEN p ELSE refreshQuota(p, c.arg.then)
    BY <1>6, Zenon DEF PanelListed
  <2>2. PanelShape' /\ PanelStays
    BY <1>5, <2>1 DEF refreshQuota, QuotaCall, Call, Put, Drop, Finish, PanelInv, PanelShape,
                      MintsForSomeone, PanelStays
  <2> QED
    BY <1>1, <2>2, PanelKept
<1>7. ASSUME NEW c \in keysPanel.calls, NEW ok \in BOOLEAN, AgentTested(c, ok)
      PROVE  PanelInv' /\ PanelKeeps
  <2>1. PanelShape' /\ PanelStays
    BY <1>5, <1>7
       DEF AgentTested, Finish, Drop, PanelInv, PanelShape, MintsForSomeone, PanelStays
  <2> QED
    BY <1>1, <2>1, PanelKept
<1>8. ASSUME NEW c \in keysPanel.calls, PanelQuota(c) PROVE PanelInv' /\ PanelKeeps
  <2>1. PICK level : \/ keysPanel' = [keysPanel EXCEPT !.running = Drop(@, c.arg),
                                         !.calls = Drop(@, c), !.atLimit = level]
                     \/ keysPanel' = [keysPanel EXCEPT !.running = Drop(@, c.arg),
                                         !.calls = Drop(@, c)]
    BY <1>8, Zenon DEF PanelQuota, QuotaAnswered, QuotaFailed, Finish, PanelInv, PanelShape
  <2>2. PanelShape' /\ PanelStays
    BY <1>5, <2>1 DEF Drop, PanelInv, PanelShape, MintsForSomeone, PanelStays
  <2> QED
    BY <1>1, <2>2, PanelKept
<1>9. ASSUME NEW c \in keysPanel.calls, KeyRevokeFails(c) \/ KeyCreateFails(c)
      PROVE  PanelInv' /\ PanelKeeps
  <2>1. PanelShape' /\ PanelStays
    BY <1>5, <1>9 DEF KeyRevokeFails, KeyCreateFails, Finish, Drop, PanelInv, PanelShape,
                      MintsForSomeone, PanelStays
  <2> QED
    BY <1>1, <2>1, PanelKept
<1>10. ASSUME NEW c \in keysPanel.calls, KeyRevoked(c) PROVE PanelInv' /\ PanelKeeps
  <2>1. PanelShape' /\ PanelStays
    BY <1>5, <1>10 DEF KeyRevoked, refreshQuota, QuotaCall, Call, Put, Finish, Drop, PanelInv,
                       PanelShape, MintsForSomeone, PanelStays
  <2> QED
    BY <1>1, <2>1, PanelKept
<1>11. ASSUME NEW c \in keysPanel.calls, KeyCreated(c) PROVE PanelInv' /\ PanelKeeps
  <2>1. Minted(c.arg) # None
    <3>1. vault.minted + 1 \in 1 .. MaxKeys /\ c.arg \in Agents \cup {None}
      BY <1>11, SettingsAssumption
         DEF KeyCreated, MayMint, PanelInv, VaultShape, MintsForSomeone
    <3> QED
      BY <3>1, SettingsAssumption DEF Minted
  <2>2. CASE keysPanel.at # "card" /\ ~token
    BY <1>1, <1>5, <1>11, <2>2, PanelGoes DEF KeyCreated, PanelGone
  <2>3. CASE keysPanel.at = "card" \/ token
    <3> DEFINE key == Minted(c.arg)
               p == [keysPanel EXCEPT !.calls = Drop(@, c), !.newKey = key]
    <3>1. keysPanel' = IF keysPanel.at = "card" THEN Finish(p, "create") ELSE loadKeys(p, "create")
      BY <1>11, <2>3 DEF KeyCreated
    <3>2. key # None
      BY <2>1
    <3> HIDE DEF key
    <3>3. /\ PanelShape'
          /\ keysPanel'.newKey = key /\ keysPanel'.agent = keysPanel.agent
          /\ keysPanel'.at = keysPanel.at
          /\ \A d \in keysPanel'.calls : d \in keysPanel.calls \/ d.kind = "list"
      BY <3>1 DEF Finish, loadKeys, Call, Put, Drop, PanelInv, PanelShape
    <3> QED
      BY <1>1, <1>5, <3>2, <3>3 DEF PanelInv, MintsForSomeone, GoneIsEmpty, PanelKeeps
  <2> QED
    BY <2>2, <2>3
<1>12. ASSUME NEW agent \in Agents, PanelAgentChanges(agent) PROVE PanelInv' /\ PanelKeeps
  <2>1. keysPanel.at = "panel"
    BY <1>12 DEF PanelAgentChanges
  <2>2. CASE token
    <3>1. PanelShape' /\ PanelStays
      BY <1>12, <2>1, <2>2 DEF PanelAgentChanges, loadKeys, Call, Put, PanelInv, PanelShape,
                               PanelStays
    <3> QED
      BY <1>1, <3>1, PanelKept
  <2>3. CASE ~token
    BY <1>1, <1>12, <2>1, <2>3, PanelGoes DEF PanelAgentChanges, PanelGone
  <2> QED
    BY <2>2, <2>3
<1>13. CASE testAgent
  <2>1. keysPanel.at = "panel"
    BY <1>13 DEF testAgent
  <2>2. CASE token
    <3>1. PanelShape' /\ PanelStays
      BY <1>13, <2>1, <2>2 DEF testAgent, Call, Put, PanelInv, PanelShape, MintsForSomeone,
                               PanelStays
    <3> QED
      BY <1>1, <3>1, PanelKept
  <2>3. CASE ~token
    BY <1>1, <1>13, <2>1, <2>3, PanelGoes DEF testAgent, PanelGone
  <2> QED
    BY <2>2, <2>3
<1>14. CASE handleCreateKey
  <2>1. keysPanel.at \in {"panel", "card"}
    BY <1>14 DEF handleCreateKey, NewKeyOffered
  <2>2. CASE token
    <3>1. /\ PanelShape' /\ keysPanel'.newKey = keysPanel.newKey
          /\ keysPanel'.agent = keysPanel.agent /\ keysPanel'.at = keysPanel.at
          /\ \A d \in keysPanel'.calls :
                d \in keysPanel.calls \/ d = Call("create", keysPanel.agent)
      BY <1>14, <2>2 DEF handleCreateKey, Put, PanelInv, PanelShape
    <3> QED
      BY <1>1, <2>1, <3>1 DEF Call, PanelInv, MintsForSomeone, GoneIsEmpty, PanelKeeps
  <2>3. CASE ~token
    BY <1>1, <1>2, <1>14, <2>1, <2>3, PanelGoes DEF handleCreateKey, PanelGone
  <2> QED
    BY <2>2, <2>3
<1>15. CASE dismissKey
  <2>1. acts' # acts
    BY <1>15 DEF dismissKey, Acts, Spend, ActsInv
  <2> QED
    BY <1>1, <1>15, <2>1 DEF dismissKey, PanelInv, PanelShape, MintsForSomeone, GoneIsEmpty,
                             PanelKeeps
<1>16. ASSUME NEW k \in keysPanel.list, handleRevokeKey(k) PROVE PanelInv' /\ PanelKeeps
  <2>1. keysPanel.at = "panel"
    BY <1>16 DEF handleRevokeKey, PanelRows
  <2>2. CASE token
    <3>1. PanelShape' /\ PanelStays
      BY <1>16, <2>1, <2>2
         DEF handleRevokeKey, Call, Put, PanelInv, PanelShape, MintsForSomeone, PanelStays
    <3> QED
      BY <1>1, <3>1, PanelKept
  <2>3. CASE ~token
    BY <1>1, <1>16, <2>1, <2>3, PanelGoes DEF handleRevokeKey, PanelGone
  <2> QED
    BY <2>2, <2>3
<1>17. ASSUME NEW a, MintedElsewhere(a) \/ RevokedElsewhere(a) PROVE UNCHANGED keysPanel
  BY <1>17 DEF MintedElsewhere, RevokedElsewhere
<1> QED
  BY <1>2, <1>3, <1>4, <1>6, <1>7, <1>8, <1>9, <1>10, <1>11, <1>12, <1>13, <1>14, <1>15,
     <1>16, 
     <1>17 DEF PanelNext, PanelAnswers

THEOREM PanelInvariant == ClientsSpec => []PanelInv
<1>1. ClientsInit => PanelInv
  BY DEF ClientsInit, SettingsInit, NewKeysPanel, PanelInv, PanelShape, VaultShape,
         MintsForSomeone, GoneIsEmpty
<1>2. PanelInv /\ UNCHANGED settingsVars => PanelInv'
  BY DEF settingsVars, PanelInv, PanelShape, VaultShape, MintsForSomeone, GoneIsEmpty
<1>3. PanelInv /\ ActsInv /\ [ClientsNext]_clientVars => PanelInv'
  BY <1>2, OneSceneAtATime, PanelStep DEF ScreensStep
<1> QED
  BY <1>1, <1>3, ActsAreCounted, PTL DEF ClientsSpec

\* A key that is shown once stays on screen until the user does something: no list,
\* quota or revocation that is answered takes it away unread.
THEOREM SecretStays == ClientsSpec => SecretStaysUntilAct
<1>1. PanelInv /\ ActsInv /\ [ClientsNext]_clientVars =>
        [keysPanel.newKey # None /\ keysPanel'.at = keysPanel.at
           /\ keysPanel'.newKey # keysPanel.newKey =>
              acts' # acts \/ keysPanel'.newKey # None]_<<keysPanel, acts>>
  BY OneSceneAtATime, PanelStep DEF ScreensStep, settingsVars, PanelKeeps
<1> QED
  BY <1>1, PanelInvariant, ActsAreCounted, PTL DEF ClientsSpec, SecretStaysUntilAct

-----------------------------------------------------------------------------
(* The community board: the images of a post. *)

DraftShape == DOMAIN draft = {"images", "uploading", "batches", "category", "ready", "submitting",
                              "posts"}

ShownImages == {n \in Nat : n <= MaxImages}

\* Neither the form nor a call of it holds more images than a post may have.
ImagesBounded ==
    /\ draft.images \in ShownImages
    /\ \A p \in draft.posts : DOMAIN p = {"category", "images", "own"} /\ p.images \in ShownImages
    /\ \A b \in draft.batches : DOMAIN b = {"no", "own", "files"} /\ b.files \in Nat

BoardShape == DOMAIN board = {"posts", "replies", "counts", "uncounted"}

DraftInv == DraftShape /\ ImagesBounded /\ BoardShape /\ PostsKeepTheirImages

LEMMA DraftReplaced == DraftInv /\ draft' = Replaced => DraftShape' /\ ImagesBounded'
<1> SUFFICES ASSUME DraftInv, draft' = Replaced PROVE DraftShape' /\ ImagesBounded'
  OBVIOUS
<1>1. \A p \in draft.posts : [p EXCEPT !.own = FALSE].images = p.images
  BY DEF DraftInv, ImagesBounded
<1>2. \A b \in draft.batches : [b EXCEPT !.own = FALSE].files = b.files
  BY DEF DraftInv, ImagesBounded
<1>3. 0 \in ShownImages
  BY BoardAssumption DEF ShownImages
<1>4. /\ DraftShape' /\ draft'.images = 0
      /\ draft'.posts = {[p EXCEPT !.own = FALSE] : p \in draft.posts}
      /\ draft'.batches = {[b EXCEPT !.own = FALSE] : b \in draft.batches}
  BY DEF Replaced, NewDraft, Orphan, DraftShape
<1>5. \A p \in draft'.posts : DOMAIN p = {"category", "images", "own"} /\ p.images \in ShownImages
  BY <1>1, <1>4 DEF DraftInv, ImagesBounded
<1>6. \A b \in draft'.batches : DOMAIN b = {"no", "own", "files"} /\ b.files \in Nat
  BY <1>2, <1>4 DEF DraftInv, ImagesBounded
<1> QED
  BY <1>3, <1>4, <1>5, <1>6 DEF ImagesBounded

LEMMA PostStored ==
  ASSUME NEW category, NEW images \in ShownImages, DraftInv, board' = create_post(category, images)
  PROVE  BoardShape' /\ PostsKeepTheirImages'
  BY BoardAssumption DEF create_post, ShownImages, DraftInv, BoardShape, PostsKeepTheirImages

LEMMA DraftStep == DraftInv /\ BoardNext => DraftInv'
<1> SUFFICES ASSUME DraftInv, BoardNext PROVE DraftInv'
  OBVIOUS
<1> DEFINE SamePosts == BoardShape' /\ board'.posts = board.posts
<1>1. ASSUME SamePosts PROVE BoardShape' /\ PostsKeepTheirImages'
  BY <1>1 DEF DraftInv, PostsKeepTheirImages
<1>2. UNCHANGED board => SamePosts
  BY DEF DraftInv, BoardShape
<1>3. UNCHANGED draft => DraftShape' /\ ImagesBounded'
  BY DEF DraftInv, DraftShape, ImagesBounded
<1> HIDE DEF SamePosts
<1>4. ASSUME \/ CommunityPage \/ ToggleNewPost
             \/ \E id \in PostIds : CommunityPostPage(id)
      PROVE  DraftInv'
  BY <1>1, <1>2, <1>4, DraftReplaced
     DEF CommunityPage, ToggleNewPost, CommunityPostPage, DraftInv
<1>5. ASSUME NEW files \in {1, BatchSize + 1}, onFile(files) PROVE DraftInv'
  <2> DEFINE b == [no |-> acts, own |-> TRUE,
                   files |-> IF files < BatchSize THEN files ELSE BatchSize]
  <2>1. draft' = [draft EXCEPT !.uploading = TRUE, !.batches = draft.batches \cup {b}]
        /\ UNCHANGED board
    BY <1>5 DEF onFile, Put, DraftInv, DraftShape
  <2>2. DOMAIN b = {"no", "own", "files"} /\ b.files \in Nat
    BY BoardAssumption
  <2> HIDE DEF b
  <2>3. DraftShape' /\ ImagesBounded'
    BY <2>1, <2>2 DEF DraftInv, DraftShape, ImagesBounded
  <2> QED
    BY <1>1, <1>2, <2>1, <2>3 DEF DraftInv
<1>6. ASSUME NEW b \in draft.batches, NEW ok \in BOOLEAN, BatchUploaded(b, ok) PROVE DraftInv'
  <2>1. AddImages(draft.images, b.files) \in ShownImages
    BY BoardAssumption DEF AddImages, ShownImages, DraftInv, ImagesBounded
  <2>2. DraftShape' /\ ImagesBounded'
    BY <1>6, <2>1 DEF BatchUploaded, Drop, DraftInv, DraftShape, ImagesBounded
  <2>3. UNCHANGED board
    BY <1>6 DEF BatchUploaded
  <2> QED
    BY <1>1, <1>2, <2>2, <2>3 DEF DraftInv
<1>7. CASE removeImage
  <2>1. draft.images > 0 /\ draft' = [draft EXCEPT !.images = @ - 1] /\ UNCHANGED board
    BY <1>7 DEF removeImage, NewPostForm
  <2>2. DraftShape' /\ ImagesBounded'
    BY <2>1, BoardAssumption DEF DraftInv, DraftShape, ImagesBounded, ShownImages
  <2> QED
    BY <1>1, <1>2, <2>1, <2>2 DEF DraftInv
<1>8. ASSUME NEW category, writePost(category) PROVE DraftInv'
  <2>1. DraftShape' /\ ImagesBounded' /\ UNCHANGED board
    BY <1>8 DEF writePost, DraftInv, DraftShape, ImagesBounded
  <2> QED
    BY <1>1, <1>2, <2>1 DEF DraftInv
<1>9. CASE submitPost
  <2>1. DraftShape' /\ ImagesBounded' /\ UNCHANGED board
    BY <1>9 DEF submitPost, Put, DraftInv, DraftShape, ImagesBounded
  <2> QED
    BY <1>1, <1>2, <2>1 DEF DraftInv
<1>10. ASSUME NEW p \in draft.posts, PostCreated(p) PROVE DraftInv'
  <2>1. BoardShape' /\ PostsKeepTheirImages'
    BY <1>10, PostStored DEF PostCreated, DraftInv, ImagesBounded
  <2>2. DraftShape' /\ ImagesBounded'
    BY <1>10, BoardAssumption
       DEF PostCreated, NewDraft, DraftShape, ImagesBounded, ShownImages
  <2> QED
    BY <2>1, <2>2 DEF DraftInv
<1>11. ASSUME NEW p \in draft.posts, PostFails(p) PROVE DraftInv'
  <2>1. DraftShape' /\ ImagesBounded' /\ UNCHANGED board
    BY <1>11 DEF PostFails, Drop, DraftInv, DraftShape, ImagesBounded
  <2> QED
    BY <1>1, <1>2, <2>1 DEF DraftInv
<1>12. ASSUME NEW category, PostedElsewhere(category) PROVE DraftInv'
  <2>1. 0 \in ShownImages
    BY BoardAssumption DEF ShownImages
  <2> QED
    BY <1>3, <1>12, <2>1, PostStored DEF PostedElsewhere, DraftInv
<1>13. ASSUME \/ \E filter \in Categories \cup {"all"} : setFilter(filter)
              \/ \E filter \in forum.loads, ok \in BOOLEAN : PostsListed(filter, ok)
              \/ \E id \in thread.loads, ok \in BOOLEAN : PostLoaded(id, ok)
              \/ writeReply \/ submitReply
       PROVE  DraftInv'
  <2>1. UNCHANGED <<board, draft>>
    BY <1>13, Zenon DEF setFilter, PostsListed, PostLoaded, writeReply, submitReply
  <2> QED
    BY <1>1, <1>2, <1>3, <2>1 DEF DraftInv
<1>14. ASSUME \/ ReplyStored \/ ReplyAnswered \/ ReplyFails
              \/ \E id : ReplyCounted(id) \/ RepliedElsewhere(id) \/ ReplyNeverCounted(id)
       PROVE  DraftInv'
  <2>1. SamePosts
    BY <1>14, Zenon
       DEF ReplyStored, ReplyAnswered, ReplyFails, ReplyCounted, RepliedElsewhere,
           ReplyNeverCounted, InsertReply, CountReply, SamePosts, DraftInv, BoardShape
  <2>2. UNCHANGED draft
    BY <1>14 DEF ReplyStored, ReplyAnswered, ReplyFails, ReplyCounted, RepliedElsewhere,
                 ReplyNeverCounted
  <2> QED
    BY <1>1, <1>3, <2>1, <2>2 DEF DraftInv
<1> QED
  BY <1>4, <1>5, <1>6, <1>7, <1>8, <1>9, <1>10, <1>11, <1>12, <1>13, <1>14
     DEF BoardNext, BoardAnswers

\* Neither the form nor a call of it ever holds more images than a post may have.
THEOREM DraftInvariant == ClientsSpec => []DraftInv
<1>1. ClientsInit => DraftInv
  BY BoardAssumption
     DEF ClientsInit, BoardInit, NewDraft, DraftInv, DraftShape, ImagesBounded, ShownImages,
         BoardShape, PostsKeepTheirImages
<1>2. DraftInv /\ UNCHANGED boardVars => DraftInv'
  BY DEF boardVars, DraftInv, DraftShape, ImagesBounded, BoardShape, PostsKeepTheirImages
<1>3. DraftInv /\ [ClientsNext]_clientVars => DraftInv'
  BY <1>2, OneSceneAtATime, DraftStep DEF ScreensStep
<1> QED
  BY <1>1, <1>3, PTL DEF ClientsSpec

\* A post is published with the images that its form showed.
THEOREM ImagesKept == ClientsSpec => []PostsKeepTheirImages
<1>1. DraftInv => PostsKeepTheirImages
  BY DEF DraftInv
<1> QED
  BY <1>1, DraftInvariant, PTL

-----------------------------------------------------------------------------
(* The community board: the counts of replies. *)

ThreadShape == DOMAIN thread = {"id", "post", "loading", "error", "text", "submitting", "loads",
                                "reply"}

Ids == 1 .. MaxPosts

BoardTypeOK ==
    /\ BoardShape
    /\ IsFiniteSet(board.posts) /\ \A p \in board.posts : p.id \in Ids
    /\ board.replies \in [Ids -> Nat] /\ board.counts \in [Ids -> Nat]
    /\ board.uncounted \in [Ids -> Nat]

\* What a reader reads, and answers, is a post.
ReadsPosts ==
    thread.post # None \/ thread.loads # {} \/ thread.reply # None => thread.id \in Ids

\* Every reply is counted, or waits for it, or never will be.
EveryReplyOnce == \A id \in Ids : board.counts[id] + board.uncounted[id] <= board.replies[id]

\* A call that has stored its reply has one to count.
StoredWaits == thread.reply = "stored" => board.uncounted[thread.id] >= 1

CountsInv == BoardTypeOK /\ ThreadShape /\ ReadsPosts /\ EveryReplyOnce /\ StoredWaits

\* The three things that happen to a reply.
LEMMA ReplyInserted ==
  ASSUME CountsInv, NEW id \in Ids, board' = InsertReply(id)
  PROVE  /\ BoardTypeOK' /\ EveryReplyOnce'
         /\ board'.uncounted = [board.uncounted EXCEPT ![id] = @ + 1]
<1>1. /\ board'.posts = board.posts /\ board'.counts = board.counts /\ BoardShape'
      /\ board'.replies = [board.replies EXCEPT ![id] = @ + 1]
      /\ board'.uncounted = [board.uncounted EXCEPT ![id] = @ + 1]
  BY DEF InsertReply, CountsInv, BoardTypeOK, BoardShape
<1> QED
  BY <1>1 DEF CountsInv, BoardTypeOK, EveryReplyOnce

LEMMA ReplyTallied ==
  ASSUME CountsInv, NEW id \in Ids, board' = CountReply(id), board.uncounted[id] >= 1
  PROVE  /\ BoardTypeOK' /\ EveryReplyOnce'
         /\ board'.uncounted = [board.uncounted EXCEPT ![id] = @ - 1]
<1>1. /\ board'.posts = board.posts /\ board'.replies = board.replies /\ BoardShape'
      /\ board'.counts = [board.counts EXCEPT ![id] = @ + 1]
      /\ board'.uncounted = [board.uncounted EXCEPT ![id] = @ - 1]
  BY DEF CountReply, CountsInv, BoardTypeOK, BoardShape
<1> QED
  BY <1>1 DEF CountsInv, BoardTypeOK, EveryReplyOnce

LEMMA ReplyLost ==
  ASSUME CountsInv, NEW id \in Ids, board' = [board EXCEPT !.uncounted[id] = @ - 1],
         board.uncounted[id] >= 1
  PROVE  /\ BoardTypeOK' /\ EveryReplyOnce'
         /\ board'.uncounted = [board.uncounted EXCEPT ![id] = @ - 1]
<1>1. /\ board'.posts = board.posts /\ board'.replies = board.replies /\ BoardShape'
      /\ board'.counts = board.counts
      /\ board'.uncounted = [board.uncounted EXCEPT ![id] = @ - 1]
  BY DEF CountsInv, BoardTypeOK, BoardShape
<1> QED
  BY <1>1 DEF CountsInv, BoardTypeOK, EveryReplyOnce

\* A new post has an id of its own.
LEMMA PostNumbered ==
  ASSUME NEW category, NEW images, CountsInv, board' = create_post(category, images),
         Cardinality(board.posts) < MaxPosts
  PROVE  /\ BoardTypeOK' /\ EveryReplyOnce' /\ board'.uncounted = board.uncounted
         /\ Cardinality(board.posts) + 1 \in Ids
<1> DEFINE new == [id |-> Cardinality(board.posts) + 1, category |-> category, shown |-> images,
                   images |-> IF images < MaxImages THEN images ELSE MaxImages]
<1>1. Cardinality(board.posts) \in Nat
  BY FS_CardinalityType DEF CountsInv, BoardTypeOK
<1>2. Cardinality(board.posts) + 1 \in Ids
  BY <1>1, BoardAssumption DEF Ids
<1>3. /\ board'.posts = board.posts \cup {new} /\ board'.replies = board.replies /\ BoardShape'
      /\ board'.counts = board.counts /\ board'.uncounted = board.uncounted
  BY DEF create_post, CountsInv, BoardTypeOK, BoardShape
<1>4. new.id \in Ids
  BY <1>2
<1> HIDE DEF new
<1>5. IsFiniteSet(board'.posts)
  BY <1>3, FS_AddElement DEF CountsInv, BoardTypeOK
<1> QED
  BY <1>2, <1>3, <1>4, <1>5 DEF CountsInv, BoardTypeOK, EveryReplyOnce

LEMMA CountsStep == CountsInv /\ BoardNext => CountsInv'
<1> SUFFICES ASSUME CountsInv, BoardNext PROVE CountsInv'
  OBVIOUS
<1>1. ASSUME UNCHANGED board PROVE BoardTypeOK' /\ EveryReplyOnce'
  BY <1>1 DEF CountsInv, BoardTypeOK, BoardShape, EveryReplyOnce
<1>2. ASSUME UNCHANGED thread, board'.uncounted = board.uncounted
      PROVE  ThreadShape' /\ ReadsPosts' /\ StoredWaits'
  BY <1>2 DEF CountsInv, ThreadShape, ReadsPosts, StoredWaits
<1>3. ASSUME NEW id \in Ids,
             thread' = [NewThread(id) EXCEPT !.loads = {id}] \/ thread' = NewThread(None)
      PROVE  ThreadShape' /\ ReadsPosts' /\ thread'.reply = None
  BY <1>3 DEF NewThread, ThreadShape, ReadsPosts
<1>4. thread' = NewThread(None) => ThreadShape' /\ ReadsPosts' /\ thread'.reply = None
  BY DEF NewThread, ThreadShape, ReadsPosts
<1>5. ASSUME thread'.reply = None PROVE StoredWaits'
  BY <1>5, BoardAssumption DEF StoredWaits
<1>6. CASE CommunityPage
  BY <1>1, <1>4, <1>5, <1>6 DEF CommunityPage, CountsInv
<1>7. ASSUME NEW id \in PostIds, CommunityPostPage(id) PROVE CountsInv'
  <2>1. id \in Ids
    BY <1>7 DEF PostIds, CountsInv, BoardTypeOK
  <2> QED
    BY <1>1, <1>3, <1>5, <1>7, <2>1 DEF CommunityPostPage, CountsInv
<1>8. ASSUME NEW p \in draft.posts, PostCreated(p) PROVE CountsInv'
  <2> DEFINE id == Cardinality(board.posts) + 1
  <2>1. BoardTypeOK' /\ EveryReplyOnce' /\ id \in Ids
    BY <1>8, PostNumbered DEF PostCreated
  <2>2. thread' = [NewThread(id) EXCEPT !.loads = {id}]
    BY <1>8 DEF PostCreated
  <2> HIDE DEF id
  <2> QED
    BY <1>3, <1>5, <2>1, <2>2 DEF CountsInv
<1>9. ASSUME NEW category, PostedElsewhere(category) PROVE CountsInv'
  BY <1>2, <1>9, PostNumbered DEF PostedElsewhere, CountsInv
<1>10. ASSUME NEW id \in thread.loads, NEW ok \in BOOLEAN, PostLoaded(id, ok) PROVE CountsInv'
  <2>1. ThreadShape' /\ ReadsPosts' /\ StoredWaits'
    BY <1>10 DEF PostLoaded, Drop, CountsInv, ThreadShape, ReadsPosts, StoredWaits
  <2> QED
    BY <1>1, <1>10, <2>1 DEF PostLoaded, CountsInv
<1>11. CASE writeReply \/ submitReply
  <2>1. thread.post # None /\ UNCHANGED board
    BY <1>11 DEF writeReply, submitReply, ReplyForm
  <2>2. /\ ThreadShape' /\ thread'.id = thread.id
        /\ thread'.reply = thread.reply \/ thread'.reply = "sent"
    BY <1>11 DEF writeReply, submitReply, CountsInv, ThreadShape
  <2> QED
    BY <1>1, <2>1, <2>2 DEF CountsInv, ReadsPosts, StoredWaits
<1>12. CASE ReplyStored
  <2>1. thread.id \in Ids
    BY <1>12, BoardAssumption DEF ReplyStored, CountsInv, ReadsPosts
  <2>2. /\ BoardTypeOK' /\ EveryReplyOnce'
        /\ board'.uncounted = [board.uncounted EXCEPT ![thread.id] = @ + 1]
    BY <1>12, <2>1, ReplyInserted DEF ReplyStored
  <2>3. ThreadShape' /\ thread'.id = thread.id
    BY <1>12 DEF ReplyStored, CountsInv, ThreadShape
  <2>4. board'.uncounted[thread.id] >= 1
    BY <2>1, <2>2 DEF CountsInv, BoardTypeOK
  <2> QED
    BY <2>1, <2>2, <2>3, <2>4 DEF CountsInv, ReadsPosts, StoredWaits
<1>13. CASE ReplyAnswered
  <2>1. thread.id \in Ids /\ board.uncounted[thread.id] >= 1
    BY <1>13, BoardAssumption DEF ReplyAnswered, CountsInv, ReadsPosts, StoredWaits
  <2>2. BoardTypeOK' /\ EveryReplyOnce'
    BY <1>13, <2>1, ReplyTallied DEF ReplyAnswered
  <2>3. ThreadShape' /\ thread'.id = thread.id /\ thread'.reply = None
    BY <1>13 DEF ReplyAnswered, CountsInv, ThreadShape
  <2> QED
    BY <1>5, <2>1, <2>2, <2>3 DEF CountsInv, ReadsPosts
<1>14. CASE ReplyFails
  <2>1. thread.id \in Ids
    BY <1>14 DEF ReplyFails, CountsInv, ReadsPosts
  <2>2. BoardTypeOK' /\ EveryReplyOnce'
    <3>1. CASE thread.reply = "stored"
      <4>1. board.uncounted[thread.id] >= 1
        BY <3>1 DEF CountsInv, StoredWaits
      <4> QED
        BY <1>14, <2>1, <3>1, <4>1, ReplyLost DEF ReplyFails
    <3>2. CASE thread.reply # "stored"
      BY <1>1, <1>14, <3>2 DEF ReplyFails
    <3> QED
      BY <3>1, <3>2
  <2>3. ThreadShape' /\ thread'.id = thread.id /\ thread'.reply = None
    BY <1>14 DEF ReplyFails, CountsInv, ThreadShape
  <2> QED
    BY <1>5, <2>1, <2>2, <2>3 DEF CountsInv, ReadsPosts
<1>15. ASSUME NEW id \in PostIds, RepliedElsewhere(id) PROVE CountsInv'
  <2>1. id \in Ids /\ UNCHANGED thread
    BY <1>15 DEF PostIds, CountsInv, BoardTypeOK, RepliedElsewhere
  <2>2. /\ BoardTypeOK' /\ EveryReplyOnce'
        /\ board'.uncounted = [board.uncounted EXCEPT ![id] = @ + 1]
    BY <1>15, <2>1, ReplyInserted DEF RepliedElsewhere
  <2>3. StoredWaits'
    BY <2>1, <2>2, BoardAssumption DEF CountsInv, BoardTypeOK, StoredWaits, ReadsPosts
  <2> QED
    BY <2>1, <2>2, <2>3 DEF CountsInv, ThreadShape, ReadsPosts
<1>16. ASSUME NEW id \in Ids, ReplyCounted(id) \/ ReplyNeverCounted(id) PROVE CountsInv'
  <2>1. OthersUncounted(id) > 0 /\ UNCHANGED thread
    BY <1>16 DEF ReplyCounted, ReplyNeverCounted
  <2>2. /\ board.uncounted[id] >= 1
        /\ thread.reply = "stored" /\ thread.id = id => board.uncounted[id] >= 2
    BY <2>1 DEF OthersUncounted, CountsInv, BoardTypeOK
  <2>3. /\ BoardTypeOK' /\ EveryReplyOnce'
        /\ board'.uncounted = [board.uncounted EXCEPT ![id] = @ - 1]
    BY <1>16, <2>2, ReplyTallied, ReplyLost DEF ReplyCounted, ReplyNeverCounted
  <2>4. StoredWaits'
    BY <2>1, <2>2, <2>3, BoardAssumption DEF CountsInv, BoardTypeOK, StoredWaits, ReadsPosts
  <2> QED
    BY <2>1, <2>3, <2>4 DEF CountsInv, ThreadShape, ReadsPosts
<1>17. ASSUME \/ \E filter \in Categories \cup {"all"} : setFilter(filter)
              \/ \E filter \in forum.loads, ok \in BOOLEAN : PostsListed(filter, ok)
              \/ ToggleNewPost
              \/ \E files \in {1, BatchSize + 1} : onFile(files)
              \/ \E b \in draft.batches, ok \in BOOLEAN : BatchUploaded(b, ok)
              \/ removeImage
              \/ \E category \in Categories : writePost(category)
              \/ submitPost
              \/ \E p \in draft.posts : PostFails(p)
       PROVE  CountsInv'
  <2>1. UNCHANGED <<board, thread>>
    BY <1>17, Zenon
       DEF setFilter, PostsListed, ToggleNewPost, onFile, BatchUploaded, removeImage,
           writePost, submitPost, PostFails
  <2> QED
    BY <1>1, <1>2, <2>1 DEF CountsInv
<1> QED
  BY <1>6, <1>7, <1>8, <1>9, <1>10, <1>11, <1>12, <1>13, <1>14, <1>15, <1>16, <1>17
     DEF BoardNext, BoardAnswers, Ids

\* Every reply is counted at most once, and a call that has stored one counts it.
THEOREM CountsInvariant == ClientsSpec => []CountsInv
<1>1. ClientsInit => CountsInv
  BY BoardAssumption, FS_EmptySet
     DEF ClientsInit, BoardInit, NewThread, CountsInv, BoardTypeOK, BoardShape, ThreadShape,
         ReadsPosts, EveryReplyOnce, StoredWaits, Ids
<1>2. CountsInv /\ UNCHANGED boardVars => CountsInv'
  BY DEF boardVars, CountsInv, BoardTypeOK, BoardShape, ThreadShape, ReadsPosts,
         EveryReplyOnce, StoredWaits
<1>3. CountsInv /\ [ClientsNext]_clientVars => CountsInv'
  BY <1>2, OneSceneAtATime, CountsStep DEF ScreensStep
<1> QED
  BY <1>1, <1>3, PTL DEF ClientsSpec

\* The reply count of a post never promises a reply that is not there.
THEOREM CountsExist == ClientsSpec => []CountedRepliesExist
<1>1. CountsInv => CountedRepliesExist
  <2>1. CountsInv => \A id \in Ids : board.counts[id] <= board.replies[id]
    BY DEF CountsInv, BoardTypeOK, EveryReplyOnce
  <2> QED
    BY <2>1 DEF CountedRepliesExist, Ids
<1> QED
  BY <1>1, CountsInvariant, PTL

-----------------------------------------------------------------------------
(* The edition of the account, and the fleet page. *)

ShellShape == DOMAIN shell = {"page", "account", "requested", "env", "plan", "edition",
                              "editionAsked"}

Editions == {"oss", "managed"}
Envs == {"self_hosted", "managed", None}

\* The edition is managed only for a reason.
EditionHasReason ==
    /\ shell.env \in Envs /\ shell.edition \in Editions
    /\ shell.edition = "managed" =>
          shell.env = "managed" \/ (shell.env = None /\ shell.plan \in ManagedPlans)
    /\ shell.editionAsked => shell.env = None

EditionInv == ShellShape /\ EditionHasReason

LEMMA EditionMounted ==
  ASSUME NEW s, NEW signedIn, NEW t, t = EditionMounts(s, signedIn),
         DOMAIN s = {"page", "account", "requested", "env", "plan", "edition", "editionAsked"},
         s.env \in Envs
  PROVE  /\ DOMAIN t = DOMAIN s
         /\ t.env \in Envs /\ t.edition \in Editions
         /\ t.edition = "managed" => t.env = "managed"
         /\ t.editionAsked => t.env = None
<1>1. CASE s.env = "self_hosted"
  BY <1>1, StoreAssumption DEF EditionMounts, Envs, Editions
<1>2. CASE s.env = "managed"
  BY <1>2, StoreAssumption DEF EditionMounts, Envs, Editions
<1>3. CASE s.env = None
  BY <1>3, StoreAssumption DEF EditionMounts, Envs, Editions
<1> QED
  BY <1>1, <1>2, <1>3 DEF Envs

LEMMA EditionStep == EditionInv /\ StoreNext => EditionInv'
<1> SUFFICES ASSUME EditionInv, StoreNext PROVE EditionInv'
  OBVIOUS
<1>1. ASSUME ShellShape', shell'.env = shell.env, shell'.plan = shell.plan,
             shell'.edition = shell.edition, shell'.editionAsked = shell.editionAsked
      PROVE  EditionInv'
  BY <1>1 DEF EditionInv, EditionHasReason
<1>2. UNCHANGED shell => EditionInv'
  BY DEF EditionInv, ShellShape, EditionHasReason
<1>3. ASSUME NEW env \in {"self_hosted", "managed", None}, NEW plan, DashboardOpens(env, plan)
      PROVE  EditionInv'
  <2>1. PICK account \in Accounts :
           shell' = EditionMounts([shell EXCEPT !.page = "activity", !.account = account,
                                                !.env = env, !.plan = plan], token)
    BY <1>3, Zenon DEF DashboardOpens
  <2> DEFINE s == [shell EXCEPT !.page = "activity", !.account = account, !.env = env,
                                !.plan = plan]
  <2>2. /\ DOMAIN s = {"page", "account", "requested", "env", "plan", "edition", "editionAsked"}
        /\ s.env \in Envs
    BY DEF EditionInv, ShellShape, Envs
  <2>3. shell' = EditionMounts(s, token)
    BY <2>1
  <2> HIDE DEF s
  <2> QED
    BY <2>2, <2>3, EditionMounted DEF EditionInv, ShellShape, EditionHasReason
<1>4. ASSUME NEW account \in Accounts, SignInAs(account) PROVE EditionInv'
  <2> DEFINE s == [shell EXCEPT !.page = "activity", !.account = account]
  <2>1. /\ DOMAIN s = {"page", "account", "requested", "env", "plan", "edition", "editionAsked"}
        /\ s.env \in Envs
    BY DEF EditionInv, ShellShape, EditionHasReason
  <2>2. shell' = EditionMounts(s, TRUE)
    BY <1>4 DEF SignInAs
  <2> HIDE DEF s
  <2>3. /\ DOMAIN shell' = DOMAIN s
        /\ shell'.env \in Envs /\ shell'.edition \in Editions
        /\ shell'.edition = "managed" => shell'.env = "managed"
        /\ shell'.editionAsked => shell'.env = None
    BY <2>1, <2>2, EditionMounted
  <2> QED
    BY <2>1, <2>3 DEF EditionInv, ShellShape, EditionHasReason
<1>5. ASSUME NEW ok \in BOOLEAN, EditionAnswer(ok) PROVE EditionInv'
  BY <1>5 DEF EditionAnswer, EditionInv, ShellShape, EditionHasReason, Editions
<1>6. ASSUME \/ PinAgent
             \/ \E a \in Agents : selectAgent(a)
             \/ \E page \in {"activity", "fleet"} : GoToTab(page)
             \/ RedirectOss
             \/ signOut
      PROVE  EditionInv'
  <2>1. /\ ShellShape' /\ shell'.env = shell.env /\ shell'.plan = shell.plan
        /\ shell'.edition = shell.edition /\ shell'.editionAsked = shell.editionAsked
    BY <1>6 DEF PinAgent, selectAgent, GoToTab, RedirectOss, signOut, EditionInv, ShellShape
  <2> QED
    BY <1>1, <2>1
<1>7. ASSUME \/ AgentCreated
             \/ \E a \in Agents : \/ AgentDeleted(a) \/ submitAgent(a) \/ handleDelete(a)
                                 \/ DeleteFails(a) \/ AgentAppears(a)
             \/ \E f \in store.flights : AgentsAnswer(f) \/ AgentsFail(f)
             \/ AgentsPoll \/ ToggleForm \/ CreateFails \/ DismissKey
      PROVE  UNCHANGED shell
  BY <1>7, Zenon
     DEF AgentCreated, AgentDeleted, submitAgent, handleDelete, DeleteFails, AgentAppears,
         AgentsAnswer, AgentsFail, AgentsPoll, ToggleForm, CreateFails, DismissKey
<1> QED
  BY <1>2, <1>3, <1>4, <1>5, <1>6, <1>7 DEF StoreNext, StoreAnswers, FleetAnswers

\* The fleet page shows only where the build or the plan of the account says managed.
THEOREM FleetNeedsPlan == ClientsSpec => []FleetIsManaged
<1>1. ClientsInit => EditionInv
  BY DEF ClientsInit, StoreInit, EditionInv, ShellShape, EditionHasReason, Envs, Editions
<1>2. EditionInv /\ UNCHANGED storeVars => EditionInv'
  BY DEF storeVars, EditionInv, ShellShape, EditionHasReason
<1>3. EditionInv /\ [ClientsNext]_clientVars => EditionInv'
  BY <1>2, OneSceneAtATime, EditionStep DEF ScreensStep
<1>4. EditionInv => FleetIsManaged
  BY DEF EditionInv, EditionHasReason, Editions, FleetIsManaged, FleetScreen
<1> QED
  BY <1>1, <1>3, <1>4, PTL DEF ClientsSpec

-----------------------------------------------------------------------------
(* The result of an agent and a range. *)

ReportFields == {"page", "agent", "period", "custom", "range", "regenerated", "data", "loading",
                 "refreshing", "error", "flights"}
FlightFields == {"agent", "range", "live", "refresh"}

IsReport(s) ==
    DOMAIN s = ReportFields /\ \A f \in s.flights : DOMAIN f = FlightFields

\* What is asked for and still wanted is of the agent and range on screen.
LiveIsCurrent(s) == \A f \in s.flights : f.live => f.agent = s.agent /\ f.range = s.range

\* A page of a range shows a result only of its own inputs, or says it is renewing it.
Fits(s) == s.data.agent = s.agent /\ s.data.range = s.range
Renewing(s) == s.loading \/ s.refreshing \/ s.error
Unsettled(s) == s.data # None => s.loading \/ s.refreshing
ResultIsCurrent(s) ==
    s.page \notin {None, "behavior"} /\ s.data # None /\ ~Renewing(s) => Fits(s)

ReportInv ==
    /\ IsReport(report) /\ report.page \in Pages \cup {None}
    /\ LiveIsCurrent(report)
    /\ scene # "report" => report.page = None
    /\ report.page = None => report.custom = None /\ report.flights = {}
    /\ token => ResultIsCurrent(report)

Asking(s, t) ==
    \E loading, refreshing, error :
       t = [s EXCEPT !.loading = loading, !.refreshing = refreshing, !.error = error,
                     !.flights = Ask(s)]

\* An effect leaves no live request but its own.
LEMMA Asked ==
  ASSUME NEW s, IsReport(s), NEW t,
         Asking(s, t)
  PROVE  /\ IsReport(t) /\ LiveIsCurrent(t)
         /\ t.agent = s.agent /\ t.range = s.range /\ t.page = s.page /\ t.data = s.data
<1>1. \A f \in s.flights : LET g == [f EXCEPT !.live = FALSE]
                           IN  DOMAIN g = FlightFields /\ ~g.live
  BY DEF IsReport, FlightFields
<1>2. \A g \in Ask(s) : \/ DOMAIN g = FlightFields /\ ~g.live
                        \/ /\ DOMAIN g = FlightFields
                           /\ g.agent = s.agent /\ g.range = s.range
  <2>1. LET g == [agent |-> s.agent, range |-> s.range, live |-> TRUE,
                  refresh |-> s.page = "suggestions" /\ s.regenerated]
        IN  DOMAIN g = FlightFields /\ g.agent = s.agent /\ g.range = s.range
    BY DEF FlightFields
  <2> QED
    BY <1>1, <2>1 DEF Ask, Put
<1>3. /\ DOMAIN t = ReportFields /\ t.flights = Ask(s)
      /\ t.agent = s.agent /\ t.range = s.range /\ t.page = s.page /\ t.data = s.data
  BY DEF Asking, IsReport, ReportFields
<1> QED
  BY <1>2, <1>3 DEF IsReport, LiveIsCurrent

LEMMA Cancels ==
  ASSUME NEW s, IsReport(s)
  PROVE  LET t == Cancel(s)
         IN  /\ IsReport(t) /\ LiveIsCurrent(t) /\ \A f \in t.flights : ~f.live
             /\ t.agent = s.agent /\ t.range = s.range /\ t.page = s.page /\ t.data = s.data
<1> DEFINE t == Cancel(s)
<1>1. \A f \in s.flights : LET g == [f EXCEPT !.live = FALSE]
                           IN  DOMAIN g = FlightFields /\ ~g.live
  BY DEF IsReport, FlightFields
<1>2. /\ DOMAIN t = ReportFields /\ t.flights = {[f EXCEPT !.live = FALSE] : f \in s.flights}
      /\ t.agent = s.agent /\ t.range = s.range /\ t.page = s.page /\ t.data = s.data
  BY DEF Cancel, IsReport, ReportFields
<1> QED
  BY <1>1, <1>2 DEF IsReport, LiveIsCurrent

LEMMA EffectAsks ==
  ASSUME NEW s, IsReport(s), s.page \in Pages
  PROVE  LET t == Effect(s)
         IN  /\ IsReport(t) /\ LiveIsCurrent(t)
             /\ t.agent = s.agent /\ t.range = s.range /\ t.page = s.page
             /\ token /\ s.page # "behavior" => Unsettled(t)
<1> DEFINE Asks(t) == /\ IsReport(t) /\ LiveIsCurrent(t)
                      /\ t.agent = s.agent /\ t.range = s.range /\ t.page = s.page
<1>1. Asks(Nothing(s)) /\ Unsettled(Nothing(s))
  <2> DEFINE c == Cancel(s)
  <2>1. IsReport(c) /\ (\A f \in c.flights : ~f.live)
        /\ c.agent = s.agent /\ c.range = s.range /\ c.page = s.page
    BY Cancels
  <2>2. Nothing(s) = [c EXCEPT !.data = None, !.loading = FALSE]
    BY DEF Nothing
  <2> HIDE DEF c
  <2> QED
    BY <2>1, <2>2 DEF IsReport, ReportFields, LiveIsCurrent, Unsettled
<1>2. Asks(Cancel(s))
  BY Cancels
<1>3. Asks([Cancel(s) EXCEPT !.loading = FALSE])
  <2> DEFINE c == Cancel(s)
  <2>1. IsReport(c) /\ (\A f \in c.flights : ~f.live)
        /\ c.agent = s.agent /\ c.range = s.range /\ c.page = s.page
    BY Cancels
  <2> HIDE DEF c
  <2>2. Asks([c EXCEPT !.loading = FALSE])
    BY <2>1 DEF IsReport, ReportFields, LiveIsCurrent
  <2> QED
    BY <2>2 DEF c
<1>4. Asks(Load(s)) /\ Unsettled(Load(s))
  <2>1. CASE s.regenerated /\ s.data # None
    <3> DEFINE t == [s EXCEPT !.refreshing = TRUE, !.error = FALSE, !.flights = Ask(s)]
    <3>1. t = [s EXCEPT !.loading = s.loading, !.refreshing = TRUE, !.error = FALSE,
                        !.flights = Ask(s)]
      BY DEF IsReport, ReportFields
    <3>2. t.refreshing /\ Load(s) = t
      BY <2>1 DEF IsReport, ReportFields, Load
    <3> HIDE DEF t
    <3>3. Asking(s, t)
      BY <3>1, Zenon DEF Asking
    <3> QED
      BY <3>2, <3>3, Asked DEF Unsettled
  <2>2. CASE ~(s.regenerated /\ s.data # None)
    <3> DEFINE t == [s EXCEPT !.loading = TRUE, !.error = FALSE, !.flights = Ask(s)]
    <3>1. t = [s EXCEPT !.loading = TRUE, !.refreshing = s.refreshing, !.error = FALSE,
                        !.flights = Ask(s)]
      BY DEF IsReport, ReportFields
    <3>2. t.loading /\ Load(s) = t
      BY <2>2 DEF IsReport, ReportFields, Load
    <3> HIDE DEF t
    <3>3. Asking(s, t)
      BY <3>1, Zenon DEF Asking
    <3> QED
      BY <3>2, <3>3, Asked DEF Unsettled
  <2> QED
    BY <2>1, <2>2
<1>5. Asks([s EXCEPT !.loading = TRUE, !.error = FALSE, !.flights = Ask(s)])
  <2>1. [s EXCEPT !.loading = TRUE, !.error = FALSE, !.flights = Ask(s)]
          = [s EXCEPT !.loading = TRUE, !.refreshing = s.refreshing, !.error = FALSE,
                      !.flights = Ask(s)]
    BY DEF IsReport, ReportFields
  <2>2. Asking(s, [s EXCEPT !.loading = TRUE, !.error = FALSE, !.flights = Ask(s)])
    BY <2>1, Zenon DEF Asking
  <2> QED
    BY <2>2, Asked
<1> HIDE DEF Asks
<1>6. CASE s.page \in {"report", "suggestions"}
  <2>1. Effect(s) = CASE s.agent = None \/ s.range = None -> Nothing(s)
                      [] s.agent # None /\ s.range # None /\ ~token -> Cancel(s)
                      [] OTHER -> Load(s)
    BY <1>6 DEF Effect, useAgentReport, useAgentSuggestions
  <2>2. \/ Effect(s) = Nothing(s) \/ Effect(s) = Load(s)
        \/ ~token /\ Effect(s) = Cancel(s)
    BY <2>1
  <2> QED
    BY <1>1, <1>2, <1>4, <2>2 DEF Asks
<1>7. CASE s.page \in {"usage", "optimization"}
  <2>1. Effect(s) = CASE s.agent = None \/ s.range = None -> Nothing(s)
                      [] s.agent # None /\ s.range # None /\ ~token ->
                           [Cancel(s) EXCEPT !.loading = FALSE]
                      [] OTHER -> Load(s)
    BY <1>7 DEF Effect, useAgentTokenUsage, useAgentTokenOptimization
  <2>2. \/ Effect(s) = Nothing(s) \/ Effect(s) = Load(s)
        \/ ~token /\ Effect(s) = [Cancel(s) EXCEPT !.loading = FALSE]
    BY <2>1
  <2> QED
    BY <1>1, <1>3, <1>4, <2>2 DEF Asks
<1>8. CASE s.page = "behavior"
  <2>1. Effect(s) = CASE s.agent = None -> Nothing(s)
                      [] s.agent # None /\ ~token -> Cancel(s)
                      [] OTHER -> [s EXCEPT !.loading = TRUE, !.error = FALSE,
                                            !.flights = Ask(s)]
    BY <1>8 DEF Effect, useAgentBehavior
  <2>2. \/ Effect(s) = Nothing(s) \/ Effect(s) = Cancel(s)
        \/ Effect(s) = [s EXCEPT !.loading = TRUE, !.error = FALSE, !.flights = Ask(s)]
    BY <2>1
  <2> QED
    BY <1>1, <1>2, <1>5, <1>8, <2>2 DEF Asks
<1> QED
  BY <1>6, <1>7, <1>8 DEF Pages

\* What holds of the state a hook is left with.
LeftWith(s) ==
    /\ IsReport(s) /\ s.page \in Pages /\ LiveIsCurrent(s)
    /\ token => ResultIsCurrent(s)

LEMMA EffectLeaves ==
  ASSUME NEW s, IsReport(s), s.page \in Pages
  PROVE  LeftWith(Effect(s))
<1>1. Unsettled(Effect(s)) => ResultIsCurrent(Effect(s))
  BY DEF Unsettled, ResultIsCurrent, Renewing
<1>2. s.page = "behavior" => ResultIsCurrent(Effect(s))
  BY EffectAsks DEF ResultIsCurrent
<1> QED
  BY <1>1, <1>2, EffectAsks DEF LeftWith

LEMMA RerunLeaves ==
  ASSUME NEW s, IsReport(s), s.page = report.page, report.page \in Pages, ReportInv,
         s.flights = report.flights, s.data = report.data, s.loading = report.loading,
         s.refreshing = report.refreshing, s.error = report.error
  PROVE  LeftWith(Rerun(s))
<1>1. CASE s.agent = report.agent /\ s.range = report.range
  BY <1>1 DEF Rerun, LeftWith, ReportInv, LiveIsCurrent, ResultIsCurrent, Renewing, Fits
<1>2. CASE ~(s.agent = report.agent /\ s.range = report.range)
  <2>1. Rerun(s) = Effect(s)
    BY <1>2 DEF Rerun
  <2> QED
    BY <2>1, EffectLeaves
<1> QED
  BY <1>1, <1>2

LEMMA ReportStep == ReportInv /\ ReportNext => LeftWith(report)'
<1> SUFFICES ASSUME ReportInv, ReportNext PROVE LeftWith(report)'
  OBVIOUS
<1>1. ASSUME NEW r, report' = r, LeftWith(r), token' = token PROVE LeftWith(report)'
  BY <1>1 DEF LeftWith
<1>2. token' = token
  BY Zenon DEF ReportNext, ReportAnswers, ReportOpens, ReportAgentChanges, onPeriodChange,
         onCustomChange, onGenerateCustom, refetch, ReportAnswer, ReportFails, Acts, Quiet,
         browserVars
<1>3. IsReport(report)
  BY DEF ReportInv
<1>4. ASSUME NEW page \in Pages, NEW period, NEW custom, ReportOpens(page, period, custom)
      PROVE  LeftWith(report)'
  <2> DEFINE s == [report EXCEPT !.page = page, !.period = period, !.custom = custom,
                     !.range = IF period = "custom" THEN custom ELSE period]
  <2>1. report' = Effect(s)
    BY <1>4 DEF ReportOpens
  <2>2. IsReport(s) /\ s.page \in Pages
    BY <1>3 DEF IsReport, ReportFields
  <2> HIDE DEF s
  <2> QED
    BY <1>1, <1>2, <2>1, <2>2, EffectLeaves
<1>5. ASSUME NEW a, ReportAgentChanges(a) PROVE LeftWith(report)'
  <2> DEFINE s == [report EXCEPT !.agent = a]
  <2>1. report' = Effect(s)
    BY <1>5 DEF ReportAgentChanges
  <2>2. IsReport(s) /\ s.page \in Pages
    BY <1>3, <1>5 DEF IsReport, ReportFields, ReportAgentChanges, ReportInv
  <2> HIDE DEF s
  <2> QED
    BY <1>1, <1>2, <2>1, <2>2, EffectLeaves
<1>6. ASSUME NEW p, onPeriodChange(p) PROVE LeftWith(report)'
  <2>1. PICK range : report' = Rerun([report EXCEPT !.period = p, !.range = range])
    BY <1>6, Zenon DEF onPeriodChange
  <2> DEFINE s == [report EXCEPT !.period = p, !.range = range]
  <2>2. IsReport(s) /\ s.page = report.page /\ report.page \in Pages
        /\ s.flights = report.flights /\ s.data = report.data /\ s.loading = report.loading
        /\ s.refreshing = report.refreshing /\ s.error = report.error
    BY <1>3, <1>6 DEF IsReport, ReportFields, onPeriodChange, ReportInv
  <2>3. report' = Rerun(s)
    BY <2>1
  <2> HIDE DEF s
  <2> QED
    BY <1>1, <1>2, <2>2, <2>3, RerunLeaves
<1>7. ASSUME NEW c, onCustomChange(c) PROVE LeftWith(report)'
  <2>1. /\ IsReport(report') /\ report'.page = report.page /\ report.page \in Pages
        /\ report'.flights = report.flights /\ report'.data = report.data
        /\ report'.loading = report.loading /\ report'.refreshing = report.refreshing
        /\ report'.error = report.error
        /\ report'.agent = report.agent /\ report'.range = report.range
    BY <1>3, <1>7 DEF IsReport, ReportFields, onCustomChange, ReportInv
  <2> QED
    BY <1>2, <2>1 DEF LeftWith, ReportInv, LiveIsCurrent, ResultIsCurrent, Renewing, Fits
<1>8. CASE onGenerateCustom
  <2> DEFINE s == [report EXCEPT !.range = report.custom]
  <2>1. report' = Rerun(s)
    BY <1>8 DEF onGenerateCustom
  <2>2. report.page \in Pages
    BY <1>8 DEF onGenerateCustom, ReportInv
  <2>3. IsReport(s) /\ s.page = report.page
        /\ s.flights = report.flights /\ s.data = report.data /\ s.loading = report.loading
        /\ s.refreshing = report.refreshing /\ s.error = report.error
    BY <1>3 DEF IsReport, ReportFields
  <2> HIDE DEF s
  <2> QED
    BY <1>1, <1>2, <2>1, <2>2, <2>3, RerunLeaves
<1>9. CASE refetch
  <2> DEFINE s == [report EXCEPT !.regenerated = TRUE]
  <2>1. report' = Effect(s)
    BY <1>9 DEF refetch
  <2>2. report.page \in Pages
    BY <1>9 DEF refetch, ReportToolbar, SuggestionsToolbar, DriftHeadline, Pages
  <2>3. IsReport(s) /\ s.page = report.page
    BY <1>3 DEF IsReport, ReportFields
  <2> HIDE DEF s
  <2> QED
    BY <1>1, <1>2, <2>1, <2>2, <2>3, EffectLeaves
<1>10. ASSUME NEW f \in report.flights, NEW ok \in BOOLEAN, ReportAnswer(f, ok)
       PROVE  LeftWith(report)'
  <2> DEFINE s == [report EXCEPT !.flights = Drop(@, f)]
             t == [s EXCEPT !.data = [agent |-> f.agent, range |-> f.range, ok |-> ok],
                            !.loading = FALSE, !.refreshing = FALSE]
  <2>1. report.page \in Pages
    BY DEF ReportInv
  <2>2. /\ IsReport(s) /\ s.flights \subseteq report.flights
        /\ \A k \in ReportFields \ {"flights"} : s[k] = report[k]
    BY <1>3 DEF IsReport, ReportFields, Drop
  <2>3. CASE ~f.live
    <3>1. report' = s
      BY <1>10, <2>3 DEF ReportAnswer
    <3> HIDE DEF s
    <3> QED
      BY <1>1, <1>2, <2>1, <2>2, <3>1
         DEF LeftWith, ReportInv, LiveIsCurrent, ResultIsCurrent, Renewing, Fits, ReportFields
  <2>4. CASE f.live
    <3>1. report' = t
      BY <1>10, <2>4 DEF ReportAnswer
    <3>2. f.agent = report.agent /\ f.range = report.range
      BY <2>4 DEF ReportInv, LiveIsCurrent
    <3>3. /\ IsReport(t) /\ t.flights \subseteq report.flights
          /\ t.agent = report.agent /\ t.range = report.range /\ t.page = report.page
          /\ t.data.agent = f.agent /\ t.data.range = f.range
      BY <1>3 DEF IsReport, ReportFields, Drop
    <3> HIDE DEF t
    <3> QED
      BY <1>1, <1>2, <2>1, <3>1, <3>2, <3>3
         DEF LeftWith, ReportInv, LiveIsCurrent, ResultIsCurrent, Fits
  <2> QED
    BY <2>3, <2>4
<1>11. ASSUME NEW f \in report.flights, ReportFails(f) PROVE LeftWith(report)'
  <2> DEFINE s == [report EXCEPT !.flights = Drop(@, f)]
             t == [s EXCEPT !.error = TRUE, !.loading = FALSE, !.refreshing = FALSE,
                            !.data = IF report.page = "behavior" THEN None ELSE @]
  <2>1. report.page \in Pages
    BY DEF ReportInv
  <2>2. /\ IsReport(s) /\ s.flights \subseteq report.flights
        /\ \A k \in ReportFields \ {"flights"} : s[k] = report[k]
    BY <1>3 DEF IsReport, ReportFields, Drop
  <2>3. CASE ~f.live
    <3>1. report' = s
      BY <1>11, <2>3 DEF ReportFails
    <3> HIDE DEF s
    <3> QED
      BY <1>1, <1>2, <2>1, <2>2, <3>1
         DEF LeftWith, ReportInv, LiveIsCurrent, ResultIsCurrent, Renewing, Fits, ReportFields
  <2>4. CASE f.live
    <3>1. report' = t
      BY <1>11, <2>4 DEF ReportFails
    <3>2. /\ IsReport(t) /\ t.flights \subseteq report.flights
          /\ t.agent = report.agent /\ t.range = report.range /\ t.page = report.page
          /\ t.error
      BY <1>3 DEF IsReport, ReportFields, Drop
    <3> HIDE DEF t
    <3> QED
      BY <1>1, <1>2, <2>1, <3>1, <3>2
         DEF LeftWith, ReportInv, LiveIsCurrent, ResultIsCurrent, Renewing
  <2> QED
    BY <2>3, <2>4
<1> QED
  BY <1>4, <1>5, <1>6, <1>7, <1>8, <1>9, <1>10, <1>11 DEF ReportNext, ReportAnswers

\* Only in its own scene is a page of a range open, and there the session can only end.
LEMMA ReportSceneStep ==
  [ClientsNext]_clientVars =>
    \/ scene = "report" /\ scene' = scene /\ ReportNext
    \/ scene' = scene /\ UNCHANGED report /\ (scene = "report" => token' = token \/ ~token')
<1>1. ASSUME ClientsNext
      PROVE  \/ scene = "report" /\ scene' = scene /\ ReportNext
             \/ /\ scene' = scene /\ UNCHANGED report
                /\ scene = "report" => token' = token \/ ~token'
  BY <1>1 DEF ClientsNext, Others, Scenes, SwitchTab, SignOutElsewhere, Quiet, browserVars
<1>2. UNCHANGED clientVars => scene' = scene /\ UNCHANGED report /\ token' = token
  BY DEF clientVars, browserVars
<1> QED
  BY <1>1, <1>2

THEOREM ReportInvariant == ClientsSpec => []ReportInv
<1>1. ClientsInit => ReportInv
  BY DEF ClientsInit, ReportInit, ReportInv, IsReport, ReportFields, LiveIsCurrent,
         ResultIsCurrent
<1>2. ReportInv /\ [ClientsNext]_clientVars => ReportInv'
  <2> SUFFICES ASSUME ReportInv, [ClientsNext]_clientVars PROVE ReportInv'
    OBVIOUS
  <2>1. CASE scene = "report" /\ scene' = scene /\ ReportNext
    <3>1. LeftWith(report)'
      BY <2>1, ReportStep
    <3>2. report'.page # None
      BY <3>1, ReportAssumption DEF LeftWith
    <3> QED
      BY <2>1, <3>1, <3>2 DEF LeftWith, ReportInv
  <2>2. CASE /\ scene' = scene /\ UNCHANGED report
             /\ scene = "report" => token' = token \/ ~token'
    BY <2>2 DEF ReportInv, ResultIsCurrent, IsReport, LiveIsCurrent, Renewing, Fits
  <2> QED
    BY <2>1, <2>2, ReportSceneStep
<1> QED
  BY <1>1, <1>2, PTL DEF ClientsSpec

\* What a page shows as its result was computed for the agent and the range it names,
\* unless it is being renewed.
THEOREM ShownMatches == ClientsSpec => []ShownReportMatches
<1>1. ReportInv => ShownReportMatches
  BY ReportAssumption
     DEF ReportInv, ResultIsCurrent, Renewing, Fits, ShownReportMatches, ReportScreen,
         ReportsContent, SuggestionsContent, TokenUsageContent, TokenOptimizationContent,
         BehaviorContent, Pages
<1> QED
  BY <1>1, ReportInvariant, PTL

-----------------------------------------------------------------------------
(* The list of events. *)

\* A list of an agent's rows, whatever it holds of them.
RowsOf(rows, a) == \E T : rows \in Seq(T) /\ \A r \in T : r.agent = a

FeedShape ==
    /\ DOMAIN feed = {"agent", "events", "page", "hasMore", "loading", "error", "filter",
                      "searching", "results", "searchError", "requestFor", "flights", "search"}
    /\ feed.agent \in Agents \cup {None}
    /\ feed.page \in Nat \ {0}
    /\ \E T : feed.events \in Seq(T)
    /\ served \in [Agents -> Nat]

IsFlight(f) ==
    /\ DOMAIN f = {"agent", "page", "append", "type", "first", "rows"}
    /\ f.agent \in Agents
    /\ f.page \in Nat \ {0}
    /\ RowsOf(f.rows, f.agent)

AskedForAgent == token /\ feed.agent # None => feed.requestFor = feed.agent

FeedInv ==
    /\ FeedShape
    /\ \A f \in feed.flights : IsFlight(f)
    /\ AskedForAgent
    /\ scene # "feed" => feed.agent = None

\* What comes into the list is of the agent on screen.
ListKeeps ==
    token /\ feed'.agent # None =>
       \A i \in 1 .. Len(feed'.events) :
          i > Len(feed.events) \/ feed.events[i] # feed'.events[i] =>
             feed'.events[i].agent = feed'.agent

\* The numbers of the events of a type, newest first.
OfType(a, type) == {n \in 1 .. served[a] : type = None \/ TypeOf[n] = type}

NewestOrder(a, type) ==
    Ranked(OfType(a, type), [n \in OfType(a, type) |-> {m \in OfType(a, type) : m > n}])

\* Each event of the type is listed once, and a newer one before an older.
LEMMA NewestInOrder ==
  ASSUME NEW a \in Agents, NEW type, served \in [Agents -> Nat]
  PROVE  LET of == OfType(a, type)
             order == NewestOrder(a, type)
         IN  /\ of \subseteq Nat /\ IsFiniteSet(of) /\ Cardinality(of) \in Nat
             /\ Newest(a, type) = [i \in 1 .. Cardinality(of) |-> Row(a, order[i])]
             /\ order \in [1 .. Cardinality(of) -> of]
             /\ \A n \in of : \E i \in 1 .. Cardinality(of) : order[i] = n
             /\ \A i, j \in 1 .. Cardinality(of) : i < j => order[i] > order[j]
<1> DEFINE of == OfType(a, type)
           ahead == [n \in of |-> {m \in of : m > n}]
           order == NewestOrder(a, type)
<1>1. of \subseteq Nat /\ of \subseteq 1 .. served[a] /\ served[a] \in Nat
  BY DEF OfType
<1>2. IsFiniteSet(of) /\ Cardinality(of) \in Nat
  BY <1>1, FirstNumbers, FS_Subset, FS_CardinalityType
<1>3. Newest(a, type) = [i \in 1 .. Cardinality(of) |-> Row(a, order[i])]
  BY Zenon DEF Newest, OfType, NewestOrder
<1>4. order = Ranked(of, ahead)
  BY Zenon DEF NewestOrder
<1> HIDE DEF of, order
<1>5. StrictOrder(of, ahead)
  <2>1. \A n \in of : n \in Int
    BY <1>1
  <2>2. ahead \in [of -> SUBSET of]
    OBVIOUS
  <2> QED
    BY <2>1, <2>2 DEF StrictOrder
<1> HIDE DEF ahead
<1>6. InOrder(order, of, ahead)
  BY <1>2, <1>4, <1>5, RankedInOrder
<1>7. \A i, j \in 1 .. Cardinality(of) : i < j => order[i] > order[j]
  <2> TAKE i, j \in 1 .. Cardinality(of)
  <2>1. i < j => order[i] \in ahead[order[j]]
    BY <1>6 DEF InOrder
  <2> QED
    BY <1>6, <2>1 DEF InOrder, ahead
<1> QED
  BY <1>1, <1>2, <1>3, <1>6, <1>7 DEF InOrder, of, order

LEMMA NewestAreRows ==
  ASSUME NEW a \in Agents, NEW type, served \in [Agents -> Nat]
  PROVE  RowsOf(Newest(a, type), a)
<1> DEFINE of == OfType(a, type)
           RowNo(i) == Row(a, NewestOrder(a, type)[i])
           T == {RowNo(i) : i \in 1 .. Cardinality(of)}
<1>1. Cardinality(of) \in Nat /\ Newest(a, type) = [i \in 1 .. Cardinality(of) |-> RowNo(i)]
  BY NewestInOrder
<1>2. \A i : RowNo(i).agent = a
  BY DEF Row
<1> HIDE DEF of, RowNo
<1>3. [i \in 1 .. Cardinality(of) |-> RowNo(i)] \in Seq(T)
  BY <1>1
<1>4. \A r \in T : r.agent = a
  BY <1>2
<1> QED
  BY <1>1, <1>3, <1>4 DEF RowsOf

LEMMA PartIsRows ==
  ASSUME NEW a, NEW rows, RowsOf(rows, a), NEW m \in Nat \ {0}, NEW n \in Nat, n <= Len(rows)
  PROVE  RowsOf(SubSeq(rows, m, n), a)
<1>1. PICK T : rows \in Seq(T) /\ \A r \in T : r.agent = a
  BY DEF RowsOf
<1>2. \A i \in m .. n : rows[i] \in T
  BY <1>1
<1>3. SubSeq(rows, m, n) \in Seq(T)
  BY <1>2, SubSeqProperties
<1> QED
  BY <1>1, <1>3 DEF RowsOf

LEMMA EventsAreRows ==
  ASSUME NEW a \in Agents, NEW type, NEW page \in Nat \ {0}, served \in [Agents -> Nat]
  PROVE  RowsOf(getEvents(a, type, page), a)
<1> DEFINE rows == Newest(a, type)
           last == IF page * PageSize < Len(rows) THEN page * PageSize ELSE Len(rows)
<1>1. RowsOf(rows, a)
  BY NewestAreRows
<1>2. Len(rows) \in Nat
  BY <1>1 DEF RowsOf
<1>3. PageSize \in Nat /\ page - 1 \in Nat
  BY FeedAssumption
<1>4. (page - 1) * PageSize \in Nat /\ page * PageSize \in Nat
  BY <1>3
<1>5. (page - 1) * PageSize + 1 \in Nat \ {0}
  BY <1>4
<1>6. last \in Nat /\ last <= Len(rows)
  BY <1>2, <1>4
<1>7. getEvents(a, type, page) = SubSeq(rows, (page - 1) * PageSize + 1, last)
  BY Zenon DEF getEvents
<1> HIDE DEF rows, last
<1> QED
  BY <1>1, <1>5, <1>6, <1>7, PartIsRows

\* What the proof needs of a product.
LEMMA Products ==
  ASSUME NEW y \in Nat, NEW x \in Nat
  PROVE  /\ x * y \in Nat
         /\ (x + 1) * y = x * y + y
         /\ \A z \in Nat : x <= z => x * y <= z * y
  OBVIOUS

\* The rows of getEvents on one page, by their place in all of them.
FirstOfPage(page) == (page - 1) * PageSize + 1

RowsThrough(page, n) == IF page * PageSize < n THEN page * PageSize ELSE n

\* While no event is recorded, the pages of getEvents, one after the other, are the list of
\* all events of the type, each of them once, newest first: a page has PageSize rows as
\* long as there are, no page repeats a row of another, and the events that a
\* page would leave out do not exist (hooks/useAgentEvents.ts:66-72, core/api/events.py:60-110).
THEOREM PagesTile ==
  ASSUME NEW a \in Agents, NEW type, served \in [Agents -> Nat]
  PROVE  /\ \A n \in OfType(a, type) : \E page \in Nat \ {0} :
               \E i \in 1 .. Len(getEvents(a, type, page)) : getEvents(a, type, page)[i] = Row(a, n)
         /\ \A page, next \in Nat \ {0} :
               \A i \in 1 .. Len(getEvents(a, type, page)), j \in 1 .. Len(getEvents(a, type, next)) :
                  page < next \/ (page = next /\ i < j) =>
                     getEvents(a, type, page)[i].no > getEvents(a, type, next)[j].no
         /\ \A page \in Nat \ {0} :
               /\ Len(getEvents(a, type, page)) <= PageSize
               /\ Len(getEvents(a, type, page)) < PageSize => getEvents(a, type, page + 1) = <<>>
<1> DEFINE of == OfType(a, type)
           order == NewestOrder(a, type)
           n == Cardinality(of)
           rows == Newest(a, type)
<1>1. /\ of \subseteq Nat /\ n \in Nat
      /\ rows = [i \in 1 .. n |-> Row(a, order[i])]
      /\ order \in [1 .. n -> of]
      /\ \A m \in of : \E i \in 1 .. n : order[i] = m
      /\ \A i, j \in 1 .. n : i < j => order[i] > order[j]
  BY NewestInOrder
<1>2. PageSize \in Nat \ {0}
  BY FeedAssumption
<1>3. \A page \in Nat \ {0} :
         getEvents(a, type, page) =
            SubSeq(rows, FirstOfPage(page), RowsThrough(page, Len(rows)))
  BY Zenon DEF getEvents, FirstOfPage, RowsThrough
<1> HIDE DEF of, order, n, rows
<1>4. /\ Len(rows) = n /\ rows \in Seq({rows[i] : i \in 1 .. n})
      /\ \A i \in 1 .. n : rows[i].no = order[i] /\ rows[i] = Row(a, order[i])
  BY <1>1 DEF Row
<1> DEFINE rowsOn(page) == IF RowsThrough(page, n) < FirstOfPage(page) THEN 0
                         ELSE RowsThrough(page, n) - FirstOfPage(page) + 1
<1>5. ASSUME NEW page \in Nat \ {0}
      PROVE  /\ FirstOfPage(page) \in Nat \ {0} /\ RowsThrough(page, n) \in 0 .. n
             /\ page * PageSize \in Nat
             /\ FirstOfPage(page) = page * PageSize - PageSize + 1
             /\ rowsOn(page) \in 0 .. PageSize
             /\ Len(getEvents(a, type, page)) = rowsOn(page)
             /\ \A i \in 1 .. rowsOn(page) :
                   /\ FirstOfPage(page) + i - 1 \in 1 .. n
                   /\ FirstOfPage(page) + i - 1 <= page * PageSize
                   /\ getEvents(a, type, page)[i] = rows[FirstOfPage(page) + i - 1]
  <2>0. page - 1 \in Nat /\ page - 1 + 1 = page /\ page \in Nat /\ PageSize \in Nat
    BY <1>2
  <2>1. page * PageSize \in Nat /\ page - 1 \in Nat /\ (page - 1) * PageSize \in Nat
    BY <2>0, Products
  <2>2. (page - 1) * PageSize = page * PageSize - PageSize
    <3>1. (page - 1 + 1) * PageSize = (page - 1) * PageSize + PageSize
      BY <2>0, Products
    <3> QED
      BY <2>0, <2>1, <3>1
  <2>3. FirstOfPage(page) \in Nat \ {0} /\ FirstOfPage(page) = page * PageSize - PageSize + 1
    BY <2>1, <2>2, <1>2 DEF FirstOfPage
  <2>4. RowsThrough(page, n) \in 0 .. n /\ RowsThrough(page, n) <= page * PageSize
    BY <1>1, <2>1 DEF RowsThrough
  <2>5. rowsOn(page) \in 0 .. PageSize
    BY <1>2, <2>1, <2>3, <2>4
  <2>6. \A i \in FirstOfPage(page) .. RowsThrough(page, n) : rows[i] \in {rows[k] : k \in 1 .. n}
    BY <1>1, <2>3, <2>4
  <2>7. /\ Len(SubSeq(rows, FirstOfPage(page), RowsThrough(page, n))) = rowsOn(page)
        /\ \A i \in 1 .. rowsOn(page) :
              SubSeq(rows, FirstOfPage(page), RowsThrough(page, n))[i] = rows[FirstOfPage(page) + i - 1]
    <3> DEFINE lo == FirstOfPage(page)
               hi == RowsThrough(page, n)
               part == SubSeq(rows, lo, hi)
               T == {rows[k] : k \in 1 .. n}
    <3>1. lo \in Int /\ hi \in Int /\ \A i \in lo .. hi : rows[i] \in T
      BY <2>3, <2>4, <2>6
    <3> HIDE DEF lo, hi, T
    <3>2. /\ Len(part) = IF lo <= hi THEN hi - lo + 1 ELSE 0
          /\ \A i \in 1 .. hi - lo + 1 : part[i] = rows[lo + i - 1]
      BY <3>1, SubSeqProperties
    <3> HIDE DEF part
    <3>3. rowsOn(page) = (IF hi < lo THEN 0 ELSE hi - lo + 1)
      BY DEF lo, hi
    <3>4. Len(part) = rowsOn(page) /\ \A i \in 1 .. rowsOn(page) : part[i] = rows[lo + i - 1]
      BY <3>1, <3>2, <3>3
    <3> QED
      BY <3>4 DEF part, lo, hi
  <2>8. \A i \in 1 .. rowsOn(page) : /\ FirstOfPage(page) + i - 1 \in 1 .. n
                                    /\ FirstOfPage(page) + i - 1 <= page * PageSize
    BY <1>1, <2>1, <2>3, <2>4
  <2> QED
    BY <1>3, <1>4, <2>1, <2>3, <2>4, <2>5, <2>7, <2>8
<1> HIDE DEF rowsOn
<1>6. \A m \in of : \E page \in Nat \ {0} :
         \E i \in 1 .. Len(getEvents(a, type, page)) : getEvents(a, type, page)[i] = Row(a, m)
  <2> TAKE m \in of
  <2>1. PICK k \in 1 .. n : order[k] = m
    BY <1>1
  <2> DEFINE page == (k - 1) \div PageSize + 1
  <2>2. page \in Nat \ {0} /\ (page - 1) * PageSize <= k - 1 /\ k - 1 < page * PageSize
    <3> DEFINE q == (k - 1) \div PageSize
    <3>1. k - 1 \in Nat
      BY <1>1
    <3>2. q \in Nat /\ q * PageSize <= k - 1 /\ k - 1 < (q + 1) * PageSize
      BY <1>2, <3>1
    <3> HIDE DEF q
    <3> QED
      BY <3>2 DEF q
  <2> HIDE DEF page
  <2> DEFINE i == k - FirstOfPage(page) + 1
  <2>3. FirstOfPage(page) <= k /\ k <= page * PageSize /\ page * PageSize \in Nat
    BY <1>1, <1>2, <1>5, <2>2 DEF FirstOfPage
  <2>4. k <= RowsThrough(page, n)
    BY <1>1, <2>3 DEF RowsThrough
  <2>5. FirstOfPage(page) \in Nat \ {0} /\ RowsThrough(page, n) \in 0 .. n
    BY <1>5, <2>2
  <2>6. i \in 1 .. rowsOn(page) /\ FirstOfPage(page) + i - 1 = k
    BY <1>1, <2>3, <2>4, <2>5 DEF rowsOn
  <2>7. /\ Len(getEvents(a, type, page)) = rowsOn(page)
        /\ getEvents(a, type, page)[i] = rows[FirstOfPage(page) + i - 1]
    BY <1>5, <2>2, <2>6
  <2>8. getEvents(a, type, page)[i] = Row(a, m)
    BY <1>4, <2>1, <2>6, <2>7
  <2> QED
    BY <2>2, <2>6, <2>7, <2>8
<1>7. ASSUME NEW page \in Nat \ {0}, NEW next \in Nat \ {0},
             NEW i \in 1 .. Len(getEvents(a, type, page)),
             NEW j \in 1 .. Len(getEvents(a, type, next)),
             page < next \/ (page = next /\ i < j)
      PROVE  getEvents(a, type, page)[i].no > getEvents(a, type, next)[j].no
  <2> DEFINE k == FirstOfPage(page) + i - 1
             l == FirstOfPage(next) + j - 1
  <2>0. \A x, y \in 1 .. n : x < y => rows[x].no > rows[y].no
    BY <1>1, <1>4
  <2>1. /\ k \in 1 .. n /\ k <= page * PageSize /\ getEvents(a, type, page)[i] = rows[k]
        /\ page * PageSize \in Nat /\ FirstOfPage(page) \in Nat /\ i \in Int
    <3>1. i \in 1 .. rowsOn(page) /\ rowsOn(page) \in 0 .. PageSize
      BY <1>5
    <3>2. k \in 1 .. n /\ k <= page * PageSize /\ getEvents(a, type, page)[i] = rows[k]
      BY <1>5, <3>1
    <3>3. page * PageSize \in Nat /\ FirstOfPage(page) \in Nat
      BY <1>5
    <3> QED
      BY <3>1, <3>2, <3>3
  <2>2. /\ l \in 1 .. n /\ getEvents(a, type, next)[j] = rows[l]
        /\ FirstOfPage(next) \in Nat /\ j \in Int /\ 1 <= j
    <3>1. j \in 1 .. rowsOn(next) /\ rowsOn(next) \in 0 .. PageSize
      BY <1>5
    <3>2. l \in 1 .. n /\ getEvents(a, type, next)[j] = rows[l]
      BY <1>5, <3>1
    <3>3. FirstOfPage(next) \in Nat
      BY <1>5
    <3> QED
      BY <3>1, <3>2, <3>3
  <2>3. CASE page = next /\ i < j
    <3> DEFINE x == FirstOfPage(page)
    <3>1. x \in Nat /\ i \in Int /\ j \in Int
      BY <2>1, <2>2
    <3>2. k = x + i - 1 /\ l = x + j - 1
      BY <2>3
    <3> HIDE DEF x, k, l
    <3>3. k < l
      BY <2>3, <3>1, <3>2
    <3> QED
      BY <2>0, <2>1, <2>2, <3>3
  <2>4. CASE page < next
    <3>1. page * PageSize <= (next - 1) * PageSize /\ (next - 1) * PageSize \in Nat
      <4>1. page \in Nat /\ next - 1 \in Nat /\ page <= next - 1 /\ PageSize \in Nat
        BY <1>2, <2>4
      <4> QED
        BY <4>1, Products
    <3>2. FirstOfPage(next) = (next - 1) * PageSize + 1
      BY DEF FirstOfPage
    <3>3. k < l
      <4> DEFINE x == page * PageSize
                 y == (next - 1) * PageSize
      <4>1. x \in Nat /\ y \in Nat /\ x <= y /\ k <= x /\ FirstOfPage(next) = y + 1
        BY <2>1, <3>1, <3>2
      <4> HIDE DEF x, y
      <4>2. k \in Int /\ k <= x
        BY <1>1, <2>1, <4>1
      <4>3. l = y + j /\ j \in Int /\ 1 <= j
        BY <2>2, <4>1
      <4> HIDE DEF k, l
      <4> QED
        BY <4>1, <4>2, <4>3
    <3> QED
      BY <2>0, <2>1, <2>2, <3>3
  <2> QED
    BY <1>7, <2>3, <2>4
<1>8. ASSUME NEW page \in Nat \ {0}
      PROVE  /\ Len(getEvents(a, type, page)) <= PageSize
             /\ Len(getEvents(a, type, page)) < PageSize => getEvents(a, type, page + 1) = <<>>
  <2>1. Len(getEvents(a, type, page)) = rowsOn(page) /\ rowsOn(page) \in 0 .. PageSize
    BY <1>5
  <2>2. ASSUME rowsOn(page) < PageSize PROVE getEvents(a, type, page + 1) = <<>>
    <3>0. page + 1 \in Nat \ {0} /\ page + 1 - 1 = page /\ page * PageSize \in Nat
      BY <1>2, Products
    <3>1. /\ page + 1 \in Nat \ {0} /\ page * PageSize \in Nat
          /\ FirstOfPage(page + 1) = page * PageSize + 1
      <4>1. FirstOfPage(page + 1) = (page + 1 - 1) * PageSize + 1
        BY DEF FirstOfPage
      <4> QED
        BY <3>0, <4>1
    <3>2. FirstOfPage(page) = page * PageSize - PageSize + 1
      BY <1>5
    <3>3. n < page * PageSize
      BY <1>1, <1>2, <2>2, <3>1, <3>2 DEF RowsThrough, rowsOn
    <3>4. (page + 1) * PageSize = page * PageSize + PageSize
      BY <1>2, Products
    <3>5. rowsOn(page + 1) = 0
      BY <1>1, <1>2, <3>1, <3>3, <3>4 DEF RowsThrough, rowsOn
    <3>6. getEvents(a, type, page + 1) =
             SubSeq(rows, FirstOfPage(page + 1), RowsThrough(page + 1, n))
      BY <1>3, <1>4, <3>1
    <3>7. RowsThrough(page + 1, n) < FirstOfPage(page + 1) /\ RowsThrough(page + 1, n) \in Nat
      BY <1>1, <1>2, <3>1, <3>3, <3>4 DEF RowsThrough
    <3> QED
      BY <1>4, <3>1, <3>6, <3>7, SubSeqProperties
  <2> QED
    BY <2>1, <2>2
<1> QED
  BY <1>6, <1>7, <1>8 DEF of

\* What a request leaves of the hook.
LEMMA Fetched ==
  ASSUME FeedShape, \A f \in feed.flights : IsFlight(f), AskedForAgent,
         NEW f, NEW page \in Nat \ {0}, NEW append, NEW type, NEW first,
         DOMAIN f = DOMAIN feed, f.agent \in Agents \cup {None}, f.page \in Nat \ {0},
         f.events = feed.events, \A g \in f.flights : IsFlight(g),
         ~token => f.requestFor = feed.requestFor,
         served' = served, token' = token, scene' = scene, scene = "feed",
         feed' = fetchEvents(f, page, append, type, first)
  PROVE  FeedInv' /\ ListKeeps
<1>1. CASE f.agent = None \/ ~token
  <2>1. feed' = f
    BY <1>1 DEF fetchEvents
  <2>2. AskedForAgent'
    BY <1>1, <2>1 DEF AskedForAgent
  <2>3. FeedShape'
    BY <2>1 DEF FeedShape
  <2>4. ListKeeps
    BY <2>1, <1>1 DEF ListKeeps
  <2> QED
    BY <2>1, <2>2, <2>3, <2>4 DEF FeedInv, IsFlight
<1>2. CASE f.agent # None /\ token
  <2>1. feed' = [f EXCEPT !.requestFor = f.agent,
                          !.flights = @ \cup {Flight(f.agent, page, append, type, first)}]
    BY <1>2, Zenon DEF fetchEvents
  <2>2. RowsOf(getEvents(f.agent, type, page), f.agent)
    BY <1>2, EventsAreRows DEF FeedShape
  <2>3. IsFlight(Flight(f.agent, page, append, type, first))
    BY <1>2, <2>2 DEF IsFlight, Flight
  <2>4. /\ DOMAIN feed' = DOMAIN feed /\ feed'.agent = f.agent /\ feed'.page = f.page
        /\ feed'.events = feed.events /\ feed'.requestFor = f.agent
        /\ feed'.flights = f.flights \cup {Flight(f.agent, page, append, type, first)}
    BY <2>1 DEF FeedShape
  <2>5. FeedShape'
    BY <2>4 DEF FeedShape
  <2>6. \A g \in feed'.flights : IsFlight(g)'
    BY <2>3, <2>4 DEF IsFlight
  <2>7. ListKeeps
    BY <2>4 DEF ListKeeps
  <2> QED
    BY <2>4, <2>5, <2>6, <2>7 DEF FeedInv, AskedForAgent
<1> QED
  BY <1>1, <1>2

\* Rows put in place of a list, or behind it, make a list.
LEMMA ListGrows ==
  ASSUME NEW a, NEW rows, RowsOf(rows, a), \E T : feed.events \in Seq(T),
         feed'.events \in {rows, feed.events \o rows}
  PROVE  \E T : feed'.events \in Seq(T)
<1>1. PICK T : rows \in Seq(T)
  BY DEF RowsOf
<1>2. PICK U : feed.events \in Seq(U)
  OBVIOUS
<1>3. feed.events \in Seq(T \cup U) /\ rows \in Seq(T \cup U)
  BY <1>1, <1>2
<1>4. feed.events \o rows \in Seq(T \cup U)
  BY <1>3, ConcatProperties
<1> QED
  BY <1>3, <1>4

\* An answer that is shown puts the rows of the agent in place of the list, or behind it.
LEMMA RowsTaken ==
  ASSUME NEW a, NEW rows, RowsOf(rows, a), \E T : feed.events \in Seq(T),
         feed'.agent = a, feed'.events \in {rows, feed.events \o rows}
  PROVE  ListKeeps
<1>1. PICK T : rows \in Seq(T) /\ \A r \in T : r.agent = a
  BY DEF RowsOf
<1>2. PICK U : feed.events \in Seq(U)
  OBVIOUS
<1>3. CASE feed'.events = rows
  BY <1>1, <1>3 DEF ListKeeps
<1>4. CASE feed'.events = feed.events \o rows
  <2>1. feed.events \in Seq(T \cup U) /\ rows \in Seq(T \cup U)
    BY <1>1, <1>2
  <2>2. /\ feed.events \o rows \in Seq(T \cup U)
        /\ Len(feed.events \o rows) = Len(feed.events) + Len(rows)
        /\ \A i \in 1 .. Len(feed.events) + Len(rows) : (feed.events \o rows)[i] =
              IF i <= Len(feed.events) THEN feed.events[i] ELSE rows[i - Len(feed.events)]
    BY <2>1, ConcatProperties
  <2>3. ASSUME NEW i \in 1 .. Len(feed'.events),
               i > Len(feed.events) \/ feed.events[i] # feed'.events[i]
        PROVE  feed'.events[i].agent = a
    <3>1. Len(feed.events) \in Nat /\ Len(rows) \in Nat
      BY <2>1
    <3>2. i > Len(feed.events)
      BY <1>4, <2>2, <2>3, <3>1
    <3>3. feed'.events[i] = rows[i - Len(feed.events)] /\ i - Len(feed.events) \in 1 .. Len(rows)
      BY <1>4, <2>2, <2>3, <3>1, <3>2
    <3> QED
      BY <1>1, <3>3
  <2> QED
    BY <1>4, <2>2, <2>3 DEF ListKeeps
<1> QED
  BY <1>3, <1>4

LEMMA FeedStep ==
  FeedInv /\ scene = "feed" /\ scene' = scene /\ FeedNext => FeedInv' /\ ListKeeps
<1> SUFFICES ASSUME FeedInv, scene = "feed", scene' = scene, FeedNext
             PROVE  FeedInv' /\ ListKeeps
  OBVIOUS
<1>a. FeedShape /\ (\A f \in feed.flights : IsFlight(f)) /\ AskedForAgent
  BY DEF FeedInv
<1>b. token' = token
  BY Zenon DEF FeedNext, FeedUser, FeedSystem, FeedAnswers, ClickedAnswers, FeedAgentChanges,
         changeFilter, loadMore, refresh, runSearch, clearSearch, selectEvent, traceWhy,
         showData, SwitchSegment, FeedPoll, FeedAnswer, FeedFails, SearchAnswer, SearchFails,
         WhyAnswer, WhyFails, EventRecorded, Acts, Quiet, browserVars
<1>c. 1 \in Nat \ {0}
  OBVIOUS
<1>1. ASSUME NEW a \in Agents \cup {None}, FeedAgentChanges(a) PROVE FeedInv' /\ ListKeeps
  <2> DEFINE f == [feed EXCEPT !.agent = a, !.flights = Cancelled(@)]
             g == [f EXCEPT !.loading = token, !.page = 1, !.filter = None,
                            !.results = None, !.searchError = FALSE]
  <2>1. /\ DOMAIN f = DOMAIN feed /\ f.agent = a /\ f.flights = Cancelled(feed.flights)
        /\ f.page = feed.page /\ f.events = feed.events /\ f.requestFor = feed.requestFor
    BY <1>a DEF FeedShape
  <2>2. \A h \in f.flights : IsFlight(h)
    BY <1>a, <2>1 DEF Cancelled, IsFlight
  <2>3. CASE a = None
    <3>1. feed' = [f EXCEPT !.events = <<>>, !.loading = FALSE] /\ served' = served
      BY <1>1, <2>3, Zenon DEF FeedAgentChanges
    <3>2. /\ DOMAIN feed' = DOMAIN feed /\ feed'.agent = None /\ feed'.flights = f.flights
          /\ feed'.page = feed.page /\ feed'.events = <<>>
      BY <1>a, <2>1, <2>3, <3>1 DEF FeedShape
    <3> HIDE DEF f
    <3>3. FeedShape'
      BY <1>a, <3>1, <3>2 DEF FeedShape
    <3> QED
      BY <1>a, <2>2, <3>2, <3>3 DEF FeedInv, AskedForAgent, ListKeeps, IsFlight
  <2>4. CASE a # None
    <3>1. feed' = fetchEvents(g, 1, FALSE, None, TRUE) /\ served' = served
      BY <1>1, <2>4, Zenon DEF FeedAgentChanges
    <3>2. /\ DOMAIN g = DOMAIN feed /\ g.agent = a /\ g.flights = f.flights
          /\ g.page = 1 /\ g.events = feed.events /\ g.requestFor = feed.requestFor
      BY <1>a, <2>1 DEF FeedShape
    <3> HIDE DEF f, g
    <3> QED
      BY <1>a, <1>b, <1>c, <2>2, <3>1, <3>2, Fetched
  <2> QED
    BY <2>3, <2>4
<1>2. ASSUME NEW type, changeFilter(type) PROVE FeedInv' /\ ListKeeps
  <2> DEFINE f == [feed EXCEPT !.filter = type, !.page = 1, !.searchError = FALSE]
  <2>1. feed' = fetchEvents(f, 1, FALSE, type, FALSE) /\ served' = served
    BY <1>2, Zenon DEF changeFilter
  <2>2. /\ DOMAIN f = DOMAIN feed /\ f.agent = feed.agent /\ f.flights = feed.flights
        /\ f.page = 1 /\ f.events = feed.events /\ f.requestFor = feed.requestFor
    BY <1>a DEF FeedShape
  <2>3. f.agent \in Agents \cup {None}
    BY <1>a, <2>2 DEF FeedShape
  <2> HIDE DEF f
  <2> QED
    BY <1>a, <1>b, <1>c, <2>1, <2>2, <2>3, Fetched
<1>3. ASSUME loadMore PROVE FeedInv' /\ ListKeeps
  <2> DEFINE f == [feed EXCEPT !.page = @ + 1]
  <2>1. feed' = fetchEvents(f, feed.page + 1, TRUE, feed.filter, FALSE) /\ served' = served
    BY <1>3, Zenon DEF loadMore
  <2>2. /\ DOMAIN f = DOMAIN feed /\ f.agent = feed.agent /\ f.flights = feed.flights
        /\ f.page = feed.page + 1 /\ f.events = feed.events /\ f.requestFor = feed.requestFor
    BY <1>a DEF FeedShape
  <2>3. f.agent \in Agents \cup {None} /\ feed.page + 1 \in Nat \ {0}
    BY <1>a, <2>2 DEF FeedShape
  <2> HIDE DEF f
  <2> QED
    BY <1>a, <1>b, <1>c, <2>1, <2>2, <2>3, Fetched
<1>4. ASSUME refresh PROVE FeedInv' /\ ListKeeps
  <2> DEFINE f == [feed EXCEPT !.page = 1]
  <2>1. feed' = fetchEvents(f, 1, FALSE, feed.filter, FALSE) /\ served' = served
    BY <1>4, Zenon DEF refresh
  <2>2. /\ DOMAIN f = DOMAIN feed /\ f.agent = feed.agent /\ f.flights = feed.flights
        /\ f.page = 1 /\ f.events = feed.events /\ f.requestFor = feed.requestFor
    BY <1>a DEF FeedShape
  <2>3. f.agent \in Agents \cup {None}
    BY <1>a, <2>2 DEF FeedShape
  <2> HIDE DEF f
  <2> QED
    BY <1>a, <1>b, <1>c, <2>1, <2>2, <2>3, Fetched
<1>5. ASSUME FeedPoll PROVE FeedInv' /\ ListKeeps
  <2>1. feed' = fetchEvents(feed, 1, FALSE, feed.filter, FALSE) /\ served' = served
    BY <1>5, Zenon DEF FeedPoll
  <2>2. feed.agent \in Agents \cup {None} /\ feed.page \in Nat \ {0}
    BY <1>a DEF FeedShape
  <2> QED
    BY <1>a, <1>b, <1>c, <2>1, <2>2, Fetched
<1>6. ASSUME NEW f \in feed.flights, FeedAnswer(f) PROVE FeedInv' /\ ListKeeps
  <2> DEFINE g == [feed EXCEPT !.flights = @ \ {f}, !.loading = @ /\ ~f.first]
  <2>0. served' = served
    BY <1>6 DEF FeedAnswer
  <2>1. PICK rows \in {f.rows, getEvents(f.agent, f.type, f.page)} :
          feed' = IF feed.requestFor # f.agent
                  THEN g
                  ELSE [g EXCEPT !.events = IF f.append THEN @ \o rows ELSE rows,
                                 !.hasMore = Len(rows) = PageSize, !.error = FALSE]
    BY <1>6, Zenon DEF FeedAnswer
  <2>2. IsFlight(f)
    BY <1>a
  <2>3. RowsOf(getEvents(f.agent, f.type, f.page), f.agent)
    BY <1>a, <2>2, EventsAreRows DEF IsFlight, FeedShape
  <2>4. RowsOf(rows, f.agent)
    BY <2>2, <2>3 DEF IsFlight
  <2>5. /\ DOMAIN g = DOMAIN feed /\ g.agent = feed.agent /\ g.flights = feed.flights \ {f}
        /\ g.page = feed.page /\ g.events = feed.events /\ g.requestFor = feed.requestFor
    BY <1>a DEF FeedShape
  <2> HIDE DEF g
  <2>6. CASE feed.requestFor # f.agent
    <3>1. feed' = g
      BY <2>1, <2>6
    <3>2. FeedShape'
      BY <1>a, <2>0, <2>5, <3>1 DEF FeedShape
    <3> QED
      BY <1>a, <1>b, <2>5, <3>1, <3>2 DEF FeedInv, AskedForAgent, ListKeeps, IsFlight
  <2>7. CASE feed.requestFor = f.agent
    <3>1. feed' = [g EXCEPT !.events = IF f.append THEN @ \o rows ELSE rows,
                            !.hasMore = Len(rows) = PageSize, !.error = FALSE]
      BY <2>1, <2>7
    <3>2. /\ DOMAIN feed' = DOMAIN feed /\ feed'.agent = feed.agent
          /\ feed'.flights = feed.flights \ {f} /\ feed'.page = feed.page
          /\ feed'.requestFor = feed.requestFor
          /\ feed'.events = IF f.append THEN feed.events \o rows ELSE rows
      BY <1>a, <2>5, <3>1 DEF FeedShape
    <3>3. feed'.events \in {rows, feed.events \o rows}
      BY <3>2
    <3>4. \E T : feed'.events \in Seq(T)
      BY <1>a, <2>4, <3>2, <3>3, ListGrows DEF FeedShape
    <3>5. FeedShape'
      BY <1>a, <2>0, <3>2, <3>4 DEF FeedShape
    <3>6. ASSUME token, feed'.agent # None PROVE ListKeeps
      <4>1. feed'.agent = f.agent
        BY <1>a, <2>7, <3>2, <3>6 DEF AskedForAgent
      <4> QED
        BY <1>a, <2>4, <3>3, <4>1, RowsTaken DEF FeedShape
    <3>7. ListKeeps
      BY <3>6 DEF ListKeeps
    <3> QED
      BY <1>a, <1>b, <3>2, <3>5, <3>7 DEF FeedInv, AskedForAgent, IsFlight
  <2> QED
    BY <2>6, <2>7
<1>7. ASSUME NEW f \in feed.flights, FeedFails(f) PROVE FeedInv' /\ ListKeeps
  <2>1. /\ DOMAIN feed' = DOMAIN feed /\ feed'.agent = feed.agent
        /\ feed'.flights = feed.flights \ {f} /\ feed'.page = feed.page
        /\ feed'.requestFor = feed.requestFor /\ feed'.events = feed.events
        /\ served' = served
    BY <1>a, <1>7 DEF FeedFails, FeedShape
  <2>2. FeedShape'
    BY <1>a, <2>1 DEF FeedShape
  <2> QED
    BY <1>a, <1>b, <2>1, <2>2 DEF FeedInv, AskedForAgent, ListKeeps, IsFlight
<1>8. ASSUME runSearch \/ SearchAnswer \/ SearchFails \/ clearSearch
      PROVE  FeedInv' /\ ListKeeps
  <2>1. /\ DOMAIN feed' = DOMAIN feed /\ feed'.agent = feed.agent
        /\ feed'.flights = feed.flights /\ feed'.page = feed.page
        /\ feed'.requestFor = feed.requestFor /\ feed'.events = feed.events
        /\ served' = served
    BY <1>a, <1>8 DEF runSearch, SearchAnswer, SearchFails, clearSearch, FeedShape
  <2>2. FeedShape'
    BY <1>a, <2>1 DEF FeedShape
  <2> QED
    BY <1>a, <1>b, <2>1, <2>2 DEF FeedInv, AskedForAgent, ListKeeps, IsFlight
<1>9. ASSUME UNCHANGED feed, served' \in [Agents -> Nat] PROVE FeedInv' /\ ListKeeps
  <2>1. FeedShape'
    BY <1>a, <1>9 DEF FeedShape
  <2> QED
    BY <1>a, <1>b, <1>9, <2>1 DEF FeedInv, AskedForAgent, ListKeeps, IsFlight
<1>10. ASSUME NEW a \in Agents, EventRecorded(a) PROVE FeedInv' /\ ListKeeps
  <2>1. UNCHANGED feed /\ served' = [served EXCEPT ![a] = @ + 1]
    BY <1>10 DEF EventRecorded
  <2>2. served' \in [Agents -> Nat]
    BY <1>a, <2>1 DEF FeedShape
  <2> QED
    BY <1>9, <2>1, <2>2
<1>11. ASSUME NEW r, selectEvent(r) \/ WhyAnswer(r) \/ WhyFails(r) PROVE FeedInv' /\ ListKeeps
  <2>1. UNCHANGED <<served, feed>>
    BY <1>11 DEF selectEvent, WhyAnswer, WhyFails
  <2> QED
    BY <1>a, <1>9, <2>1 DEF FeedShape
<1>12. ASSUME traceWhy \/ showData \/ SwitchSegment PROVE FeedInv' /\ ListKeeps
  <2>1. UNCHANGED <<served, feed>>
    BY <1>12 DEF traceWhy, showData, SwitchSegment
  <2> QED
    BY <1>a, <1>9, <2>1 DEF FeedShape
<1> QED
  BY <1>1, <1>2, <1>3, <1>4, <1>5, <1>6, <1>7, <1>8, <1>10, <1>11, <1>12
     DEF FeedNext, FeedUser, FeedSystem, FeedAnswers, ClickedAnswers

LEMMA FeedSceneStep ==
  [ClientsNext]_clientVars =>
    \/ scene = "feed" /\ scene' = scene /\ FeedNext
    \/ /\ scene' = scene /\ UNCHANGED <<served, feed>>
       /\ scene = "feed" => token' = token \/ ~token'
<1>1. ASSUME ClientsNext
      PROVE  \/ scene = "feed" /\ scene' = scene /\ FeedNext
             \/ /\ scene' = scene /\ UNCHANGED <<served, feed>>
                /\ scene = "feed" => token' = token \/ ~token'
  BY <1>1 DEF ClientsNext, Others, Scenes, SwitchTab, SignOutElsewhere, Quiet, browserVars,
              feedVars
<1>2. UNCHANGED clientVars => scene' = scene /\ UNCHANGED <<served, feed>> /\ token' = token
  BY DEF clientVars, browserVars, feedVars
<1> QED
  BY <1>1, <1>2

LEMMA FeedClientsStep ==
  FeedInv /\ [ClientsNext]_clientVars => FeedInv' /\ (ListKeeps \/ UNCHANGED feed)
<1> SUFFICES ASSUME FeedInv, [ClientsNext]_clientVars
             PROVE  FeedInv' /\ (ListKeeps \/ UNCHANGED feed)
  OBVIOUS
<1>1. CASE scene = "feed" /\ scene' = scene /\ FeedNext
  BY <1>1, FeedStep
<1>2. CASE /\ scene' = scene /\ UNCHANGED <<served, feed>>
           /\ scene = "feed" => token' = token \/ ~token'
  BY <1>2 DEF FeedInv, FeedShape, AskedForAgent, IsFlight
<1> QED
  BY <1>1, <1>2, FeedSceneStep

THEOREM FeedInvariant == ClientsSpec => []FeedInv
<1>1. ClientsInit => FeedInv
  <2> SUFFICES ASSUME ClientsInit PROVE FeedInv
    OBVIOUS
  <2>1. feed = NewFeed /\ served = [a \in Agents |-> 1]
    BY DEF ClientsInit, FeedInit
  <2>2. <<>> \in Seq({})
    OBVIOUS
  <2> QED
    BY <2>1, <2>2 DEF NewFeed, FeedInv, FeedShape, AskedForAgent, IsFlight
<1> QED
  BY <1>1, FeedClientsStep, PTL DEF ClientsSpec

\* A row that comes into the list is of the agent on screen, whatever answers are late.
THEOREM FeedKeeps == ClientsSpec => FeedKeepsToAgent
<1>1. FeedInv /\ [ClientsNext]_clientVars => [ListKeeps]_feed
  BY FeedClientsStep
<1>2. [ListKeeps]_feed => [token /\ feed'.agent # None =>
         \A i \in 1 .. Len(feed'.events) :
            i > Len(feed.events) \/ feed.events[i] # feed'.events[i] =>
               feed'.events[i].agent = feed'.agent]_feed
  BY DEF ListKeeps
<1> QED
  BY <1>1, <1>2, FeedInvariant, PTL DEF ClientsSpec, FeedKeepsToAgent

-----------------------------------------------------------------------------
(* Sessions and statistics of an agent. *)

SessionsShape ==
    /\ DOMAIN sessions = {"agent", "list", "loading", "error", "flights", "selected", "events",
                          "diff", "detailLoading", "opens"}
    /\ \A r \in sessions.flights : DOMAIN r = {"agent", "live"}

StatsShape ==
    /\ DOMAIN stats = {"agent", "of", "loading", "pollError", "flights"}
    /\ \A r \in stats.flights : DOMAIN r = {"agent", "first", "live"}

\* A request that is still wanted is for the agent on screen.
WantedIsCurrent(s) == \A r \in s.flights : r.live => r.agent = s.agent

ViewsInv == SessionsShape /\ StatsShape /\ WantedIsCurrent(sessions) /\ WantedIsCurrent(stats)

\* What comes in is of the agent on screen.
SessionsKeep == sessions'.list # sessions.list => sessions'.list \in {sessions'.agent, None}
StatsKeep == stats'.of # stats.of => stats'.of \in {stats'.agent, None}

LEMMA SessionsStep ==
  ASSUME SessionsShape, WantedIsCurrent(sessions), SessionsNext
  PROVE  SessionsShape' /\ WantedIsCurrent(sessions)' /\ SessionsKeep
<1> USE DEF SessionsShape, WantedIsCurrent, SessionsKeep
<1>1. ASSUME NEW a, SessionsAgentChanges(a)
      PROVE  SessionsShape' /\ WantedIsCurrent(sessions)' /\ SessionsKeep
  <2>1. \A r \in CleanUp(sessions.flights) : DOMAIN r = {"agent", "live"} /\ ~r.live
    BY DEF CleanUp
  <2>2. DOMAIN Request(a) = {"agent", "live"} /\ Request(a).agent = a
    BY DEF Request
  <2> DEFINE s == [sessions EXCEPT !.agent = a, !.flights = CleanUp(sessions.flights)]
  <2>3. /\ DOMAIN s = DOMAIN sessions /\ s.agent = a /\ s.flights = CleanUp(sessions.flights)
        /\ s.list = sessions.list
    OBVIOUS
  <2>4. sessions' = IF a = None
                    THEN [s EXCEPT !.list = None, !.loading = FALSE]
                    ELSE [s EXCEPT !.loading = TRUE, !.error = FALSE, !.selected = None,
                                   !.events = None, !.diff = None,
                                   !.flights = IF token THEN Put(@, Request(a)) ELSE @]
    BY <1>1 DEF SessionsAgentChanges
  <2> HIDE DEF s
  <2>5. /\ DOMAIN sessions' = DOMAIN sessions /\ sessions'.agent = a
        /\ sessions'.flights \subseteq CleanUp(sessions.flights) \cup {Request(a)}
        /\ sessions'.list \in {sessions.list, None}
    BY <2>3, <2>4 DEF Put
  <2> QED
    BY <2>1, <2>2, <2>5
<1>2. ASSUME NEW r \in sessions.flights, SessionsAnswer(r) \/ SessionsFail(r)
      PROVE  SessionsShape' /\ WantedIsCurrent(sessions)' /\ SessionsKeep
  <2>1. CASE SessionsAnswer(r)
    <3>1. /\ DOMAIN sessions' = DOMAIN sessions /\ sessions'.agent = sessions.agent
          /\ sessions'.flights = sessions.flights \ {r}
          /\ sessions'.list = IF r.live THEN r.agent ELSE sessions.list
      BY <2>1 DEF SessionsAnswer, Drop
    <3> QED
      BY <3>1
  <2>2. CASE SessionsFail(r)
    <3>1. /\ DOMAIN sessions' = DOMAIN sessions /\ sessions'.agent = sessions.agent
          /\ sessions'.flights = sessions.flights \ {r} /\ sessions'.list = sessions.list
      BY <2>2 DEF SessionsFail, Drop
    <3> QED
      BY <3>1
  <2> QED
    BY <1>2, <2>1, <2>2
<1>3. ASSUME NEW o, openSession(o) \/ SessionOpened(o)
      PROVE  SessionsShape' /\ WantedIsCurrent(sessions)' /\ SessionsKeep
  <2>1. /\ DOMAIN sessions' = DOMAIN sessions /\ sessions'.agent = sessions.agent
        /\ sessions'.flights = sessions.flights /\ sessions'.list = sessions.list
    BY <1>3 DEF openSession, SessionOpened
  <2> QED
    BY <2>1
<1> QED
  BY <1>1, <1>2, <1>3 DEF SessionsNext, SessionsUser, SessionsAnswers

LEMMA StatsStep ==
  ASSUME StatsShape, WantedIsCurrent(stats), StatsNext
  PROVE  StatsShape' /\ WantedIsCurrent(stats)' /\ StatsKeep
<1> USE DEF StatsShape, WantedIsCurrent, StatsKeep
<1>1. ASSUME NEW a, StatsAgentChanges(a)
      PROVE  StatsShape' /\ WantedIsCurrent(stats)' /\ StatsKeep
  <2>1. \A r \in CleanUp(stats.flights) : DOMAIN r = {"agent", "first", "live"} /\ ~r.live
    BY DEF CleanUp
  <2>2. /\ DOMAIN StatsRequest(a, TRUE) = {"agent", "first", "live"}
        /\ StatsRequest(a, TRUE).agent = a
    BY DEF StatsRequest
  <2> DEFINE s == [stats EXCEPT !.agent = a, !.flights = CleanUp(stats.flights)]
  <2>3. /\ DOMAIN s = DOMAIN stats /\ s.agent = a /\ s.flights = CleanUp(stats.flights)
        /\ s.of = stats.of
    OBVIOUS
  <2>4. \/ stats' = [s EXCEPT !.of = None, !.loading = FALSE]
        \/ stats' = [s EXCEPT !.loading = FALSE]
        \/ stats' = [s EXCEPT !.loading = TRUE, !.flights = Put(@, StatsRequest(a, TRUE))]
    BY <1>1 DEF StatsAgentChanges
  <2> HIDE DEF s
  <2>5. /\ DOMAIN stats' = DOMAIN stats /\ stats'.agent = a
        /\ stats'.flights \subseteq CleanUp(stats.flights) \cup {StatsRequest(a, TRUE)}
        /\ stats'.of \in {stats.of, None}
    BY <2>3, <2>4 DEF Put
  <2> QED
    BY <2>1, <2>2, <2>5
<1>2. CASE StatsPoll
  BY <1>2 DEF StatsPoll, StatsRequest, Put
<1>3. ASSUME NEW r \in stats.flights, NEW ok \in BOOLEAN, StatsAnswer(r, ok)
      PROVE  StatsShape' /\ WantedIsCurrent(stats)' /\ StatsKeep
  BY <1>3 DEF StatsAnswer, Drop
<1> QED
  BY <1>1, <1>2, <1>3 DEF StatsNext, StatsAnswers

LEMMA ViewsStep ==
  ViewsInv /\ [ClientsNext]_clientVars => ViewsInv' /\ SessionsKeep /\ StatsKeep
<1>1. ASSUME ViewsInv, SessionsNext \/ UNCHANGED sessions
      PROVE  SessionsShape' /\ WantedIsCurrent(sessions)' /\ SessionsKeep
  <2>1. CASE SessionsNext
    BY <1>1, <2>1, SessionsStep DEF ViewsInv
  <2>2. CASE UNCHANGED sessions
    BY <1>1, <2>2 DEF ViewsInv, SessionsShape, WantedIsCurrent, SessionsKeep
  <2> QED
    BY <1>1, <2>1, <2>2
<1>2. ASSUME ViewsInv, StatsNext \/ UNCHANGED stats
      PROVE  StatsShape' /\ WantedIsCurrent(stats)' /\ StatsKeep
  <2>1. CASE StatsNext
    BY <1>2, <2>1, StatsStep DEF ViewsInv
  <2>2. CASE UNCHANGED stats
    BY <1>2, <2>2 DEF ViewsInv, StatsShape, WantedIsCurrent, StatsKeep
  <2> QED
    BY <1>2, <2>1, <2>2
<1> QED
  BY <1>1, <1>2, OneSceneAtATime DEF ScreensStep, ViewsInv

\* Requests that are still wanted are for the agent on screen.
THEOREM ViewsInvariant == ClientsSpec => []ViewsInv
<1>1. ClientsInit => ViewsInv
  BY DEF ClientsInit, SessionsInit, StatsInit, ViewsInv, SessionsShape, StatsShape,
         WantedIsCurrent
<1> QED
  BY <1>1, ViewsStep, PTL DEF ClientsSpec

\* Sessions and statistics that come in are of the agent on screen, in whatever order
\* the answers arrive.
THEOREM ViewsKeep == ClientsSpec => ViewsKeepToAgent
<1>1. ViewsInv /\ [ClientsNext]_clientVars =>
        [/\ sessions'.list # sessions.list => sessions'.list \in {sessions'.agent, None}
         /\ stats'.of # stats.of => stats'.of \in {stats'.agent, None}]_<<sessions, stats>>
  BY ViewsStep DEF SessionsKeep, StatsKeep
<1> QED
  BY <1>1, ViewsInvariant, PTL DEF ClientsSpec, ViewsKeepToAgent

-----------------------------------------------------------------------------
(* Ranges. *)

SampleInv == sample = None \/ sample \in Samples

\* Whole days, of hours.
LEMMA WholeDays ==
  ASSUME NEW span \in Nat, NEW n \in Nat
  PROVE  span <= n * Day => Days(span) <= n
  BY DEF Day, Days

LEMMA BucketsAgree ==
  ASSUME NEW span \in Nat, validateCustomRange(span)
  PROVE  /\ validate_range(span)
         /\ resolve_granularity(span, granularityForSpan(span)) = granularityForSpan(span)
         /\ usage_granularity(span, tokenUsageGranularityForSpan(span))
              = tokenUsageGranularityForSpan(span)
<1>1. validate_range(span)
  BY WholeDays DEF validateCustomRange, validate_range
<1>2. granularityForSpan(span) = "day" => Days(span) <= 92
  BY WholeDays DEF granularityForSpan
<1>3. granularityForSpan(span) \in {"day", "week"}
  BY DEF granularityForSpan
<1>4. resolve_granularity(span, granularityForSpan(span)) = granularityForSpan(span)
  <2>1. CASE granularityForSpan(span) = "week"
    BY <2>1 DEF resolve_granularity
  <2>2. CASE granularityForSpan(span) = "day"
    <3>1. Days(span) \in Int /\ Days(span) <= 92
      BY <1>2, <2>2 DEF Days, Day
    <3>2. ~(Days(span) > 92)
      BY <3>1
    <3> QED
      BY <2>2, <3>1, <3>2 DEF resolve_granularity
  <2> QED
    BY <1>3, <2>1, <2>2
<1>5. tokenUsageGranularityForSpan(span) = "hour" => Days(span) <= 7
  <2>1. tokenUsageGranularityForSpan(span) = "hour" => span <= 2 * Day
    BY <1>3 DEF tokenUsageGranularityForSpan
  <2> QED
    BY <2>1 DEF Days, Day
<1>6. usage_granularity(span, tokenUsageGranularityForSpan(span))
        = tokenUsageGranularityForSpan(span)
  BY <1>5 DEF usage_granularity, Days, Day
<1> QED
  BY <1>1, <1>4, <1>6

\* A custom range that the page accepts is accepted by the API, and the series comes in
\* the buckets that the page asked for.
THEOREM RangesAlwaysAgree == ClientsSpec => []RangesAgree
<1>1. ClientsInit => SampleInv
  BY DEF ClientsInit, LibInit, SampleInv
<1>2. SampleInv /\ [ClientsNext]_clientVars => SampleInv'
  BY OneSceneAtATime DEF ScreensStep, SampleInv, Examine
<1>3. SampleInv => RangesAgree
  <2> SUFFICES ASSUME SampleInv, Sampled("span"), validateCustomRange(sample.span)
               PROVE  RangesAgree
    BY DEF RangesAgree
  <2>1. sample \in Samples /\ sample.kind = "span"
    BY DEF SampleInv, Sampled
  <2>2. sample.span \in Spans
    BY <2>1 DEF Samples
  <2>3. Spans \subseteq Nat
    <3>1. 0 .. 367 * Day + 1 \subseteq Nat
      OBVIOUS
    <3>2. Spans \subseteq 0 .. 367 * Day + 1
      BY Zenon DEF Spans
    <3> QED
      BY <3>1, <3>2, Zenon
  <2>4. sample.span \in Nat
    BY <2>2, <2>3
  <2> QED
    BY <2>4, BucketsAgree DEF RangesAgree
<1> QED
  BY <1>1, <1>2, <1>3, PTL DEF ClientsSpec

-----------------------------------------------------------------------------
(* Suggestions. *)

LEMMA SuggestionFields ==
  ASSUME NEW s \in Suggestions
  PROVE  s.rank \in Int /\ s.confidence \in Int
<1>1. s.rank \in Ranks /\ s.confidence \in Confidences
  BY DEF Suggestions
<1>2. Ranks \subseteq Nat /\ Confidences \subseteq Nat
  BY Zenon, LibAssumption
<1>3. s.rank \in Nat /\ s.confidence \in Nat
  BY <1>1, <1>2, Zenon
<1> QED
  BY <1>3

\* No two of a list are each to be listed before the other.
LEMMA BeforeIsStrict ==
  ASSUME NEW s \in Suggestions, NEW t \in Suggestions, NEW u \in Suggestions
  PROVE  /\ ~Before(s, s)
         /\ Before(s, t) => ~Before(t, s)
         /\ Before(s, t) /\ Before(t, u) => Before(s, u)
         /\ ~Before(s, t) /\ ~Before(t, u) => ~Before(s, u)
<1>1. /\ s.rank \in Int /\ s.confidence \in Int
      /\ t.rank \in Int /\ t.confidence \in Int
      /\ u.rank \in Int /\ u.confidence \in Int
  BY SuggestionFields
<1> QED
  BY <1>1 DEF Before

\* Those that are sorted before each of a list.
AheadIn(list) == [i \in DOMAIN list |-> {j \in DOMAIN list : Precedes(list, j, i)}]

LEMMA ListIsOrdered ==
  ASSUME NEW list \in Seq(Suggestions)
  PROVE  /\ IsFiniteSet(DOMAIN list) /\ DOMAIN list = 1 .. Len(list)
         /\ Len(list) \in Nat /\ Cardinality(DOMAIN list) = Len(list)
         /\ StrictOrder(DOMAIN list, AheadIn(list))
<1> DEFINE D == DOMAIN list
<1>1. Len(list) \in Nat /\ D = 1 .. Len(list) /\ \A i \in D : i \in Int /\ list[i] \in Suggestions
  BY LenProperties
<1>2. IsFiniteSet(D) /\ Cardinality(D) = Len(list)
  BY <1>1, FirstNumbers
<1>3. \A i, j, k \in D : /\ ~Precedes(list, i, i)
                         /\ Precedes(list, i, j) /\ Precedes(list, j, k) => Precedes(list, i, k)
                         /\ i = j \/ Precedes(list, i, j) \/ Precedes(list, j, i)
  <2> TAKE i, j, k \in D
  <2>1. /\ list[i] \in Suggestions /\ i \in Int
        /\ list[j] \in Suggestions /\ j \in Int
        /\ list[k] \in Suggestions /\ k \in Int
    BY <1>1
  <2>2. ~Before(list[i], list[i])
    BY <2>1, BeforeIsStrict
  <2>3. ~Precedes(list, i, i)
    BY <2>1, <2>2 DEF Precedes
  <2>4. ASSUME Precedes(list, i, j), Precedes(list, j, k) PROVE Precedes(list, i, k)
    <3>1. ~Before(list[j], list[i]) /\ ~Before(list[k], list[j])
      BY <2>1, <2>4, BeforeIsStrict DEF Precedes
    <3>2. ~Before(list[k], list[i])
      BY <2>1, <3>1, BeforeIsStrict
    <3>3. CASE i < j /\ j < k
      BY <2>1, <3>2, <3>3 DEF Precedes
    <3>4. CASE Before(list[i], list[j])
      <4>1. ~Before(list[i], list[k]) => ~Before(list[i], list[j])
        BY <2>1, <3>1, BeforeIsStrict
      <4> QED
        BY <3>4, <4>1 DEF Precedes
    <3>5. CASE Before(list[j], list[k])
      <4>1. ~Before(list[i], list[k]) => ~Before(list[j], list[k])
        BY <2>1, <3>1, BeforeIsStrict
      <4> QED
        BY <3>5, <4>1 DEF Precedes
    <3> QED
      BY <2>4, <3>3, <3>4, <3>5 DEF Precedes
  <2>5. i = j \/ Precedes(list, i, j) \/ Precedes(list, j, i)
    BY <2>1 DEF Precedes
  <2> QED
    BY <2>3, <2>4, <2>5
<1>4. StrictOrder(D, AheadIn(list))
  BY <1>3, Zenon DEF StrictOrder, AheadIn
<1> QED
  BY <1>1, <1>2, <1>4

\* Sorting permutes a list, and puts none before one that it is to follow.
LEMMA SortingPermutes ==
  ASSUME NEW list \in Seq(Suggestions)
  PROVE  \E order \in [1 .. Len(list) -> 1 .. Len(list)] :
            /\ Sorted(list) = [place \in 1 .. Len(list) |-> list[order[place]]]
            /\ \A i \in 1 .. Len(list) : \E p \in 1 .. Len(list) : order[p] = i
            /\ \A p, q \in 1 .. Len(list) : order[p] = order[q] => p = q
            /\ \A p, q \in 1 .. Len(list) : p < q => ~Before(list[order[q]], list[order[p]])
<1> DEFINE n == Len(list)
           order == Ranked(DOMAIN list, AheadIn(list))
<1>1. /\ DOMAIN list = 1 .. n /\ IsFiniteSet(1 .. n) /\ Cardinality(1 .. n) = n
      /\ StrictOrder(1 .. n, AheadIn(list))
  BY ListIsOrdered
<1>2. InOrder(order, 1 .. n, AheadIn(list))
  BY <1>1, RankedInOrder
<1>3. Sorted(list) = [place \in 1 .. n |-> list[order[place]]]
  BY Zenon DEF Sorted, AheadIn
<1> HIDE DEF order
<1>4. order \in [1 .. n -> 1 .. n] /\ \A i \in 1 .. n : \E p \in 1 .. n : order[p] = i
  BY <1>1, <1>2 DEF InOrder
<1>5. \A p, q \in 1 .. n : order[p] = order[q] => p = q
  BY <1>1, <1>2, OnePlaceEach
<1>6. \A p, q \in 1 .. n : p < q => ~Before(list[order[q]], list[order[p]])
  <2> TAKE p, q \in 1 .. n
  <2>1. p < q => order[p] \in AheadIn(list)[order[q]]
    BY <1>1, <1>2 DEF InOrder
  <2>2. order[p] \in DOMAIN list /\ order[q] \in DOMAIN list
    BY <1>1, <1>4
  <2>3. p < q => Precedes(list, order[p], order[q])
    BY <2>1, <2>2, Zenon DEF AheadIn
  <2>4. list[order[p]] \in Suggestions /\ list[order[q]] \in Suggestions
    BY <2>2
  <2> QED
    BY <2>3, <2>4, BeforeIsStrict DEF Precedes
<1> QED
  BY <1>3, <1>4, <1>5, <1>6

\* A list in order stays as it is.
LEMMA SortingSorted ==
  ASSUME NEW list \in Seq(Suggestions),
         \A i, j \in 1 .. Len(list) : i < j => ~Before(list[j], list[i])
  PROVE  Sorted(list) = list
<1> DEFINE n == Len(list)
           order == Ranked(DOMAIN list, AheadIn(list))
<1>1. DOMAIN list = 1 .. n /\ n \in Nat /\ Cardinality(1 .. n) = n
  BY ListIsOrdered
<1>2. \A i \in 1 .. n : AheadIn(list)[i] = 1 .. i - 1
  <2> TAKE i \in 1 .. n
  <2>1. \A j \in 1 .. n : Precedes(list, j, i) <=> j < i
    <3> TAKE j \in 1 .. n
    <3>1. i \in Int /\ j \in Int /\ list[i] \in Suggestions /\ list[j] \in Suggestions
      BY <1>1
    <3>2. CASE i = j
      BY <3>1, <3>2, BeforeIsStrict DEF Precedes
    <3>3. CASE j < i
      BY <3>1, <3>3 DEF Precedes
    <3>4. CASE i < j
      BY <3>1, <3>4, BeforeIsStrict DEF Precedes
    <3> QED
      BY <3>1, <3>2, <3>3, <3>4
  <2>2. AheadIn(list)[i] = {j \in 1 .. n : Precedes(list, j, i)}
    BY <1>1, Zenon DEF AheadIn
  <2>3. {j \in 1 .. n : Precedes(list, j, i)} = {j \in 1 .. n : j < i}
    BY <2>1, Zenon
  <2>4. {j \in 1 .. n : j < i} = 1 .. i - 1
    BY <1>1
  <2> QED
    BY <2>2, <2>3, <2>4
<1>3. \A i \in 1 .. n : Cardinality(AheadIn(list)[i]) = i - 1
  BY <1>1, <1>2, FirstNumbers
<1>4. \A p \in 1 .. n : order[p] = p
  <2> TAKE p \in 1 .. n
  <2>1. order[p] = CHOOSE i \in 1 .. n : Cardinality(AheadIn(list)[i]) = p - 1
    BY <1>1 DEF Ranked
  <2>2. \A i \in 1 .. n : Cardinality(AheadIn(list)[i]) = p - 1 <=> i = p
    BY <1>1, <1>3
  <2> QED
    BY <2>1, <2>2
<1>5. Sorted(list) = [place \in 1 .. n |-> list[order[place]]]
  BY Zenon DEF Sorted, AheadIn
<1> HIDE DEF order
<1>6. Sorted(list) = [place \in 1 .. n |-> list[place]]
  BY <1>4, <1>5
<1> QED
  BY <1>1, <1>6

-----------------------------------------------------------------------------
(* One suggestion for each subject. *)

OfSubject(list, subject) == {i \in DOMAIN list : list[i].about = subject}

\* The most confident on a subject that a list has.
LEMMA BestIsMostConfident ==
  ASSUME NEW list \in Seq(Suggestions), NEW subject, OfSubject(list, subject) # {}
  PROVE  /\ Best(list, subject) \in DOMAIN list
         /\ list[Best(list, subject)].about = subject
         /\ \A j \in DOMAIN list : list[j].about = subject =>
               list[j].confidence <= list[Best(list, subject)].confidence
<1> DEFINE S == OfSubject(list, subject)
           Ahead(j, i) == \/ list[j].confidence > list[i].confidence
                          \/ list[j].confidence = list[i].confidence /\ j < i
           ahead == [i \in S |-> {j \in S : Ahead(j, i)}]
<1>1. IsFiniteSet(S)
  <2>1. IsFiniteSet(DOMAIN list)
    BY ListIsOrdered
  <2> QED
    BY <2>1, FS_Subset DEF OfSubject
<1>2. \A i \in DOMAIN list : i \in Int /\ list[i].confidence \in Int
  <2>1. \A i \in DOMAIN list : i \in Int /\ list[i] \in Suggestions
    BY LenProperties
  <2> QED
    BY <2>1, SuggestionFields
<1>3. \A i, j, k \in DOMAIN list : /\ ~Ahead(i, i)
                                   /\ Ahead(i, j) /\ Ahead(j, k) => Ahead(i, k)
                                   /\ i = j \/ Ahead(i, j) \/ Ahead(j, i)
  BY <1>2
<1>4. S \subseteq DOMAIN list
  BY DEF OfSubject
<1> HIDE DEF S, Ahead
<1>5. StrictOrder(S, ahead)
  <2>1. \A i, j, k \in S : /\ ~Ahead(i, i)
                           /\ Ahead(i, j) /\ Ahead(j, k) => Ahead(i, k)
                           /\ i = j \/ Ahead(i, j) \/ Ahead(j, i)
    BY <1>3, <1>4
  <2> QED
    BY <2>1, Zenon DEF StrictOrder
<1>6. S # {}
  BY DEF S
<1>7. PICK i \in S : \A j \in S : i = j \/ i \in ahead[j]
  BY <1>1, <1>5, <1>6, OneIsFirst
<1>8. \A j \in S : i = j \/ Ahead(i, j)
  BY <1>7
<1> DEFINE Is(b) == /\ list[b].about = subject
                    /\ \A j \in DOMAIN list : list[j].about = subject =>
                          \/ list[b].confidence > list[j].confidence
                          \/ list[b].confidence = list[j].confidence /\ b <= j
<1>9. i \in DOMAIN list /\ Is(i)
  BY <1>2, <1>4, <1>7, <1>8 DEF S, OfSubject, Ahead
<1>10. Best(list, subject) = CHOOSE b \in DOMAIN list : Is(b)
  BY Zenon DEF Best
<1>11. Best(list, subject) \in DOMAIN list /\ Is(Best(list, subject))
  BY <1>9, <1>10, Zenon
<1> QED
  BY <1>2, <1>11

\* A list of one suggestion for a subject, each the most confident of a longer list.
OneEach(best, list) ==
    /\ best \in Seq(Suggestions)
    /\ \A p, q \in 1 .. Len(best) : best[p].about = best[q].about => p = q
    /\ \A p \in 1 .. Len(best) :
          /\ best[p] \in Range(list)
          /\ \A s \in Range(list) : s.about = best[p].about => s.confidence <= best[p].confidence

LEMMA BestIsOneEach ==
  ASSUME NEW list \in Seq(Suggestions)
  PROVE  OneEach(BestOnSubject(list), list)
<1> DEFINE firsts == {i \in DOMAIN list : \A j \in 1 .. i - 1 : list[j].about # list[i].about}
           ahead == [i \in firsts |-> {j \in firsts : j < i}]
           order == Ranked(firsts, ahead)
           n == Cardinality(firsts)
           of(p) == list[order[p]].about
           best == BestOnSubject(list)
<1>1. /\ DOMAIN list = 1 .. Len(list) /\ Len(list) \in Nat /\ IsFiniteSet(DOMAIN list)
      /\ \A i \in DOMAIN list : i \in Nat /\ list[i] \in Suggestions
  BY ListIsOrdered, LenProperties
<1>2. firsts \subseteq DOMAIN list
  OBVIOUS
<1>3. IsFiniteSet(firsts) /\ n \in Nat
  BY <1>1, <1>2, FS_Subset, FS_CardinalityType
<1>4. \A i, j \in firsts : list[i].about = list[j].about => i = j
  <2> TAKE i, j \in firsts
  <2>1. i \in 1 .. Len(list) /\ j \in 1 .. Len(list)
    BY <1>1
  <2>2. i < j => i \in 1 .. j - 1
    BY <1>1, <2>1
  <2>3. j < i => j \in 1 .. i - 1
    BY <1>1, <2>1
  <2> QED
    BY <1>1, <2>1, <2>2, <2>3
<1>5. best = [place \in 1 .. n |-> list[Best(list, of(place))]]
  BY Zenon DEF BestOnSubject
<1> HIDE DEF firsts, best
<1>6. StrictOrder(firsts, ahead)
  BY <1>1, <1>2 DEF StrictOrder
<1> HIDE DEF ahead
<1>7. InOrder(order, firsts, ahead)
  BY <1>3, <1>6, RankedInOrder
<1> HIDE DEF order
<1>8. \A p \in 1 .. n : order[p] \in firsts
  BY <1>7 DEF InOrder
<1>9. \A p \in 1 .. n :
         /\ Best(list, of(p)) \in DOMAIN list
         /\ list[Best(list, of(p))].about = of(p)
         /\ \A j \in DOMAIN list : list[j].about = of(p) =>
               list[j].confidence <= list[Best(list, of(p))].confidence
  <2> TAKE p \in 1 .. n
  <2>1. order[p] \in OfSubject(list, of(p))
    BY <1>2, <1>8 DEF OfSubject
  <2> QED
    BY <2>1, BestIsMostConfident
<1>10. best \in Seq(Suggestions) /\ Len(best) = n
  BY <1>1, <1>3, <1>5, <1>9
<1>11. \A p, q \in 1 .. n : best[p].about = best[q].about => p = q
  <2> TAKE p, q \in 1 .. n
  <2>1. best[p].about = of(p) /\ best[q].about = of(q)
    BY <1>5, <1>9
  <2>2. of(p) = of(q) => order[p] = order[q]
    BY <1>4, <1>8
  <2> QED
    BY <1>3, <1>6, <1>7, <2>1, <2>2, OnePlaceEach
<1>12. \A p \in 1 .. n :
          /\ best[p] \in Range(list)
          /\ \A s \in Range(list) : s.about = best[p].about => s.confidence <= best[p].confidence
  BY <1>5, <1>9 DEF Range
<1> QED
  BY <1>10, <1>11, <1>12 DEF OneEach, best

\* What the API answers with: in order, one for a subject, and no more than the cap.
LEMMA AnswerInOrder ==
  ASSUME NEW list \in Seq(Suggestions)
  PROVE  /\ OneEach(validate_suggestions(list), list)
         /\ \A i, j \in 1 .. Len(validate_suggestions(list)) :
               i < j => ~Before(validate_suggestions(list)[j], validate_suggestions(list)[i])
         /\ \A s \in Range(BestOnSubject(list)) :
               \/ s \in Range(validate_suggestions(list))
               \/ \A i \in 1 .. Len(validate_suggestions(list)) :
                     ~Before(s, validate_suggestions(list)[i])
<1> DEFINE best == BestOnSubject(list)
           api == validate_suggestions(list)
           n == Len(best)
           m == IF n < MaxSuggestions THEN n ELSE MaxSuggestions
<1>1. OneEach(best, list)
  BY BestIsOneEach
<1>2. best \in Seq(Suggestions) /\ n \in Nat
  BY <1>1 DEF OneEach
<1>3. PICK order \in [1 .. n -> 1 .. n] :
         /\ Sorted(best) = [place \in 1 .. n |-> best[order[place]]]
         /\ \A i \in 1 .. n : \E p \in 1 .. n : order[p] = i
         /\ \A p, q \in 1 .. n : order[p] = order[q] => p = q
         /\ \A p, q \in 1 .. n : p < q => ~Before(best[order[q]], best[order[p]])
  BY <1>2, SortingPermutes
<1>4. m \in Nat /\ m <= n
  <2>1. MaxSuggestions \in Nat
    BY Zenon, LibAssumption
  <2> QED
    BY <1>2, <2>1
<1>5. Len(Sorted(best)) = n
  BY <1>2, <1>3
<1>6. api = SubSeq(Sorted(best), 1, m)
  BY <1>5, Zenon DEF validate_suggestions, Capped
<1> HIDE DEF best, api, n, m
<1>7. Sorted(best) \in Seq(Suggestions)
  <2>1. \A p \in 1 .. n : best[order[p]] \in Suggestions
    BY <1>2 DEF n
  <2> QED
    BY <1>2, <1>3, <2>1
<1>8. /\ api \in Seq(Suggestions) /\ Len(api) = m
      /\ \A i \in 1 .. m : i \in 1 .. n /\ api[i] = best[order[i]]
  <2>1. \A i \in 1 .. m : i \in 1 .. n /\ Sorted(best)[i] = best[order[i]] /\ Sorted(best)[i] \in Suggestions
    BY <1>2, <1>3, <1>4, <1>5, <1>7
  <2>2. /\ SubSeq(Sorted(best), 1, m) \in Seq(Suggestions)
        /\ Len(SubSeq(Sorted(best), 1, m)) = m
        /\ \A i \in 1 .. m : SubSeq(Sorted(best), 1, m)[i] = Sorted(best)[i]
    BY <1>4, <1>5, <1>7, <2>1, SubSeqProperties
  <2> QED
    BY <1>6, <2>1, <2>2
<1>9. OneEach(api, list)
  <2>1. \A p \in 1 .. m : p \in 1 .. n /\ order[p] \in 1 .. n /\ api[p] = best[order[p]]
    BY <1>3, <1>8
  <2>2. \A p, q \in 1 .. m : api[p].about = api[q].about => p = q
    <3> TAKE p, q \in 1 .. m
    <3>1. best[order[p]].about = best[order[q]].about => order[p] = order[q]
      BY <1>1, <2>1 DEF OneEach, n
    <3> QED
      BY <1>3, <2>1, <3>1
  <2>3. \A p \in 1 .. m :
           /\ api[p] \in Range(list)
           /\ \A s \in Range(list) : s.about = api[p].about => s.confidence <= api[p].confidence
    BY <1>1, <2>1 DEF OneEach, n
  <2> QED
    BY <1>8, <2>2, <2>3 DEF OneEach
<1>10. \A i, j \in 1 .. m : i < j => ~Before(api[j], api[i])
  <2> TAKE i, j \in 1 .. m
  <2>1. i \in 1 .. n /\ j \in 1 .. n /\ api[i] = best[order[i]] /\ api[j] = best[order[j]]
    BY <1>8
  <2>2. i < j => ~Before(best[order[j]], best[order[i]])
    BY <1>3, <2>1
  <2> QED
    BY <2>1, <2>2
<1>11. \A s \in Range(best) : s \in Range(api) \/ \A i \in 1 .. m : ~Before(s, api[i])
  <2> TAKE s \in Range(best)
  <2>1. PICK k \in 1 .. n : s = best[k]
    BY <1>2 DEF Range, n
  <2>2. PICK p \in 1 .. n : order[p] = k
    BY <1>3
  <2>3. CASE p <= m
    <3>1. p \in 1 .. m /\ api[p] = s
      BY <1>2, <1>4, <1>8, <2>1, <2>2, <2>3
    <3> QED
      BY <1>4, <1>8, <3>1 DEF Range
  <2>4. CASE m < p
    <3> SUFFICES ASSUME NEW i \in 1 .. m
                 PROVE  ~Before(s, api[i])
      OBVIOUS
    <3>1. i \in 1 .. n /\ i < p /\ api[i] = best[order[i]]
      BY <1>2, <1>4, <1>8, <2>4
    <3>2. ~Before(best[order[p]], best[order[i]])
      BY <1>3, <3>1
    <3> QED
      BY <2>1, <2>2, <3>1, <3>2
  <2> QED
    BY <1>2, <1>4, <2>3, <2>4
<1> QED
  BY <1>8, <1>9, <1>10, <1>11 DEF api, best

\* The page shows the suggestions in the order of the API, one for a subject and the
\* most confident on it, and the cap leaves none out for one that matters less.
THEOREM MostSevereAlwaysShown == ClientsSpec => []MostSevereShown
<1>1. ClientsInit => SampleInv
  BY DEF ClientsInit, LibInit, SampleInv
<1>2. SampleInv /\ [ClientsNext]_clientVars => SampleInv'
  BY OneSceneAtATime DEF ScreensStep, SampleInv, Examine
<1>3. SampleInv => MostSevereShown
  <2> SUFFICES ASSUME SampleInv, Sampled("suggestions")
               PROVE  MostSevereShown
    BY DEF MostSevereShown
  <2> DEFINE list == sample.list
             api == validate_suggestions(list)
  <2>1. sample \in Samples /\ sample.kind = "suggestions"
    BY DEF SampleInv, Sampled
  <2>2. PICK n \in 0 .. MaxList : list \in [1 .. n -> Suggestions]
    BY <2>1 DEF Samples
  <2>3. list \in Seq(Suggestions)
    BY <2>2
  <2> HIDE DEF list
  <2>4. /\ OneEach(api, list)
        /\ \A i, j \in 1 .. Len(api) : i < j => ~Before(api[j], api[i])
        /\ \A s \in Range(BestOnSubject(list)) :
              s \in Range(api) \/ \A i \in 1 .. Len(api) : ~Before(s, api[i])
    BY <2>3, AnswerInOrder
  <2>5. sortSuggestions(api) = api
    BY <2>4, SortingSorted DEF sortSuggestions, OneEach
  <2> HIDE DEF api
  <2>6. \A i, j \in 1 .. Len(api) : i < j => api[i].about # api[j].about
    BY <2>4 DEF OneEach
  <2> QED
    BY <2>4, <2>5, <2>6, Zenon DEF MostSevereShown, OneEach, api, list
<1> QED
  BY <1>1, <1>2, <1>3, PTL DEF ClientsSpec

-----------------------------------------------------------------------------
(* Who waits for what, screen by screen.  A component's ...Await(s) is what its      *)
(* screen owes; its ...Wait(s) is that with the shape that makes it inductive.       *)

\* The fields of the panel of one event.
ChainShape == DOMAIN panel = {"selected", "tab", "chain", "loading", "error", "cache", "flights"}

\* The skeleton of the feed waits for a request of the effect on screen, and the panel
\* of an event for a chain.
FeedAwaits ==
    /\ feed.loading => \E f \in feed.flights : f.first
    /\ panel.loading => panel.flights # {}

FeedWaits == ChainShape /\ FeedAwaits

LEMMA FetchAwaits ==
  ASSUME NEW f, NEW page, NEW append, NEW type, NEW first, FeedShape, DOMAIN f = DOMAIN feed,
         f.loading => (\E g \in f.flights : g.first) \/ (first /\ token /\ f.agent # None),
         feed' = fetchEvents(f, page, append, type, first)
  PROVE  feed'.loading => \E g \in feed'.flights : g.first
<1>1. CASE f.agent = None \/ ~token
  <2>1. feed' = f
    BY <1>1 DEF fetchEvents
  <2> QED
    BY <1>1, <2>1
<1>2. CASE f.agent # None /\ token
  <2> DEFINE new == Flight(f.agent, page, append, type, first)
  <2>1. feed' = [f EXCEPT !.requestFor = f.agent, !.flights = @ \cup {new}]
    BY <1>2, Zenon DEF fetchEvents
  <2>2. new.first = first
    BY DEF Flight
  <2> HIDE DEF new
  <2>3. feed'.loading = f.loading /\ feed'.flights = f.flights \cup {new}
    BY <2>1 DEF FeedShape
  <2> QED
    BY <2>2, <2>3
<1> QED
  BY <1>1, <1>2

LEMMA FeedWaitsStep == FeedInv /\ FeedWaits /\ FeedNext => FeedWaits'
<1> SUFFICES ASSUME FeedInv, FeedWaits, FeedNext PROVE FeedWaits'
  OBVIOUS
<1>a. FeedShape /\ (\A f \in feed.flights : IsFlight(f))
  BY DEF FeedInv
<1>b. ChainShape /\ FeedAwaits
  BY DEF FeedWaits
<1>c. ASSUME UNCHANGED feed, ChainShape', panel'.loading => panel'.flights # {}
      PROVE  FeedWaits'
  BY <1>b, <1>c DEF FeedWaits, FeedAwaits
<1>d. ASSUME UNCHANGED panel, feed'.loading => \E f \in feed'.flights : f.first PROVE FeedWaits'
  BY <1>b, <1>d DEF FeedWaits, FeedAwaits, ChainShape
<1>1. ASSUME NEW a \in Agents \cup {None}, FeedAgentChanges(a) PROVE FeedWaits'
  <2> DEFINE f == [feed EXCEPT !.agent = a, !.flights = Cancelled(@)]
             g == [f EXCEPT !.loading = token, !.page = 1, !.filter = None,
                            !.results = None, !.searchError = FALSE]
  <2>1. DOMAIN f = DOMAIN feed /\ f.agent = a
    BY <1>a DEF FeedShape
  <2>2. CASE a = None
    <3>1. feed' = [f EXCEPT !.events = <<>>, !.loading = FALSE] /\ UNCHANGED panel
      BY <1>1, <2>2, Zenon DEF FeedAgentChanges
    <3>2. ~feed'.loading
      BY <1>a, <2>1, <3>1 DEF FeedShape
    <3> QED
      BY <1>d, <3>1, <3>2
  <2>3. CASE a # None
    <3>1. feed' = fetchEvents(g, 1, FALSE, None, TRUE) /\ UNCHANGED panel
      BY <1>1, <2>3, Zenon DEF FeedAgentChanges
    <3>2. DOMAIN g = DOMAIN feed /\ g.agent = a /\ g.loading = token
      BY <1>a, <2>1 DEF FeedShape
    <3> HIDE DEF f, g
    <3>3. feed'.loading => \E h \in feed'.flights : h.first
      BY <1>a, <2>3, <3>1, <3>2, FetchAwaits
    <3> QED
      BY <1>d, <3>1, <3>3
  <2> QED
    BY <2>2, <2>3
<1>e. ASSUME NEW f, NEW page, NEW append, NEW type, DOMAIN f = DOMAIN feed,
             f.loading = feed.loading, f.flights = feed.flights,
             feed' = fetchEvents(f, page, append, type, FALSE)
      PROVE  feed'.loading => \E g \in feed'.flights : g.first
  <2>1. f.loading => \E g \in f.flights : g.first
    BY <1>b, <1>e DEF FeedAwaits
  <2> QED
    BY <1>a, <1>e, <2>1, FetchAwaits
<1>2. ASSUME NEW type, changeFilter(type) PROVE FeedWaits'
  <2> DEFINE f == [feed EXCEPT !.filter = type, !.page = 1, !.searchError = FALSE]
  <2>1. feed' = fetchEvents(f, 1, FALSE, type, FALSE) /\ panel' = ResetPanel(panel)
    BY <1>2, Zenon DEF changeFilter
  <2>2. DOMAIN f = DOMAIN feed /\ f.loading = feed.loading /\ f.flights = feed.flights
    BY <1>a DEF FeedShape
  <2> HIDE DEF f
  <2>3. feed'.loading => \E g \in feed'.flights : g.first
    BY <1>e, <2>1, <2>2
  <2>4. ChainShape' /\ (panel'.loading => panel'.flights # {})
    BY <1>b, <2>1 DEF ResetPanel, ChainShape, FeedAwaits
  <2> QED
    BY <2>3, <2>4 DEF FeedWaits, FeedAwaits
<1>3. ASSUME loadMore PROVE FeedWaits'
  <2> DEFINE f == [feed EXCEPT !.page = @ + 1]
  <2>1. feed' = fetchEvents(f, feed.page + 1, TRUE, feed.filter, FALSE) /\ UNCHANGED panel
    BY <1>3, Zenon DEF loadMore
  <2>2. DOMAIN f = DOMAIN feed /\ f.loading = feed.loading /\ f.flights = feed.flights
    BY <1>a DEF FeedShape
  <2> HIDE DEF f
  <2> QED
    BY <1>d, <1>e, <2>1, <2>2
<1>4. ASSUME refresh PROVE FeedWaits'
  <2> DEFINE f == [feed EXCEPT !.page = 1]
  <2>1. feed' = fetchEvents(f, 1, FALSE, feed.filter, FALSE) /\ UNCHANGED panel
    BY <1>4, Zenon DEF refresh
  <2>2. DOMAIN f = DOMAIN feed /\ f.loading = feed.loading /\ f.flights = feed.flights
    BY <1>a DEF FeedShape
  <2> HIDE DEF f
  <2> QED
    BY <1>d, <1>e, <2>1, <2>2
<1>5. ASSUME FeedPoll PROVE FeedWaits'
  <2>1. feed' = fetchEvents(feed, 1, FALSE, feed.filter, FALSE) /\ UNCHANGED panel
    BY <1>5, Zenon DEF FeedPoll
  <2> QED
    BY <1>d, <1>e, <2>1
<1>6. ASSUME NEW f \in feed.flights, FeedAnswer(f) PROVE FeedWaits'
  <2> DEFINE g == [feed EXCEPT !.flights = @ \ {f}, !.loading = @ /\ ~f.first]
  <2>1. PICK rows : feed' = IF feed.requestFor # f.agent
                            THEN g
                            ELSE [g EXCEPT !.events = IF f.append THEN @ \o rows ELSE rows,
                                           !.hasMore = Len(rows) = PageSize, !.error = FALSE]
    BY <1>6, Zenon DEF FeedAnswer
  <2>2. DOMAIN g = DOMAIN feed /\ g.loading = (feed.loading /\ ~f.first)
        /\ g.flights = feed.flights \ {f}
    BY <1>a DEF FeedShape
  <2> HIDE DEF g
  <2>3. feed'.loading = g.loading /\ feed'.flights = g.flights
    BY <1>a, <2>1, <2>2 DEF FeedShape
  <2>4. UNCHANGED panel
    BY <1>6 DEF FeedAnswer
  <2> QED
    BY <1>b, <1>d, <2>2, <2>3, <2>4 DEF FeedAwaits
<1>7. ASSUME NEW f \in feed.flights, FeedFails(f) PROVE FeedWaits'
  <2>1. /\ feed'.loading = (feed.loading /\ ~f.first) /\ feed'.flights = feed.flights \ {f}
        /\ UNCHANGED panel
    BY <1>a, <1>7 DEF FeedFails, FeedShape
  <2> QED
    BY <1>b, <1>d, <2>1 DEF FeedAwaits
<1>8. ASSUME runSearch \/ SearchAnswer \/ SearchFails \/ clearSearch PROVE FeedWaits'
  <2>1. feed'.loading = feed.loading /\ feed'.flights = feed.flights
    BY <1>a, <1>8 DEF runSearch, SearchAnswer, SearchFails, clearSearch, FeedShape
  <2>2. ChainShape' /\ (panel'.loading => panel'.flights # {})
    BY <1>b, <1>8
       DEF runSearch, SearchAnswer, SearchFails, clearSearch, ResetPanel, ChainShape,
           FeedAwaits
  <2> QED
    BY <1>b, <2>1, <2>2 DEF FeedWaits, FeedAwaits
<1>9. ASSUME NEW a \in Agents, EventRecorded(a) PROVE FeedWaits'
  BY <1>9, <1>b, <1>c DEF EventRecorded, ChainShape, FeedAwaits
<1>10. ASSUME NEW r, selectEvent(r) \/ WhyAnswer(r) \/ WhyFails(r) PROVE FeedWaits'
  <2>1. ChainShape' /\ (panel'.loading => panel'.flights # {}) /\ UNCHANGED feed
    BY <1>b, <1>10 DEF selectEvent, WhyAnswer, WhyFails, ResetPanel, ChainShape, FeedAwaits
  <2> QED
    BY <1>c, <2>1
<1>11. ASSUME traceWhy \/ showData \/ SwitchSegment PROVE FeedWaits'
  <2>1. CASE traceWhy
    <3> DEFINE p == [panel EXCEPT !.tab = "why", !.error = FALSE]
    <3>1. /\ DOMAIN p = DOMAIN panel /\ p.loading = panel.loading /\ p.flights = panel.flights
          /\ p.selected = panel.selected
      BY <1>b DEF ChainShape
    <3>2. /\ UNCHANGED feed
          /\ \/ panel' = [p EXCEPT !.chain = p.selected]
             \/ panel' = p
             \/ panel' = [p EXCEPT !.loading = TRUE, !.flights = @ \cup {p.selected}]
      BY <2>1, Zenon DEF traceWhy
    <3> HIDE DEF p
    <3>3. ChainShape' /\ (panel'.loading => panel'.flights # {})
      BY <1>b, <3>1, <3>2 DEF ChainShape, FeedAwaits
    <3> QED
      BY <1>c, <3>2, <3>3
  <2>2. CASE showData \/ SwitchSegment
    <3>1. ChainShape' /\ (panel'.loading => panel'.flights # {}) /\ UNCHANGED feed
      BY <1>b, <2>2 DEF showData, SwitchSegment, NewPanel, ChainShape, FeedAwaits
    <3> QED
      BY <1>c, <3>1
  <2> QED
    BY <1>11, <2>1, <2>2
<1> QED
  BY <1>1, <1>2, <1>3, <1>4, <1>5, <1>6, <1>7, <1>8, <1>9, <1>10, <1>11
     DEF FeedNext, FeedUser, FeedSystem, FeedAnswers, ClickedAnswers

-----------------------------------------------------------------------------
(* The sessions, the timeline, time travel and the statistics. *)

\* The list of sessions waits for a request of the effect on screen, the detail for a
\* session that was opened.
SessionsAwait ==
    /\ sessions.loading /\ token => \E r \in sessions.flights : r.live
    /\ sessions.detailLoading => sessions.opens # {}

SessionsWait == SessionsAwait /\ (sessions.loading => scene = "sessions")

LEMMA SessionsWaitStep ==
  SessionsShape /\ SessionsWait /\ SessionsNext /\ scene = "sessions" /\ scene' = scene
    => SessionsWait'
<1> SUFFICES ASSUME SessionsShape, SessionsWait, SessionsNext, scene = "sessions", scene' = scene
             PROVE  SessionsWait'
  OBVIOUS
<1> USE DEF SessionsShape, SessionsWait, SessionsAwait
<1>a. token' = token
  BY Zenon
     DEF SessionsNext, SessionsUser, SessionsAnswers, SessionsAgentChanges,
         SessionsAnswer, SessionsFail, openSession, SessionOpened, Acts, Quiet,
         browserVars
<1>1. ASSUME NEW a, SessionsAgentChanges(a) PROVE SessionsWait'
  <2> DEFINE s == [sessions EXCEPT !.agent = a, !.flights = CleanUp(sessions.flights)]
  <2>1. DOMAIN s = DOMAIN sessions /\ s.detailLoading = sessions.detailLoading
        /\ s.opens = sessions.opens
    OBVIOUS
  <2>2. Request(a).live
    BY DEF Request
  <2>3. sessions' = IF a = None
                    THEN [s EXCEPT !.list = None, !.loading = FALSE]
                    ELSE [s EXCEPT !.loading = TRUE, !.error = FALSE, !.selected = None,
                                   !.events = None, !.diff = None,
                                   !.flights = IF token THEN Put(@, Request(a)) ELSE @]
    BY <1>1, Zenon DEF SessionsAgentChanges
  <2> HIDE DEF s
  <2>4. sessions'.detailLoading = sessions.detailLoading /\ sessions'.opens = sessions.opens
    BY <2>1, <2>3
  <2>5. sessions'.loading /\ token => Request(a) \in sessions'.flights
    BY <2>1, <2>3 DEF Put
  <2> QED
    BY <1>a, <2>2, <2>4, <2>5
<1>2. ASSUME NEW r \in sessions.flights, SessionsAnswer(r) \/ SessionsFail(r) PROVE SessionsWait'
  BY <1>a, <1>2 DEF SessionsAnswer, SessionsFail, Drop
<1>3. ASSUME NEW s, openSession(s) \/ SessionOpened(s) PROVE SessionsWait'
  BY <1>a, <1>3 DEF openSession, SessionOpened, Put, Drop
<1> QED
  BY <1>1, <1>2, <1>3 DEF SessionsNext, SessionsUser, SessionsAnswers

\* The timeline waits for its list, and a session of it for its events or a trace.
TimelineAwaits ==
    /\ timeline.mounted /\ timeline.loading /\ token => timeline.list
    /\ timeline.detailLoading => timeline.opens # {} \/ timeline.traces # {}

TimelineWaits ==
    /\ DOMAIN timeline = {"mounted", "listed", "selected", "events", "chain", "loading",
                          "detailLoading", "error", "opens", "traces", "list"}
    /\ TimelineAwaits
    /\ timeline.mounted => scene = "timeline"

LEMMA TimelineWaitsStep ==
  TimelineWaits /\ TimelineNext /\ scene = "timeline" /\ scene' = scene => TimelineWaits'
<1> SUFFICES ASSUME TimelineWaits, TimelineNext, scene = "timeline", scene' = scene
             PROVE  TimelineWaits'
  OBVIOUS
<1> USE DEF TimelineWaits, TimelineAwaits
<1>1. CASE TimelineMounts
  BY <1>1 DEF TimelineMounts, Quiet, browserVars
<1>2. ASSUME NEW n, openTimeline(n) PROVE TimelineWaits'
  BY <1>2 DEF openTimeline, Acts, Put
<1>3. CASE traceTimeline
  BY <1>3 DEF traceTimeline, Acts, Put
<1>4. ASSUME NEW ok \in BOOLEAN, TimelineListed(ok) PROVE TimelineWaits'
  BY <1>4 DEF TimelineListed, Acts, Quiet, browserVars
<1>5. ASSUME NEW n, NEW ok \in BOOLEAN, TimelineOpened(n, ok) PROVE TimelineWaits'
  BY <1>5 DEF TimelineOpened, Acts, Quiet, browserVars
<1>6. ASSUME NEW t, NEW ok \in BOOLEAN, TimelineTraced(t, ok) PROVE TimelineWaits'
  BY <1>6 DEF TimelineTraced, Acts, Quiet, browserVars
<1> QED
  BY <1>1, <1>2, <1>3, <1>4, <1>5, <1>6 DEF TimelineNext, TimelineAnswers

\* A travel in time waits for its answer.
TravelAwaits == travel.loading => travel.flights # {}

TravelWaits ==
    /\ DOMAIN travel = {"agent", "timestamp", "loading", "result", "error", "flights"}
    /\ TravelAwaits

LEMMA TravelWaitsStep == TravelWaits /\ TravelNext => TravelWaits'
<1> SUFFICES ASSUME TravelWaits, TravelNext PROVE TravelWaits'
  OBVIOUS
<1> USE DEF TravelWaits, TravelAwaits
<1>1. ASSUME NEW a, TravelAgentChanges(a) \/ setTimestamp(a) PROVE TravelWaits'
  BY <1>1 DEF TravelAgentChanges, setTimestamp
<1>2. CASE runTravel
  BY <1>2 DEF runTravel, Put
<1>3. ASSUME NEW r, NEW ok \in BOOLEAN, TravelAnswer(r, ok) PROVE TravelWaits'
  BY <1>3 DEF TravelAnswer
<1> QED
  BY <1>1, <1>2, <1>3 DEF TravelNext, TravelAnswers

\* The statistics wait for the first request of the agent on screen.
StatsAwait == stats.loading => \E r \in stats.flights : r.first /\ r.live

LEMMA StatsAwaitStep == StatsShape /\ StatsAwait /\ StatsNext => StatsAwait'
<1> SUFFICES ASSUME StatsShape, StatsAwait, StatsNext PROVE StatsAwait'
  OBVIOUS
<1> USE DEF StatsShape, StatsAwait
<1>1. ASSUME NEW a, StatsAgentChanges(a) PROVE StatsAwait'
  <2> DEFINE s == [stats EXCEPT !.agent = a, !.flights = CleanUp(stats.flights)]
             new == StatsRequest(a, TRUE)
  <2>1. DOMAIN s = DOMAIN stats
    OBVIOUS
  <2>2. new.live /\ new.first
    BY DEF StatsRequest
  <2>3. \/ stats' = [s EXCEPT !.of = None, !.loading = FALSE]
        \/ stats' = [s EXCEPT !.loading = FALSE]
        \/ stats' = [s EXCEPT !.loading = TRUE, !.flights = Put(@, new)]
    BY <1>1, Zenon DEF StatsAgentChanges
  <2> HIDE DEF s, new
  <2>4. stats'.loading => new \in stats'.flights
    BY <2>1, <2>3 DEF Put
  <2> QED
    BY <2>2, <2>4
<1>2. CASE StatsPoll
  <2> DEFINE new == StatsRequest(stats.agent, FALSE)
  <2>1. stats' = [stats EXCEPT !.flights = Put(@, new)]
    BY <1>2 DEF StatsPoll
  <2> HIDE DEF new
  <2> QED
    BY <2>1 DEF Put
<1>3. ASSUME NEW r \in stats.flights, NEW ok \in BOOLEAN, StatsAnswer(r, ok) PROVE StatsAwait'
  BY <1>3 DEF StatsAnswer, Drop
<1> QED
  BY <1>1, <1>2, <1>3 DEF StatsNext, StatsAnswers

-----------------------------------------------------------------------------
(* The reports. *)

\* A report that loads or renews itself waits for a request of the effect on screen.
ReportAwaits ==
    report.agent # None /\ token /\ (report.loading \/ report.refreshing) =>
       \E f \in report.flights : f.live

\* The same of a state, which is renewing its result only if it has a range.
Awaits(s) ==
    /\ s.agent # None /\ token /\ (s.loading \/ s.refreshing) => \E f \in s.flights : f.live
    /\ s.refreshing => s.range # None

ReportWaits ==
    /\ Awaits(report)
    /\ report.page = None => report.agent = None /\ ~report.refreshing

LEMMA AskedAwaits ==
  ASSUME NEW s, IsReport(s), NEW t, Asking(s, t)
  PROVE  t.agent = s.agent /\ t.range = s.range /\ t.page = s.page /\ \E f \in t.flights : f.live
<1> DEFINE new == [agent |-> s.agent, range |-> s.range, live |-> TRUE,
                   refresh |-> s.page = "suggestions" /\ s.regenerated]
<1>1. new \in Ask(s) /\ new.live
  BY DEF Ask, Put
<1>2. /\ t.flights = Ask(s)
      /\ t.agent = s.agent /\ t.range = s.range /\ t.page = s.page
  BY DEF Asking, IsReport, ReportFields
<1> HIDE DEF new
<1> QED
  BY <1>1, <1>2

LEMMA EffectAwaits ==
  ASSUME NEW s, IsReport(s), s.page \in Pages, s.refreshing => s.range # None
  PROVE  Awaits(Effect(s)) /\ Effect(s).page = s.page
<1> DEFINE Waits(t) == Awaits(t) /\ t.page = s.page
<1>1. ASSUME s.agent = None \/ s.range = None PROVE Waits(Nothing(s))
  <2> DEFINE c == Cancel(s)
  <2>1. IsReport(c) /\ c.agent = s.agent /\ c.range = s.range /\ c.page = s.page
        /\ c.refreshing = s.refreshing
    BY Cancels DEF Cancel, IsReport, ReportFields
  <2>2. Nothing(s) = [c EXCEPT !.data = None, !.loading = FALSE]
    BY DEF Nothing
  <2> HIDE DEF c
  <2> QED
    BY <1>1, <2>1, <2>2 DEF IsReport, ReportFields, Awaits
<1>2. ASSUME NEW t, ~token, t = Cancel(s) \/ t = [Cancel(s) EXCEPT !.loading = FALSE]
      PROVE  Waits(t)
  <2> DEFINE c == Cancel(s)
  <2>1. IsReport(c) /\ c.agent = s.agent /\ c.range = s.range /\ c.page = s.page
        /\ c.refreshing = s.refreshing
    BY Cancels DEF Cancel, IsReport, ReportFields
  <2> HIDE DEF c
  <2>2. t = c \/ t = [c EXCEPT !.loading = FALSE]
    BY <1>2 DEF c
  <2> QED
    BY <1>2, <2>1, <2>2 DEF IsReport, ReportFields, Awaits
<1>3. ASSUME NEW t,
             \/ /\ t = [s EXCEPT !.refreshing = TRUE, !.error = FALSE, !.flights = Ask(s)]
                /\ s.range # None
             \/ t = [s EXCEPT !.loading = TRUE, !.error = FALSE, !.flights = Ask(s)]
      PROVE  Waits(t)
  <2>1. \/ t = [s EXCEPT !.loading = s.loading, !.refreshing = TRUE, !.error = FALSE,
                         !.flights = Ask(s)] /\ s.range # None
        \/ t = [s EXCEPT !.loading = TRUE, !.refreshing = s.refreshing, !.error = FALSE,
                         !.flights = Ask(s)]
    BY <1>3 DEF IsReport, ReportFields
  <2>2. Asking(s, t)
    BY <2>1, Zenon DEF Asking
  <2>3. t.refreshing => s.range # None
    BY <2>1 DEF IsReport, ReportFields
  <2> QED
    BY <2>2, <2>3, AskedAwaits DEF Awaits
<1>4. ASSUME s.range # None PROVE Waits(Load(s))
  <2>1. \/ Load(s) = [s EXCEPT !.refreshing = TRUE, !.error = FALSE, !.flights = Ask(s)]
        \/ Load(s) = [s EXCEPT !.loading = TRUE, !.error = FALSE, !.flights = Ask(s)]
    BY Zenon DEF Load
  <2> QED
    BY <1>3, <1>4, <2>1
<1> HIDE DEF Waits
<1>5. CASE s.page \in {"report", "suggestions"}
  <2>1. Effect(s) = CASE s.agent = None \/ s.range = None -> Nothing(s)
                      [] s.agent # None /\ s.range # None /\ ~token -> Cancel(s)
                      [] OTHER -> Load(s)
    BY <1>5 DEF Effect, useAgentReport, useAgentSuggestions
  <2>2. \/ Effect(s) = Nothing(s) /\ (s.agent = None \/ s.range = None)
        \/ Effect(s) = Load(s) /\ s.range # None
        \/ ~token /\ Effect(s) = Cancel(s)
    BY <2>1
  <2> QED
    BY <1>1, <1>2, <1>4, <2>2 DEF Waits
<1>6. CASE s.page \in {"usage", "optimization"}
  <2>1. Effect(s) = CASE s.agent = None \/ s.range = None -> Nothing(s)
                      [] s.agent # None /\ s.range # None /\ ~token ->
                           [Cancel(s) EXCEPT !.loading = FALSE]
                      [] OTHER -> Load(s)
    BY <1>6 DEF Effect, useAgentTokenUsage, useAgentTokenOptimization
  <2>2. \/ Effect(s) = Nothing(s) /\ (s.agent = None \/ s.range = None)
        \/ Effect(s) = Load(s) /\ s.range # None
        \/ ~token /\ Effect(s) = [Cancel(s) EXCEPT !.loading = FALSE]
    BY <2>1
  <2> QED
    BY <1>1, <1>2, <1>4, <2>2 DEF Waits
<1>7. CASE s.page = "behavior"
  <2>1. Effect(s) = CASE s.agent = None -> Nothing(s)
                      [] s.agent # None /\ ~token -> Cancel(s)
                      [] OTHER -> [s EXCEPT !.loading = TRUE, !.error = FALSE,
                                            !.flights = Ask(s)]
    BY <1>7 DEF Effect, useAgentBehavior
  <2>2. \/ Effect(s) = Nothing(s) /\ s.agent = None
        \/ ~token /\ Effect(s) = Cancel(s)
        \/ Effect(s) = [s EXCEPT !.loading = TRUE, !.error = FALSE, !.flights = Ask(s)]
    BY <2>1
  <2> QED
    BY <1>1, <1>2, <1>3, <2>2 DEF Waits
<1> QED
  BY <1>5, <1>6, <1>7 DEF Pages, Waits

LEMMA ReportWaitsStep == ReportInv /\ ReportWaits /\ ReportNext => ReportWaits'
<1> SUFFICES ASSUME ReportInv, ReportWaits, ReportNext PROVE ReportWaits'
  OBVIOUS
<1>a. token' = token
  BY Zenon DEF ReportNext, ReportAnswers, ReportOpens, ReportAgentChanges, onPeriodChange,
         onCustomChange, onGenerateCustom, refetch, ReportAnswer, ReportFails, Acts, Quiet,
         browserVars
<1>b. IsReport(report) /\ None \notin Pages
  BY ReportAssumption DEF ReportInv
<1>c. ASSUME NEW s, IsReport(s), s.page \in Pages, s.refreshing => s.range # None,
             report' = Effect(s)
      PROVE  ReportWaits'
  <2>1. Awaits(report') /\ report'.page \in Pages
    BY <1>c, EffectAwaits
  <2> QED
    BY <1>a, <1>b, <2>1 DEF ReportWaits, Awaits
<1>d. ASSUME NEW s, IsReport(s), s.page = report.page, report.page \in Pages,
             s.agent = report.agent, s.flights = report.flights, s.loading = report.loading,
             s.refreshing = report.refreshing, s.refreshing => s.range # None,
             report' = Rerun(s)
      PROVE  ReportWaits'
  <2>1. CASE <<s.agent, s.range>> = <<report.agent, report.range>>
    <3>1. report' = s /\ Awaits(s)
      BY <1>d, <2>1 DEF Rerun, ReportWaits, Awaits
    <3> QED
      BY <1>a, <1>b, <1>d, <3>1 DEF ReportWaits, Awaits
  <2>2. CASE <<s.agent, s.range>> # <<report.agent, report.range>>
    <3>1. report' = Effect(s)
      BY <1>d, <2>2 DEF Rerun
    <3> QED
      BY <1>c, <1>d, <3>1
  <2> QED
    BY <2>1, <2>2
<1>1. ASSUME NEW page \in Pages, NEW period, NEW custom, ReportOpens(page, period, custom)
      PROVE  ReportWaits'
  <2> DEFINE s == [report EXCEPT !.page = page, !.period = period, !.custom = custom,
                     !.range = IF period = "custom" THEN custom ELSE period]
  <2>1. report' = Effect(s)
    BY <1>1 DEF ReportOpens
  <2>2. ~report.refreshing
    BY <1>1 DEF ReportOpens, ReportWaits
  <2>3. IsReport(s) /\ s.page \in Pages /\ ~s.refreshing
    BY <1>b, <2>2 DEF IsReport, ReportFields
  <2> HIDE DEF s
  <2> QED
    BY <1>c, <2>1, <2>3
<1>2. ASSUME NEW a, ReportAgentChanges(a) PROVE ReportWaits'
  <2> DEFINE s == [report EXCEPT !.agent = a]
  <2>1. report' = Effect(s)
    BY <1>2 DEF ReportAgentChanges
  <2>2. IsReport(s) /\ s.page \in Pages /\ s.refreshing = report.refreshing
        /\ s.range = report.range
    BY <1>b, <1>2 DEF IsReport, ReportFields, ReportAgentChanges, ReportInv
  <2> HIDE DEF s
  <2> QED
    BY <1>c, <2>1, <2>2 DEF ReportWaits, Awaits
<1>3. ASSUME NEW p \in Periods \cup {"custom"}, onPeriodChange(p) PROVE ReportWaits'
  <2>1. PICK range : /\ report' = Rerun([report EXCEPT !.period = p, !.range = range])
                     /\ range \in Periods \cup Customs \cup {report.range, report.custom}
                     /\ range # None \/ range = report.range
    <3> DEFINE range == CASE p # "custom" -> p
                          [] p = "custom" /\ report.custom # None -> report.custom
                          [] OTHER -> report.range
    <3>1. report' = Rerun([report EXCEPT !.period = p, !.range = range])
      BY <1>3 DEF onPeriodChange
    <3>2. /\ range \in Periods \cup Customs \cup {report.range, report.custom}
          /\ range # None \/ range = report.range
      BY ReportAssumption
    <3> HIDE DEF range
    <3> QED
      BY <3>1, <3>2, Zenon
  <2> DEFINE s == [report EXCEPT !.period = p, !.range = range]
  <2>2. IsReport(s) /\ s.page = report.page /\ report.page \in Pages
        /\ s.agent = report.agent /\ s.flights = report.flights /\ s.loading = report.loading
        /\ s.refreshing = report.refreshing /\ s.range = range
    BY <1>b, <1>3 DEF IsReport, ReportFields, onPeriodChange, ReportInv
  <2>3. report' = Rerun(s)
    BY <2>1
  <2> HIDE DEF s
  <2> QED
    BY <1>d, <2>1, <2>2, <2>3 DEF ReportWaits, Awaits
<1>4. ASSUME NEW c, onCustomChange(c) PROVE ReportWaits'
  <2>1. /\ report'.page = report.page /\ report'.agent = report.agent
        /\ report'.flights = report.flights /\ report'.loading = report.loading
        /\ report'.refreshing = report.refreshing /\ report'.range = report.range
    BY <1>b, <1>4 DEF IsReport, ReportFields, onCustomChange
  <2> QED
    BY <1>a, <2>1 DEF ReportWaits, Awaits
<1>5. CASE onGenerateCustom
  <2> DEFINE s == [report EXCEPT !.range = report.custom]
  <2>1. report' = Rerun(s) /\ report.custom # None
    BY <1>5 DEF onGenerateCustom
  <2>2. report.page \in Pages
    BY <1>5 DEF onGenerateCustom, ReportInv
  <2>3. IsReport(s) /\ s.page = report.page
        /\ s.agent = report.agent /\ s.flights = report.flights /\ s.loading = report.loading
        /\ s.refreshing = report.refreshing /\ s.range = report.custom
    BY <1>b DEF IsReport, ReportFields
  <2> HIDE DEF s
  <2> QED
    BY <1>d, <2>1, <2>2, <2>3
<1>6. CASE refetch
  <2> DEFINE s == [report EXCEPT !.regenerated = TRUE]
  <2>1. report' = Effect(s)
    BY <1>6 DEF refetch
  <2>2. report.page \in Pages
    BY <1>6 DEF refetch, ReportToolbar, SuggestionsToolbar, DriftHeadline, Pages
  <2>3. IsReport(s) /\ s.page = report.page /\ s.refreshing = report.refreshing
        /\ s.range = report.range
    BY <1>b DEF IsReport, ReportFields
  <2> HIDE DEF s
  <2> QED
    BY <1>c, <2>1, <2>2, <2>3 DEF ReportWaits, Awaits
<1>7. ASSUME NEW f \in report.flights,
             ReportFails(f) \/ \E ok \in BOOLEAN : ReportAnswer(f, ok)
      PROVE  ReportWaits'
  <2> DEFINE s == [report EXCEPT !.flights = Drop(@, f)]
  <2>1. /\ IsReport(s) /\ s.flights = report.flights \ {f}
        /\ \A k \in ReportFields \ {"flights"} : s[k] = report[k]
    BY <1>b DEF IsReport, ReportFields, Drop
  <2>2. CASE ~f.live
    <3>1. report' = s
      BY <1>7, <2>2 DEF ReportFails, ReportAnswer
    <3> HIDE DEF s
    <3> QED
      BY <1>a, <2>1, <2>2, <3>1 DEF ReportWaits, Awaits, ReportFields
  <2>3. CASE f.live
    <3>1. PICK error, data : \/ report' = [s EXCEPT !.error = error, !.loading = FALSE,
                                                    !.refreshing = FALSE, !.data = data]
                             \/ report' = [s EXCEPT !.data = data, !.loading = FALSE,
                                                    !.refreshing = FALSE]
      BY <1>7, <2>3, Zenon DEF ReportFails, ReportAnswer
    <3> HIDE DEF s
    <3>2. /\ report'.page = report.page /\ report'.agent = report.agent
          /\ ~report'.loading /\ ~report'.refreshing
      BY <2>1, <3>1 DEF IsReport, ReportFields
    <3> QED
      BY <1>a, <3>2 DEF ReportWaits, Awaits
  <2> QED
    BY <2>2, <2>3
<1> QED
  BY <1>1, <1>2, <1>3, <1>4, <1>5, <1>6, <1>7 DEF ReportNext, ReportAnswers

-----------------------------------------------------------------------------
(* The store of agents and the fleet. *)

\* The first load of the store waits for its request, a creation for the agent it
\* creates, and a deletion for the agent it deletes.
StoreAwaits ==
    /\ store.timer /\ store.loading => \E f \in store.flights : f.initial
    /\ fleet.busy => fleet.creating # None
    /\ fleet.deletingAgent # None => fleet.deletingAgent \in fleet.deletes

StoreFields == {"agents", "loading", "error", "timer", "subscribers", "flights"}
FleetShape == DOMAIN fleet = {"open", "busy", "error", "creating", "newKey", "deletingAgent",
                              "deletes"}

StoreWaits == DOMAIN store = StoreFields /\ FleetShape /\ StoreAwaits

\* What subscribing and unsubscribing keep.
Loads(s) ==
    /\ DOMAIN s = StoreFields
    /\ s.timer /\ s.loading => \E f \in s.flights : f.initial

LEMMA Subscribes == ASSUME NEW s, Loads(s), NEW account PROVE Loads(Subscribe(s, account))
<1> DEFINE t == [s EXCEPT !.subscribers = @ + 1]
           u == [t EXCEPT !.timer = TRUE]
           new == [account |-> account, initial |-> TRUE, list |-> tenants[account]]
<1>1. /\ DOMAIN t = StoreFields /\ t.timer = s.timer /\ t.loading = s.loading
      /\ t.flights = s.flights /\ t.subscribers = s.subscribers + 1
  BY DEF Loads, StoreFields
<1>2. DOMAIN u = StoreFields
  BY <1>1
<1>3. new.initial
  OBVIOUS
<1>4. Subscribe(s, account) = IF t.subscribers = 1 THEN fetchAgents(u, account, TRUE) ELSE t
  BY DEF Subscribe
<1>5. fetchAgents(u, account, TRUE) = IF ~token THEN [u EXCEPT !.loading = FALSE]
                                      ELSE [u EXCEPT !.flights = Put(@, new)]
  BY DEF fetchAgents
<1> HIDE DEF t, u, new
<1>6. Loads(fetchAgents(u, account, TRUE))
  BY <1>2, <1>3, <1>5 DEF Loads, StoreFields, Put
<1> QED
  BY <1>1, <1>4, <1>6 DEF Loads

LEMMA Unsubscribes == ASSUME NEW s, Loads(s) PROVE Loads(Unsubscribe(s))
<1> DEFINE t == [s EXCEPT !.subscribers = @ - 1]
<1>1. /\ DOMAIN t = StoreFields /\ t.timer = s.timer /\ t.loading = s.loading
      /\ t.flights = s.flights
  BY DEF Loads, StoreFields
<1>2. Unsubscribe(s) = IF t.subscribers = 0 /\ t.timer
                       THEN [NewSnapshot(t) EXCEPT !.timer = FALSE]
                       ELSE t
  BY DEF Unsubscribe
<1> HIDE DEF t
<1>3. Loads([NewSnapshot(t) EXCEPT !.timer = FALSE])
  BY <1>1 DEF NewSnapshot, Loads, StoreFields
<1> QED
  BY <1>1, <1>2, <1>3 DEF Loads

LEMMA StoreWaitsStep == StoreWaits /\ StoreNext => StoreWaits'
<1> SUFFICES ASSUME StoreWaits, StoreNext PROVE StoreWaits'
  OBVIOUS
<1>a. Loads(store) /\ FleetShape /\ StoreAwaits
  BY DEF StoreWaits, StoreAwaits, Loads
<1> DEFINE FleetAwaits == /\ fleet.busy => fleet.creating # None
                          /\ fleet.deletingAgent # None => fleet.deletingAgent \in fleet.deletes
<1>b. ASSUME Loads(store'), FleetShape', FleetAwaits' PROVE StoreWaits'
  BY <1>b DEF StoreWaits, StoreAwaits, Loads
<1>c. UNCHANGED store => Loads(store')
  BY <1>a
<1>d. UNCHANGED fleet => FleetShape' /\ FleetAwaits'
  BY <1>a DEF FleetShape, StoreAwaits
<1>e. fleet' = NewFleet => FleetShape' /\ FleetAwaits'
  BY DEF NewFleet, FleetShape
<1>f. ASSUME NEW new, \/ store' = [store EXCEPT !.loading = FALSE]
                      \/ store' = [store EXCEPT !.flights = Put(@, new)]
      PROVE  Loads(store')
  BY <1>a, <1>f DEF Loads, StoreFields, Put
<1>1. ASSUME NEW env, NEW plan, DashboardOpens(env, plan) PROVE StoreWaits'
  <2>1. PICK account \in Accounts : store' = Subscribe(Subscribe(store, account), account)
    BY <1>1, Zenon DEF DashboardOpens
  <2>2. Loads(store')
    BY <1>a, <2>1, Subscribes
  <2>3. UNCHANGED fleet
    BY <1>1 DEF DashboardOpens
  <2> QED
    BY <1>b, <1>d, <2>2, <2>3
<1>2. ASSUME NEW page, GoToTab(page) \/ RedirectOss PROVE StoreWaits'
  <2>1. store' = Subscribe(Unsubscribe(store), shell.account) /\ fleet' = NewFleet
    BY <1>2, Zenon DEF GoToTab, RedirectOss
  <2>2. Loads(store')
    BY <1>a, <2>1, Subscribes, Unsubscribes
  <2> QED
    BY <1>b, <1>e, <2>1, <2>2
<1>3. CASE signOut
  <2>1. store' = Unsubscribe(Unsubscribe(store)) /\ fleet' = NewFleet
    BY <1>3, Zenon DEF signOut
  <2>2. Loads(store')
    BY <1>a, <2>1, Unsubscribes
  <2> QED
    BY <1>b, <1>e, <2>1, <2>2
<1>4. ASSUME NEW account, SignInAs(account) PROVE StoreWaits'
  <2> DEFINE s == [store EXCEPT !.subscribers = 2, !.timer = TRUE]
             new == [account |-> account, initial |-> TRUE, list |-> tenants[account]]
  <2>1. store' = [s EXCEPT !.flights = Put(@, new)] /\ UNCHANGED fleet
    BY <1>4, Zenon DEF SignInAs
  <2>2. DOMAIN s = StoreFields /\ new.initial
    BY <1>a DEF Loads, StoreFields
  <2> HIDE DEF s, new
  <2>3. Loads(store')
    BY <2>1, <2>2 DEF Loads, StoreFields, Put
  <2> QED
    BY <1>b, <1>d, <2>1, <2>3
<1>5. ASSUME NEW f \in store.flights, AgentsAnswer(f) PROVE StoreWaits'
  <2>1. PICK list : store' = [store EXCEPT !.flights = Drop(@, f), !.agents = list,
                                           !.error = FALSE, !.loading = FALSE]
    BY <1>5, Zenon DEF AgentsAnswer, publish
  <2>2. Loads(store') /\ UNCHANGED fleet
    BY <1>a, <1>5, <2>1 DEF Loads, StoreFields, AgentsAnswer
  <2> QED
    BY <1>b, <1>d, <2>2
<1>6. ASSUME NEW f \in store.flights, AgentsFail(f) PROVE StoreWaits'
  <2>1. Loads(store') /\ UNCHANGED fleet
    BY <1>a, <1>6 DEF Loads, StoreFields, AgentsFail, Drop
  <2> QED
    BY <1>b, <1>d, <2>1
<1>7. CASE AgentsPoll
  <2>1. UNCHANGED fleet /\ store' = fetchAgents(store, shell.account, FALSE)
    BY <1>7 DEF AgentsPoll
  <2>2. Loads(store')
    BY <1>f, <2>1 DEF fetchAgents
  <2> QED
    BY <1>b, <1>d, <2>1, <2>2
<1>8. ASSUME NEW a, \/ PinAgent \/ selectAgent(a) \/ AgentAppears(a)
                    \/ \E ok \in BOOLEAN : EditionAnswer(ok)
      PROVE  StoreWaits'
  <2>1. UNCHANGED <<store, fleet>>
    BY <1>8, Zenon DEF PinAgent, selectAgent, AgentAppears, EditionAnswer
  <2> QED
    BY <1>b, <1>c, <1>d, <2>1
<1>9. ASSUME NEW a \in Agents, submitAgent(a) \/ handleDelete(a) \/ DeleteFails(a)
      PROVE  StoreWaits'
  <2>1. UNCHANGED store
    BY <1>9 DEF submitAgent, handleDelete, DeleteFails
  <2>2. FleetShape' /\ FleetAwaits'
    BY <1>a, <1>9, StoreAssumption
       DEF submitAgent, handleDelete, DeleteFails, FleetShape, StoreAwaits, Put, Drop
  <2> QED
    BY <1>b, <1>c, <2>1, <2>2
<1>10. CASE ToggleForm \/ CreateFails \/ DismissKey
  <2>1. UNCHANGED store
    BY <1>10 DEF ToggleForm, CreateFails, DismissKey
  <2>2. FleetShape' /\ FleetAwaits'
    BY <1>a, <1>10 DEF ToggleForm, CreateFails, DismissKey, FleetShape, StoreAwaits
  <2> QED
    BY <1>b, <1>c, <2>1, <2>2
<1>11. ASSUME NEW a, AgentCreated \/ AgentDeleted(a) PROVE StoreWaits'
  <2>1. PICK new : \/ store' = [store EXCEPT !.loading = FALSE]
                   \/ store' = [store EXCEPT !.flights = Put(@, new)]
    BY <1>11 DEF AgentCreated, AgentDeleted
  <2>2. FleetShape' /\ FleetAwaits'
    BY <1>a, <1>11 DEF AgentCreated, AgentDeleted, FleetShape, StoreAwaits, Drop
  <2> QED
    BY <1>b, <1>f, <2>1, <2>2
<1> QED
  BY <1>1, <1>2, <1>3, <1>4, <1>5, <1>6, <1>7, <1>8, <1>9, <1>10, <1>11
     DEF StoreNext, StoreAnswers, FleetAnswers

-----------------------------------------------------------------------------
(* The settings page and the panel of keys. *)

\* A handler that runs has its own call, or the refresh of the quota it ends with.
EndsHandler(c, handler) ==
    \/ c.kind = handler
    \/ c.kind \in {"form", "quota"} /\ c.arg = handler

\* So it is of every handler of the settings page, of the buttons of the account, the
\* list of keys and the key that is being revoked.
SettingsAwait ==
    /\ \A handler \in settings.running : \E c \in settings.calls : EndsHandler(c, handler)
    /\ settings.busy => \E c \in settings.calls : EndsAccount(c)
    /\ settings.at = "settings" /\ settings.loading => \E c \in settings.calls : c.kind = "list"
    /\ settings.revoking # None =>
          \E c \in settings.calls : c.kind = "revoke" /\ c.arg = settings.revoking

SettingsWait ==
    /\ SettingsShape
    /\ settings.running \subseteq {"create", "embeddings", "test"}
    /\ SettingsAwait

\* The calls that somebody waits for go on, unless he waits no more.
WaitKept ==
    /\ settings'.running \subseteq settings.running
    /\ \A handler \in settings'.running, c \in settings.calls :
          EndsHandler(c, handler) => \E d \in settings'.calls : EndsHandler(d, handler)
    /\ settings'.busy =>
          settings.busy /\ \A c \in settings.calls : EndsAccount(c) => c \in settings'.calls
    /\ settings'.at = settings.at
    /\ settings'.loading =>
          settings.loading /\ \A c \in settings.calls : c.kind = "list" => c \in settings'.calls
    /\ \/ settings'.revoking = None
       \/ /\ settings'.revoking = settings.revoking
          /\ \A c \in settings.calls : c.kind = "revoke" => c \in settings'.calls

LEMMA WaitGoesOn == SettingsWait /\ SettingsShape' /\ WaitKept => SettingsWait'
  BY DEF SettingsWait, SettingsAwait, WaitKept, EndsHandler, EndsAccount

LEMMA NewPageWaits ==
  ASSUME NEW at, at # "settings", settings' = NewSettings(at)
  PROVE  SettingsWait'
  BY DEF NewSettings, SettingsWait, SettingsShape, SettingsAwait

LEMMA SettingsWaitStep == SettingsWait /\ (SettingsNext \/ PanelNext) => SettingsWait'
<1> SUFFICES ASSUME SettingsWait, SettingsNext \/ PanelNext PROVE SettingsWait'
  OBVIOUS
<1>1. CASE PanelNext
  <2>1. UNCHANGED settings
    BY <1>1
       DEF PanelNext, PanelAnswers, PanelMounts, PanelListed, KeyCreateFails, AgentTested,
           KeyRevokeFails, PanelAgentChanges, testAgent, handleCreateKey, dismissKey,
           handleRevokeKey, MintedElsewhere, RevokedElsewhere, PanelQuota, KeyCreated,
           KeyRevoked
  <2> QED
    BY <2>1 DEF SettingsWait, SettingsShape, SettingsAwait, EndsHandler, EndsAccount
<1>2. ASSUME NEW managed \in BOOLEAN, SettingsMounts(managed) PROVE SettingsWait'
  <2>1. CASE token
    <3> DEFINE calls == {Call("list", None), QuotaCall(None)}
                           \cup IF managed THEN {Call("options", None)} ELSE {}
    <3>1. settings' = [NewSettings("settings") EXCEPT !.managed = managed, !.calls = calls]
      BY <1>2, <2>1 DEF SettingsMounts, requireAuth
    <3>2. Call("list", None) \in calls /\ Call("list", None).kind = "list"
      BY DEF Call
    <3> HIDE DEF calls
    <3> QED
      BY <3>1, <3>2 DEF NewSettings, SettingsWait, SettingsShape, SettingsAwait
  <2>2. CASE ~token
    BY <1>2, <2>2, NewPageWaits DEF SettingsMounts, requireAuth
  <2> QED
    BY <2>1, <2>2
<1>3. ASSUME NEW c \in settings.calls,
             \/ \E ok \in BOOLEAN : \/ SettingsListed(c, ok)
                                    \/ OptionsAnswered(c, ok)
                                    \/ FormAnswered(c, ok)
             \/ SettingsQuota(c)
             \/ TenantKeyCreated(c)
             \/ TenantKeyFails(c)
             \/ ListedRevoked(c)
             \/ ListedRevokeFails(c)
      PROVE  SettingsWait'
  <2>1. SettingsShape' /\ WaitKept
    <3> USE DEF SettingsWait, SettingsShape, WaitKept, EndsHandler, EndsAccount, Drop, Finish
    <3>1. ASSUME NEW ok \in BOOLEAN, SettingsListed(c, ok) PROVE SettingsShape' /\ WaitKept
      BY <3>1 DEF SettingsListed
    <3>2. ASSUME NEW ok \in BOOLEAN, OptionsAnswered(c, ok) PROVE SettingsShape' /\ WaitKept
      BY <3>2 DEF OptionsAnswered
    <3>3. ASSUME NEW ok \in BOOLEAN, FormAnswered(c, ok) PROVE SettingsShape' /\ WaitKept
      BY <3>3 DEF FormAnswered
    <3>4. CASE SettingsQuota(c)
      <4>1. PICK level : \/ settings' = [settings EXCEPT !.running = Drop(@, c.arg),
                                            !.calls = Drop(@, c), !.atLimit = level]
                         \/ settings' = [settings EXCEPT !.running = Drop(@, c.arg),
                                            !.calls = Drop(@, c)]
        BY <3>4, Zenon DEF SettingsQuota, QuotaAnswered, QuotaFailed
      <4>2. c.kind = "quota"
        BY <3>4 DEF SettingsQuota
      <4>3. CASE settings' = [settings EXCEPT !.running = Drop(@, c.arg),
                                !.calls = Drop(@, c), !.atLimit = level]
        BY <4>2, <4>3
      <4>4. CASE settings' = [settings EXCEPT !.running = Drop(@, c.arg), !.calls = Drop(@, c)]
        BY <4>2, <4>4
      <4> QED
        BY <4>1, <4>3, <4>4
    <3>5. CASE TenantKeyCreated(c)
      <4>1. PICK s : /\ settings' = refreshQuota(s, "create")
                     /\ s = [settings EXCEPT !.calls = Drop(@, c), !.newKey = Minted(None),
                                             !.list = Put(@, Minted(None))]
                     /\ c.kind = "create"
        BY <3>5, Zenon DEF TenantKeyCreated
      <4>2. /\ DOMAIN s = DOMAIN settings /\ s.calls = settings.calls \ {c}
            /\ s.running = settings.running /\ s.busy = settings.busy /\ s.at = settings.at
            /\ s.loading = settings.loading /\ s.revoking = settings.revoking
        BY <4>1
      <4> DEFINE d == QuotaCall("create")
      <4>3. d.kind = "quota" /\ d.arg = "create"
        BY DEF QuotaCall, Call
      <4>4. \/ settings' = [s EXCEPT !.calls = s.calls \cup {d}]
            \/ settings' = [s EXCEPT !.running = s.running \ {"create"}]
        BY <4>1, <4>2 DEF refreshQuota, Put
      <4> HIDE DEF d
      <4>5. \E running \in {settings.running, settings.running \ {"create"}} :
              /\ settings'.running = running
              /\ \/ settings'.calls = (settings.calls \ {c}) \cup {d}
                 \/ settings'.calls = settings.calls \ {c} /\ "create" \notin running
        BY <4>2, <4>4
      <4>6. /\ DOMAIN settings' = DOMAIN settings
            /\ settings'.busy = settings.busy /\ settings'.at = settings.at
            /\ settings'.loading = settings.loading /\ settings'.revoking = settings.revoking
        BY <4>2, <4>4
      <4> QED
        BY <4>1, <4>3, <4>5, <4>6
    <3>6. CASE TenantKeyFails(c)
      BY <3>6 DEF TenantKeyFails
    <3>7. CASE ListedRevokeFails(c)
      BY <3>7 DEF ListedRevokeFails
    <3>8. CASE ListedRevoked(c)
      <4>1. PICK s : /\ settings' = refreshQuota(s, None)
                     /\ s = [settings EXCEPT !.calls = Drop(@, c), !.list = Drop(@, c.arg),
                                             !.revoking = None]
                     /\ c.kind = "revoke"
        BY <3>8, Zenon DEF ListedRevoked
      <4>2. /\ DOMAIN s = DOMAIN settings /\ s.calls = settings.calls \ {c} /\ s.revoking = None
            /\ s.running = settings.running /\ s.busy = settings.busy /\ s.at = settings.at
            /\ s.loading = settings.loading
        BY <4>1
      <4> DEFINE d == QuotaCall(None)
      <4>3. \/ settings' = [s EXCEPT !.calls = s.calls \cup {d}]
            \/ settings' = [s EXCEPT !.running = s.running \ {None}]
        BY <4>1, <4>2 DEF refreshQuota, Put
      <4> HIDE DEF d
      <4>4. /\ settings'.running \subseteq settings.running
            /\ settings.calls \ {c} \subseteq settings'.calls
            /\ DOMAIN settings' = DOMAIN settings
            /\ settings'.busy = settings.busy /\ settings'.at = settings.at
            /\ settings'.loading = settings.loading /\ settings'.revoking = None
        BY <4>2, <4>3
      <4> QED
        BY <4>1, <4>4
    <3> QED
      BY <1>3, <3>1, <3>2, <3>3, <3>4, <3>5, <3>6, <3>7, <3>8
  <2> QED
    BY <2>1, WaitGoesOn
<1>4. ASSUME NEW c \in settings.calls,
             TrialGranted(c) \/ \E done \in BOOLEAN : AccountCallFails(c, done)
      PROVE  SettingsWait'
  <2>1. SettingsShape' /\ WaitKept
    <3>1. /\ c.kind \in {"trial", "delete"}
          /\ \/ settings' = [settings EXCEPT !.calls = settings.calls \ {c}, !.busy = FALSE,
                                            !.trial = FALSE, !.dialog = FALSE]
             \/ settings' = [settings EXCEPT !.calls = settings.calls \ {c}, !.busy = FALSE]
      BY <1>4 DEF TrialGranted, AccountCallFails, Drop
    <3>2. /\ DOMAIN settings' = DOMAIN settings /\ settings'.calls = settings.calls \ {c}
          /\ settings'.busy = FALSE /\ settings'.running = settings.running
          /\ settings'.at = settings.at /\ settings'.loading = settings.loading
          /\ settings'.revoking = settings.revoking
      BY <3>1 DEF SettingsWait, SettingsShape
    <3> QED
      BY <3>1, <3>2 DEF SettingsWait, SettingsShape, WaitKept, EndsHandler, EndsAccount
  <2> QED
    BY <2>1, WaitGoesOn
<1>5. ASSUME NEW c \in settings.calls, AccountDeleted(c) \/ AccountGone(c) PROVE SettingsWait'
  BY <1>5, NewPageWaits DEF AccountDeleted, AccountGone
<1>6. CASE SettingsFocus
  <2>1. \/ settings' = [settings EXCEPT !.calls = settings.calls \cup {QuotaCall(None)}]
        \/ settings' = [settings EXCEPT !.running = settings.running \ {None}]
    BY <1>6 DEF SettingsFocus, refreshQuota, Put, Drop, Finish
  <2>2. SettingsShape' /\ WaitKept
    BY <2>1 DEF SettingsWait, SettingsShape, WaitKept, EndsHandler, EndsAccount
  <2> QED
    BY <2>2, WaitGoesOn
<1>7. ASSUME token, NEW s, NEW c, settings' = s,
             \/ \E handler \in {"create", "embeddings", "test"} :
                   /\ s = [settings EXCEPT !.calls = Put(settings.calls, c),
                                           !.running = Put(@, handler)]
                   /\ EndsHandler(c, handler)
             \/ /\ s = [settings EXCEPT !.calls = Put(settings.calls, c), !.busy = TRUE]
                /\ EndsAccount(c)
             \/ /\ s = [settings EXCEPT !.calls = Put(settings.calls, c), !.revoking = c.arg]
                /\ c.kind = "revoke"
      PROVE  SettingsWait'
  <2> USE DEF SettingsWait, SettingsShape, SettingsAwait, Put
  <2>1. ASSUME NEW handler \in {"create", "embeddings", "test"}, EndsHandler(c, handler),
               settings' = [settings EXCEPT !.calls = Put(settings.calls, c),
                                            !.running = Put(@, handler)]
        PROVE  SettingsWait'
    <3>1. /\ settings'.running = settings.running \cup {handler}
          /\ settings'.calls = settings.calls \cup {c} /\ DOMAIN settings' = DOMAIN settings
          /\ settings'.busy = settings.busy /\ settings'.at = settings.at
          /\ settings'.loading = settings.loading /\ settings'.revoking = settings.revoking
      BY <2>1
    <3> QED
      BY <2>1, <3>1 DEF EndsHandler, EndsAccount
  <2>2. ASSUME settings' = [settings EXCEPT !.calls = Put(settings.calls, c), !.busy = TRUE],
               EndsAccount(c)
        PROVE  SettingsWait'
    BY <2>2 DEF EndsHandler, EndsAccount
  <2>3. ASSUME settings' = [settings EXCEPT !.calls = Put(settings.calls, c), !.revoking = c.arg],
               c.kind = "revoke"
        PROVE  SettingsWait'
    BY <2>3 DEF EndsHandler, EndsAccount
  <2> QED
    BY <1>7, <2>1, <2>2, <2>3
<1>8. ASSUME \/ \E f \in {"embeddings", "test"} : submitForm(f)
             \/ createTenantKey
             \/ \E k \in settings.list : revokeListed(k)
             \/ keepAccount \/ deleteAccount
      PROVE  SettingsWait'
  <2>1. CASE token
    <3>1. ASSUME NEW s, requireAuth(s) PROVE settings' = s
      BY <2>1, <3>1 DEF requireAuth
    <3>a. \A kind, arg : Call(kind, arg).kind = kind /\ Call(kind, arg).arg = arg
      BY DEF Call
    <3>b. \A c : Sends(c) = [settings EXCEPT !.calls = Put(settings.calls, c)]
      BY DEF Sends
    <3>2. ASSUME NEW f \in {"embeddings", "test"}, submitForm(f) PROVE SettingsWait'
      <4> DEFINE c == Call("form", f)
      <4>1. settings' = [Sends(c) EXCEPT !.running = Put(@, f)]
        BY <3>1, <3>2 DEF submitForm
      <4>2. EndsHandler(c, f)
        BY <3>a DEF EndsHandler
      <4> HIDE DEF c
      <4>3. settings' = [settings EXCEPT !.calls = Put(settings.calls, c), !.running = Put(@, f)]
        BY <3>b, <4>1
      <4> QED
        BY <1>7, <2>1, <4>2, <4>3, Zenon
    <3>3. CASE createTenantKey
      <4> DEFINE c == Call("create", None)
      <4>1. settings' = [Sends(c) EXCEPT !.running = Put(@, "create")]
        BY <3>1, <3>3 DEF createTenantKey
      <4>2. EndsHandler(c, "create")
        BY <3>a DEF EndsHandler
      <4> HIDE DEF c
      <4>3. settings' = [settings EXCEPT !.calls = Put(settings.calls, c),
                                         !.running = Put(@, "create")]
        BY <3>b, <4>1
      <4> QED
        BY <1>7, <2>1, <4>2, <4>3, Zenon
    <3>4. ASSUME NEW k \in settings.list, revokeListed(k) PROVE SettingsWait'
      <4> DEFINE c == Call("revoke", k)
      <4>1. settings' = [Sends(c) EXCEPT !.revoking = k]
        BY <3>1, <3>4 DEF revokeListed
      <4>2. c.kind = "revoke" /\ c.arg = k
        BY <3>a
      <4> HIDE DEF c
      <4>3. settings' = [settings EXCEPT !.calls = Put(settings.calls, c), !.revoking = c.arg]
        BY <3>b, <4>1, <4>2
      <4> QED
        BY <1>7, <2>1, <4>2, <4>3, Zenon
    <3>5. CASE keepAccount \/ deleteAccount
      <4>1. PICK kind \in {"trial", "delete"} :
              settings' = [Sends(Call(kind, None)) EXCEPT !.busy = TRUE]
        BY <3>1, <3>5 DEF keepAccount, deleteAccount
      <4> DEFINE c == Call(kind, None)
      <4>2. EndsAccount(c)
        BY <3>a DEF EndsAccount
      <4>3. settings' = [Sends(c) EXCEPT !.busy = TRUE]
        BY <4>1
      <4> HIDE DEF c
      <4>4. settings' = [settings EXCEPT !.calls = Put(settings.calls, c), !.busy = TRUE]
        BY <3>b, <4>3
      <4> QED
        BY <1>7, <2>1, <4>2, <4>4, Zenon
    <3> QED
      BY <1>8, <3>2, <3>3, <3>4, <3>5
  <2>2. CASE ~token
    BY <1>8, <2>2, NewPageWaits
       DEF submitForm, createTenantKey, revokeListed, keepAccount, deleteAccount, requireAuth
  <2> QED
    BY <2>1, <2>2
<1>9. CASE openDialog \/ closeDialog \/ typeDelete
  <2>1. SettingsShape' /\ WaitKept
    BY <1>9 DEF openDialog, closeDialog, typeDelete, SettingsWait, SettingsShape, WaitKept
  <2> QED
    BY <2>1, WaitGoesOn
<1> QED
  BY <1>1, <1>2, <1>3, <1>4, <1>5, <1>6, <1>7, <1>8, <1>9, Zenon
     DEF SettingsNext, SettingsAnswers

\* A handler of the panel has its own call, the list, or the quota it ends with.
EndsOnPanel(c, handler) ==
    \/ c.kind = handler
    \/ c.kind = "list" /\ handler = "create" /\ c.arg.then = handler
    \/ c.kind = "quota" /\ c.arg = handler

\* So it is of every handler of the panel, its list and the key that is being revoked.
PanelAwaits ==
    /\ \A handler \in keysPanel.running : \E c \in keysPanel.calls : EndsOnPanel(c, handler)
    /\ keysPanel.at = "panel" /\ keysPanel.loading => \E c \in keysPanel.calls : c.kind = "list"
    /\ keysPanel.revoking # None =>
          \E c \in keysPanel.calls : c.kind = "revoke" /\ c.arg.key = keysPanel.revoking

PanelWaits ==
    /\ keysPanel.running \subseteq {"create", "test"}
    /\ PanelAwaits

\* The calls that somebody waits for go on, unless he waits no more.
PanelGoesWith ==
    /\ keysPanel'.running \subseteq keysPanel.running
    /\ \A handler \in keysPanel'.running, c \in keysPanel.calls :
          EndsOnPanel(c, handler) => \E d \in keysPanel'.calls : EndsOnPanel(d, handler)
    /\ keysPanel'.at = keysPanel.at
    /\ keysPanel'.loading =>
          keysPanel.loading /\ \A c \in keysPanel.calls : c.kind = "list" => c \in keysPanel'.calls
    /\ \/ keysPanel'.revoking = None
       \/ /\ keysPanel'.revoking = keysPanel.revoking
          /\ \A c \in keysPanel.calls : c.kind = "revoke" => c \in keysPanel'.calls

LEMMA PanelGoesOn == PanelWaits /\ PanelGoesWith => PanelWaits'
  BY DEF PanelWaits, PanelAwaits, PanelGoesWith, EndsOnPanel

LEMMA NewPanelWaits == ASSUME keysPanel' = NewKeysPanel("login", None) PROVE PanelWaits'
  BY DEF NewKeysPanel, PanelWaits, PanelAwaits

\* One call more, and who waits for it.
LEMMA PanelAsks ==
  ASSUME PanelShape, PanelWaits, NEW c, NEW p, keysPanel' = [p EXCEPT !.calls = Put(@, c)],
         DOMAIN p = DOMAIN keysPanel, p.calls = keysPanel.calls,
         p.at = keysPanel.at, p.loading = keysPanel.loading,
         \/ p.running = keysPanel.running
         \/ \E handler \in {"create", "test"} :
               p.running = Put(keysPanel.running, handler) /\ c.kind = handler,
         \/ p.revoking = keysPanel.revoking
         \/ c.kind = "revoke" /\ c.arg.key = p.revoking
  PROVE  PanelWaits'
<1>1. /\ keysPanel'.calls = keysPanel.calls \cup {c} /\ keysPanel'.at = keysPanel.at
      /\ keysPanel'.loading = keysPanel.loading
      /\ keysPanel'.running = p.running /\ keysPanel'.revoking = p.revoking
  BY DEF PanelShape, Put
<1> QED
  BY <1>1 DEF PanelWaits, PanelAwaits, EndsOnPanel, Put

LEMMA PanelWaitsStep ==
  PanelInv /\ PanelWaits /\ (SettingsNext \/ PanelNext) => PanelWaits'
<1> SUFFICES ASSUME PanelInv, PanelWaits, SettingsNext \/ PanelNext PROVE PanelWaits'
  OBVIOUS
<1>0. PanelShape
  BY DEF PanelInv
<1>c. \A kind, arg : Call(kind, arg).kind = kind /\ Call(kind, arg).arg = arg
  BY DEF Call
<1>1. ASSUME UNCHANGED keysPanel PROVE PanelWaits'
  BY <1>1 DEF PanelWaits, PanelAwaits, EndsOnPanel
<1>2. CASE SettingsNext
  <2>1. UNCHANGED keysPanel
    BY <1>2, Zenon
       DEF SettingsNext, SettingsAnswers, SettingsMounts, SettingsFocus, submitForm,
           createTenantKey, revokeListed, openDialog, closeDialog, typeDelete,
           keepAccount, deleteAccount, requireAuth, SettingsListed, OptionsAnswered,
           FormAnswered, SettingsQuota, TenantKeyFails, ListedRevokeFails, AccountGone,
           TenantKeyCreated, ListedRevoked, TrialGranted, AccountDeleted, AccountCallFails
  <2> QED
    BY <1>1, <2>1
<1>3. ASSUME NEW agent \in Agents \cup {None}, NEW oss \in BOOLEAN, PanelMounts(agent, oss)
      PROVE  PanelWaits'
  <2> DEFINE p == [NewKeysPanel("panel", agent) EXCEPT !.oss = oss, !.calls = {QuotaCall(None)}]
             c == Call("list", [agent |-> p.agent, then |-> None])
  <2>1. \/ keysPanel' = [p EXCEPT !.at = "card", !.loading = FALSE, !.calls = {}]
        \/ keysPanel' = [p EXCEPT !.calls = Put(@, c)]
    BY <1>3 DEF PanelMounts, loadKeys
  <2>2. /\ p.running = {} /\ p.revoking = None
        /\ DOMAIN p = {"at", "agent", "oss", "list", "loading", "atLimit", "newKey", "revoking",
                       "running", "calls"}
    BY DEF NewKeysPanel
  <2>3. c.kind = "list"
    BY <1>c
  <2> HIDE DEF c, p
  <2>4. keysPanel'.running = {} /\ keysPanel'.revoking = None
    BY <2>1, <2>2
  <2>5. keysPanel'.at = "card" \/ c \in keysPanel'.calls
    BY <2>1, <2>2 DEF Put
  <2> QED
    BY <2>3, <2>4, <2>5 DEF PanelWaits, PanelAwaits
<1>4. ASSUME NEW c \in keysPanel.calls, NEW ok \in BOOLEAN, PanelListed(c, ok) PROVE PanelWaits'
  <2>1. PICK keys : LET p == [keysPanel EXCEPT !.calls = Drop(@, c), !.list = keys,
                                               !.loading = FALSE]
                    IN  keysPanel' = IF c.arg.then = None THEN p ELSE refreshQuota(p, c.arg.then)
    BY <1>4, Zenon DEF PanelListed
  <2>2. c.kind = "list"
    BY <1>4 DEF PanelListed
  <2> DEFINE p == [keysPanel EXCEPT !.calls = Drop(@, c), !.list = keys, !.loading = FALSE]
             d == QuotaCall(c.arg.then)
  <2>3. \/ keysPanel' = p /\ c.arg.then = None
        \/ keysPanel' = [p EXCEPT !.calls = Put(@, d)]
        \/ keysPanel' = [p EXCEPT !.running = Drop(@, c.arg.then)]
    BY <2>1 DEF refreshQuota, Finish
  <2>4. /\ DOMAIN p = DOMAIN keysPanel /\ p.calls = keysPanel.calls \ {c} /\ p.loading = FALSE
        /\ p.running = keysPanel.running /\ p.revoking = keysPanel.revoking /\ p.at = keysPanel.at
    BY <1>0 DEF PanelShape, Drop
  <2>5. d.kind = "quota" /\ d.arg = c.arg.then
    BY <1>c DEF QuotaCall
  <2> HIDE DEF p, d
  <2>6. /\ keysPanel'.loading = FALSE /\ keysPanel'.revoking = keysPanel.revoking
        /\ keysPanel'.at = keysPanel.at /\ keysPanel.calls \ {c} \subseteq keysPanel'.calls
        /\ keysPanel'.running \subseteq keysPanel.running
    BY <1>0, <2>3, <2>4 DEF PanelShape, Put, Drop
  <2>7. \/ c.arg.then = None
        \/ d \in keysPanel'.calls
        \/ c.arg.then \notin keysPanel'.running
    BY <1>0, <2>3, <2>4 DEF PanelShape, Put, Drop
  <2>8. None # "create"
    BY SettingsAssumption
  <2>9. PanelGoesWith
    BY <2>2, <2>5, <2>6, <2>7, <2>8 DEF PanelGoesWith, EndsOnPanel, PanelWaits
  <2> QED
    BY <2>9, PanelGoesOn
<1>5. ASSUME NEW c \in keysPanel.calls, NEW ok \in BOOLEAN, AgentTested(c, ok) PROVE PanelWaits'
  <2>1. PanelGoesWith
    BY <1>0, <1>5
       DEF AgentTested, Finish, Drop, PanelShape, PanelWaits, PanelGoesWith, EndsOnPanel
  <2> QED
    BY <2>1, PanelGoesOn
<1>6. ASSUME NEW c \in keysPanel.calls, PanelQuota(c) PROVE PanelWaits'
  <2>1. PICK level : \/ keysPanel' = [keysPanel EXCEPT !.running = Drop(@, c.arg),
                                         !.calls = Drop(@, c), !.atLimit = level]
                     \/ keysPanel' = [keysPanel EXCEPT !.running = Drop(@, c.arg),
                                         !.calls = Drop(@, c)]
    BY <1>0, <1>6, Zenon DEF PanelQuota, QuotaAnswered, QuotaFailed, Finish, PanelShape
  <2>2. c.kind = "quota"
    BY <1>6 DEF PanelQuota
  <2>3. /\ keysPanel'.running = keysPanel.running \ {c.arg}
        /\ keysPanel'.calls = keysPanel.calls \ {c} /\ keysPanel'.at = keysPanel.at
        /\ keysPanel'.loading = keysPanel.loading /\ keysPanel'.revoking = keysPanel.revoking
    BY <1>0, <2>1 DEF Drop, PanelShape
  <2>4. PanelGoesWith
    BY <2>2, <2>3 DEF PanelWaits, PanelGoesWith, EndsOnPanel
  <2> QED
    BY <2>4, PanelGoesOn
<1>7. ASSUME NEW c \in keysPanel.calls, KeyRevokeFails(c) \/ KeyCreateFails(c) PROVE PanelWaits'
  <2>1. /\ keysPanel'.calls = keysPanel.calls \ {c} /\ keysPanel'.at = keysPanel.at
        /\ keysPanel'.loading = keysPanel.loading
        /\ \/ /\ c.kind = "revoke"
              /\ keysPanel'.running = keysPanel.running /\ keysPanel'.revoking = None
           \/ /\ c.kind = "create" /\ keysPanel'.running = keysPanel.running \ {"create"}
              /\ keysPanel'.revoking = keysPanel.revoking
    BY <1>0, <1>7 DEF KeyRevokeFails, KeyCreateFails, Finish, Drop, PanelShape
  <2>2. PanelGoesWith
    BY <2>1 DEF PanelWaits, PanelGoesWith, EndsOnPanel
  <2> QED
    BY <2>2, PanelGoesOn
<1>8. ASSUME NEW c \in keysPanel.calls, KeyRevoked(c) PROVE PanelWaits'
  <2> DEFINE p == [keysPanel EXCEPT !.calls = Drop(@, c), !.list = Drop(@, c.arg.key),
                                    !.revoking = None]
             d == QuotaCall(None)
  <2>1. /\ c.kind = "revoke"
        /\ \/ keysPanel' = [p EXCEPT !.calls = Put(@, d)]
           \/ keysPanel' = [p EXCEPT !.running = Drop(@, None)]
    BY <1>8 DEF KeyRevoked, refreshQuota, Finish
  <2>2. /\ DOMAIN p = DOMAIN keysPanel /\ p.calls = keysPanel.calls \ {c} /\ p.revoking = None
        /\ p.running = keysPanel.running /\ p.loading = keysPanel.loading /\ p.at = keysPanel.at
    BY <1>0 DEF PanelShape, Drop
  <2> HIDE DEF p, d
  <2>3. /\ keysPanel'.loading = keysPanel.loading /\ keysPanel'.revoking = None
        /\ keysPanel'.at = keysPanel.at /\ keysPanel.calls \ {c} \subseteq keysPanel'.calls
        /\ keysPanel'.running \subseteq keysPanel.running
    BY <1>0, <2>1, <2>2 DEF PanelShape, Put, Drop
  <2>4. PanelGoesWith
    BY <2>1, <2>3 DEF PanelGoesWith, EndsOnPanel, PanelWaits
  <2> QED
    BY <2>4, PanelGoesOn
<1>9. ASSUME NEW c \in keysPanel.calls, KeyCreated(c) PROVE PanelWaits'
  <2> DEFINE key == Minted(c.arg)
             p == [keysPanel EXCEPT !.calls = Drop(@, c), !.newKey = key]
             d == Call("list", [agent |-> p.agent, then |-> "create"])
  <2>1. /\ c.kind = "create"
        /\ \/ keysPanel' = [p EXCEPT !.running = Drop(@, "create")]
           \/ keysPanel' = [p EXCEPT !.calls = Put(@, d)]
           \/ keysPanel' = NewKeysPanel("login", None)
    BY <1>9 DEF KeyCreated, loadKeys, Finish
  <2>2. /\ DOMAIN p = DOMAIN keysPanel /\ p.calls = keysPanel.calls \ {c}
        /\ p.revoking = keysPanel.revoking
        /\ p.running = keysPanel.running /\ p.loading = keysPanel.loading /\ p.at = keysPanel.at
    BY <1>0 DEF PanelShape, Drop
  <2>3. d.kind = "list" /\ d.arg.then = "create"
    BY <1>c
  <2> HIDE DEF p, d
  <2>4. CASE keysPanel' # NewKeysPanel("login", None)
    <3>1. /\ keysPanel'.loading = keysPanel.loading /\ keysPanel'.revoking = keysPanel.revoking
          /\ keysPanel'.at = keysPanel.at /\ keysPanel.calls \ {c} \subseteq keysPanel'.calls
          /\ keysPanel'.running \subseteq keysPanel.running
          /\ "create" \notin keysPanel'.running \/ d \in keysPanel'.calls
      BY <1>0, <2>1, <2>2, <2>4 DEF PanelShape, Put, Drop
    <3>2. PanelGoesWith
      BY <2>1, <2>3, <3>1 DEF PanelGoesWith, EndsOnPanel, PanelWaits
    <3> QED
      BY <3>2, PanelGoesOn
  <2> QED
    BY <2>4, NewPanelWaits
<1>10. ASSUME NEW agent \in Agents, PanelAgentChanges(agent) PROVE PanelWaits'
  <2> DEFINE p == [keysPanel EXCEPT !.agent = agent]
             c == Call("list", [agent |-> p.agent, then |-> None])
  <2>1. keysPanel' = [p EXCEPT !.calls = Put(@, c)] \/ keysPanel' = NewKeysPanel("login", None)
    BY <1>10 DEF PanelAgentChanges, loadKeys
  <2>2. /\ DOMAIN p = DOMAIN keysPanel /\ p.calls = keysPanel.calls
        /\ p.revoking = keysPanel.revoking
        /\ p.running = keysPanel.running /\ p.loading = keysPanel.loading /\ p.at = keysPanel.at
    BY <1>0 DEF PanelShape
  <2> HIDE DEF p, c
  <2> QED
    BY <1>0, <2>1, <2>2, NewPanelWaits, PanelAsks
<1>11. CASE testAgent \/ handleCreateKey
  <2>1. PICK handler \in {"create", "test"} :
           \/ keysPanel' = [keysPanel EXCEPT !.running = Put(@, handler),
                                             !.calls = Put(@, Call(handler, keysPanel.agent))]
           \/ keysPanel' = NewKeysPanel("login", None)
           \/ UNCHANGED keysPanel
    BY <1>11 DEF testAgent, handleCreateKey
  <2> DEFINE p == [keysPanel EXCEPT !.running = Put(@, handler)]
             c == Call(handler, keysPanel.agent)
  <2>2. c.kind = handler
    BY <1>c
  <2> HIDE DEF c
  <2>3. CASE keysPanel' = [keysPanel EXCEPT !.running = Put(@, handler), !.calls = Put(@, c)]
    <3>1. keysPanel' = [p EXCEPT !.calls = Put(@, c)]
      BY <1>0, <2>3 DEF PanelShape
    <3>2. /\ DOMAIN p = DOMAIN keysPanel /\ p.calls = keysPanel.calls
          /\ p.revoking = keysPanel.revoking /\ p.running = Put(keysPanel.running, handler)
          /\ p.loading = keysPanel.loading /\ p.at = keysPanel.at
      BY <1>0 DEF PanelShape
    <3> HIDE DEF p
    <3> QED
      BY <1>0, <2>2, <3>1, <3>2, PanelAsks
  <2> QED
    BY <1>1, <2>1, <2>3, NewPanelWaits DEF c
<1>12. CASE dismissKey
  <2>1. PanelGoesWith
    BY <1>0, <1>12 DEF dismissKey, PanelShape, PanelGoesWith
  <2> QED
    BY <2>1, PanelGoesOn
<1>13. ASSUME NEW k \in keysPanel.list, handleRevokeKey(k) PROVE PanelWaits'
  <2> DEFINE p == [keysPanel EXCEPT !.revoking = k]
             c == Call("revoke", [key |-> k, agent |-> keysPanel.agent])
  <2>1. \/ keysPanel' = [p EXCEPT !.calls = Put(@, c)]
        \/ keysPanel' = NewKeysPanel("login", None)
    BY <1>0, <1>13 DEF handleRevokeKey, PanelShape
  <2>2. c.kind = "revoke" /\ c.arg.key = k
    BY <1>c
  <2>3. /\ DOMAIN p = DOMAIN keysPanel /\ p.calls = keysPanel.calls
        /\ p.revoking = k
        /\ p.running = keysPanel.running /\ p.loading = keysPanel.loading /\ p.at = keysPanel.at
    BY <1>0 DEF PanelShape
  <2> HIDE DEF p, c
  <2> QED
    BY <1>0, <2>1, <2>2, <2>3, NewPanelWaits, PanelAsks
<1>14. ASSUME NEW a, MintedElsewhere(a) \/ RevokedElsewhere(a) PROVE UNCHANGED keysPanel
  BY <1>14 DEF MintedElsewhere, RevokedElsewhere
<1> QED
  BY <1>1, <1>2, <1>3, <1>4, <1>5, <1>6, <1>7, <1>8, <1>9, <1>10, <1>11, <1>12, <1>13,
     <1>14 DEF PanelNext, PanelAnswers

-----------------------------------------------------------------------------
(* The prompts and the board. *)

\* The fields of the prompts.
PromptShape ==
    /\ DOMAIN prompt = Kinds
    /\ \A k \in Kinds : /\ DOMAIN prompt[k] = {"at", "busy", "error", "calls"}
                        /\ prompt[k].busy \in BOOLEAN /\ prompt[k].calls \in Nat

\* A prompt that shows that it sends has a call of its own in flight.
PromptsAwait == \A k \in Kinds : prompt[k].busy => prompt[k].calls > 0

PromptsWait == PromptShape /\ PromptsAwait

LEMMA PromptsWaitStep == PromptsWait /\ (PromptsNext \/ HealthNext) => PromptsWait'
<1> SUFFICES ASSUME PromptsWait, PromptsNext \/ HealthNext PROVE PromptsWait'
  OBVIOUS
<1> USE DEF PromptsWait, PromptShape, PromptsAwait
<1>1. ASSUME UNCHANGED prompt PROVE PromptsWait'
  BY <1>1
<1>2. ASSUME NEW k \in Kinds, NEW at, prompt' = [prompt EXCEPT ![k].at = at] PROVE PromptsWait'
  BY <1>2
<1>3. ASSUME NEW k \in Kinds, PromptUnmounts(k) PROVE PromptsWait'
  BY <1>3 DEF PromptUnmounts, NewPrompt
<1>4. ASSUME NEW k \in Kinds, submitPrompt(k) PROVE PromptsWait'
  <2>1. /\ DOMAIN prompt' = Kinds /\ DOMAIN prompt'[k] = DOMAIN prompt[k]
        /\ prompt'[k].busy = TRUE /\ prompt'[k].calls = prompt[k].calls + 1
        /\ \A l \in Kinds \ {k} : prompt'[l] = prompt[l]
    BY <1>4 DEF submitPrompt
  <2>2. prompt'[k].calls \in Nat /\ prompt'[k].calls > 0
    BY <2>1
  <2>3. \A l \in Kinds : l = k \/ l \in Kinds \ {k}
    OBVIOUS
  <2> QED
    BY <2>1, <2>2, <2>3
<1>5. ASSUME NEW k \in Kinds, NEW ok \in BOOLEAN, PromptAnswered(k, ok) PROVE PromptsWait'
  <2>1. prompt[k].calls > 0
    BY <1>5 DEF PromptAnswered
  <2>2. /\ DOMAIN prompt' = Kinds /\ DOMAIN prompt'[k] = DOMAIN prompt[k]
        /\ prompt'[k].busy = FALSE /\ prompt'[k].calls = prompt[k].calls - 1
        /\ \A l \in Kinds \ {k} : prompt'[l] = prompt[l]
    BY <1>5 DEF PromptAnswered
  <2>3. prompt'[k].calls \in Nat
    BY <2>1, <2>2
  <2>4. \A l \in Kinds : l = k \/ l \in Kinds \ {k}
    OBVIOUS
  <2> QED
    BY <2>2, <2>3, <2>4
<1>6. CASE DocumentLoads
  BY <1>6 DEF DocumentLoads, NewPrompt
<1>7. ASSUME NEW k \in Kinds,
             PromptMounts(k) \/ PromptOpens(k) \/ PromptCloses(k) \/ DismissalEnds(k)
      PROVE  PromptsWait'
  BY <1>1, <1>2, <1>7 DEF PromptMounts, PromptOpens, PromptCloses, DismissalEnds
<1>8. ASSUME \/ \E choice \in {"accepted", "declined"} : decide(choice)
             \/ OpenBooking \/ EventScheduled \/ CloseBooking
             \/ \E ok \in BOOLEAN : ScriptEnds(ok)
             \/ HealthNext
      PROVE  UNCHANGED prompt
  BY <1>8, Zenon
     DEF decide, OpenBooking, EventScheduled, CloseBooking, ScriptEnds, BookingStep,
         HealthNext, CheckHealth, HealthAnswers, HealthAnswer, ApiChanges, HealthStep
<1> QED
  BY <1>1, <1>3, <1>4, <1>5, <1>6, <1>7, <1>8 DEF PromptsNext, PromptsAnswers

ForumShape == DOMAIN forum = {"at", "filter", "posts", "loading", "error", "form", "loads"}

\* On the board, a list or a post that loads has its request, and so has a choice of
\* files that goes up, a post that is sent and a reply.
ForumAwaits == forum.loading => forum.loads # {}
DraftAwaits ==
    /\ draft.uploading => \E b \in draft.batches : b.own
    /\ draft.submitting => \E p \in draft.posts : p.own
ThreadAwaits ==
    /\ thread.submitting => thread.reply # None
    /\ thread.loading => thread.loads # {}
BoardAwaits == ForumAwaits /\ DraftAwaits /\ ThreadAwaits

BoardWaits == ForumShape /\ BoardAwaits

LEMMA NewDraftAwaits == draft' = NewDraft \/ draft' = Replaced => DraftAwaits'
<1> SUFFICES ASSUME draft' = NewDraft \/ draft' = Replaced PROVE DraftAwaits'
  OBVIOUS
<1> DEFINE posts == Orphan(draft.posts)
           batches == Orphan(draft.batches)
<1>0. draft' = NewDraft \/ draft' = [NewDraft EXCEPT !.posts = posts, !.batches = batches]
  BY DEF Replaced
<1> HIDE DEF posts, batches
<1>1. DOMAIN NewDraft = {"images", "uploading", "batches", "category", "ready", "submitting",
                        "posts"} /\ NewDraft.uploading = FALSE /\ NewDraft.submitting = FALSE
  BY DEF NewDraft
<1>2. draft'.uploading = FALSE /\ draft'.submitting = FALSE
  BY <1>0, <1>1
<1> QED
  BY <1>2 DEF DraftAwaits

LEMMA NewThreadAwaits ==
  ASSUME NEW id, thread' = [NewThread(id) EXCEPT !.loads = {id}] \/ thread' = NewThread(None)
  PROVE  ThreadAwaits'
<1>1. /\ thread'.submitting = FALSE
      /\ thread'.loads = {id} \/ thread'.loading = (None # None)
  BY DEF NewThread
<1> QED
  BY <1>1 DEF ThreadAwaits

LEMMA BoardWaitsStep == DraftShape /\ ThreadShape /\ BoardWaits /\ BoardNext => BoardWaits'
<1> SUFFICES ASSUME DraftShape, ThreadShape, BoardWaits, BoardNext PROVE BoardWaits'
  OBVIOUS
<1>1. ForumShape /\ ForumAwaits /\ DraftAwaits /\ ThreadAwaits
  BY DEF BoardWaits, BoardAwaits
<1>2. SUFFICES ForumShape' /\ ForumAwaits' /\ DraftAwaits' /\ ThreadAwaits'
  BY DEF BoardWaits, BoardAwaits
<1>3. ASSUME UNCHANGED forum PROVE ForumShape' /\ ForumAwaits'
  BY <1>1, <1>3 DEF ForumShape, ForumAwaits
<1>4. ASSUME UNCHANGED draft PROVE DraftAwaits'
  BY <1>1, <1>4 DEF DraftAwaits
<1>5. ASSUME UNCHANGED thread PROVE ThreadAwaits'
  BY <1>1, <1>5 DEF ThreadAwaits
<1>6. ASSUME NEW error, forum' = [forum EXCEPT !.error = error] PROVE ForumShape' /\ ForumAwaits'
  BY <1>1, <1>6 DEF ForumShape, ForumAwaits
<1>7. ASSUME \/ \E id : ReplyNeverCounted(id) \/ RepliedElsewhere(id) \/ ReplyCounted(id)
             \/ \E category : PostedElsewhere(category)
      PROVE  UNCHANGED <<forum, draft, thread>>
  BY <1>7 DEF ReplyNeverCounted, RepliedElsewhere, ReplyCounted, PostedElsewhere
<1>8. CASE CommunityPage
  <2>1. ForumShape' /\ ForumAwaits'
    BY <1>1, <1>8 DEF CommunityPage, loadPosts, Put, ForumShape, ForumAwaits
  <2> QED
    BY <1>8, <2>1, NewDraftAwaits, NewThreadAwaits DEF CommunityPage
<1>9. ASSUME NEW filter, setFilter(filter)
      PROVE  ForumShape' /\ ForumAwaits' /\ DraftAwaits' /\ ThreadAwaits'
  <2>1. ForumShape' /\ ForumAwaits'
    BY <1>1, <1>9 DEF setFilter, loadPosts, Put, ForumShape, ForumAwaits
  <2> QED
    BY <1>4, <1>5, <1>9, <2>1 DEF setFilter
<1>10. ASSUME NEW filter \in forum.loads, NEW ok \in BOOLEAN, PostsListed(filter, ok)
       PROVE  ForumShape' /\ ForumAwaits' /\ DraftAwaits' /\ ThreadAwaits'
  <2>1. ForumShape' /\ ForumAwaits'
    BY <1>1, <1>10 DEF PostsListed, ForumShape, ForumAwaits
  <2> QED
    BY <1>4, <1>5, <1>10, <2>1 DEF PostsListed
<1>11. CASE ToggleNewPost
  <2>1. ForumShape' /\ ForumAwaits'
    BY <1>1, <1>11 DEF ToggleNewPost, ForumShape, ForumAwaits
  <2> QED
    BY <1>5, <1>11, <2>1, NewDraftAwaits DEF ToggleNewPost
<1>12. ASSUME NEW files, onFile(files)
       PROVE  ForumShape' /\ ForumAwaits' /\ DraftAwaits' /\ ThreadAwaits'
  <2>1. PICK b : b.own /\ draft' = [draft EXCEPT !.uploading = TRUE, !.batches = Put(@, b)]
    <3>1. \E n, m : draft' = [draft EXCEPT !.uploading = TRUE,
                                 !.batches = Put(@, [no |-> n, own |-> TRUE, files |-> m])]
      BY <1>12, Zenon DEF onFile
    <3> QED
      BY <3>1, Zenon
  <2>2. DraftAwaits'
    BY <1>1, <2>1 DEF DraftShape, DraftAwaits, Put
  <2> QED
    BY <1>5, <1>6, <1>12, <2>2 DEF onFile
<1>13. ASSUME NEW b \in draft.batches, NEW ok \in BOOLEAN, BatchUploaded(b, ok)
       PROVE  ForumShape' /\ ForumAwaits' /\ DraftAwaits' /\ ThreadAwaits'
  <2>1. CASE b.own
    <3>1. /\ draft'.uploading = FALSE
          /\ draft'.submitting = draft.submitting /\ draft'.posts = draft.posts
      BY <1>13, <2>1 DEF BatchUploaded, DraftShape
    <3> QED
      BY <1>1, <1>5, <1>6, <1>13, <3>1 DEF BatchUploaded, DraftAwaits
  <2>2. CASE ~b.own
    <3>1. draft' = [draft EXCEPT !.batches = draft.batches \ {b}]
      BY <1>13, <2>2 DEF BatchUploaded, Drop
    <3>2. DraftAwaits'
      BY <1>1, <2>2, <3>1 DEF DraftShape, DraftAwaits
    <3> QED
      BY <1>5, <1>6, <1>13, <3>2 DEF BatchUploaded
  <2> QED
    BY <2>1, <2>2
<1>14. ASSUME removeImage \/ \E category : writePost(category)
       PROVE  ForumShape' /\ ForumAwaits' /\ DraftAwaits' /\ ThreadAwaits'
  <2>1. \/ draft' = [draft EXCEPT !.images = draft.images - 1]
        \/ \E category : draft' = [draft EXCEPT !.ready = TRUE, !.category = category]
    BY <1>14, Zenon DEF removeImage, writePost
  <2>2. /\ draft'.uploading = draft.uploading /\ draft'.submitting = draft.submitting
        /\ draft'.batches = draft.batches /\ draft'.posts = draft.posts
    BY <2>1, Zenon DEF DraftShape
  <2>3. DraftAwaits'
    BY <1>1, <2>2 DEF DraftAwaits
  <2>4. UNCHANGED <<forum, thread>>
    BY <1>14, Zenon DEF removeImage, writePost
  <2> QED
    BY <1>3, <1>5, <2>3, <2>4
<1>15. CASE submitPost
  <2>1. PICK p : p.own /\ draft' = [draft EXCEPT !.submitting = TRUE, !.posts = Put(@, p)]
    <3>1. \E category, images :
             draft' = [draft EXCEPT !.submitting = TRUE,
                         !.posts = Put(@, [category |-> category, images |-> images,
                                           own |-> TRUE])]
      BY <1>15, Zenon DEF submitPost
    <3> QED
      BY <3>1, Zenon
  <2>2. DraftAwaits'
    BY <1>1, <2>1 DEF DraftShape, DraftAwaits, Put
  <2> QED
    BY <1>5, <1>6, <1>15, <2>2 DEF submitPost
<1>16. ASSUME NEW p \in draft.posts, PostCreated(p)
       PROVE  ForumShape' /\ ForumAwaits' /\ DraftAwaits' /\ ThreadAwaits'
  <2>1. ForumShape' /\ ForumAwaits'
    BY <1>1, <1>16 DEF PostCreated, ForumShape, ForumAwaits
  <2>2. DraftAwaits'
    BY <1>16, NewDraftAwaits DEF PostCreated
  <2>3. \E id : thread' = [NewThread(id) EXCEPT !.loads = {id}]
    BY <1>16 DEF PostCreated
  <2> QED
    BY <2>1, <2>2, <2>3, NewThreadAwaits
<1>17. ASSUME NEW p \in draft.posts, PostFails(p)
       PROVE  ForumShape' /\ ForumAwaits' /\ DraftAwaits' /\ ThreadAwaits'
  <2>1. draft' = [draft EXCEPT !.posts = draft.posts \ {p},
                               !.submitting = draft.submitting /\ ~p.own]
    BY <1>17 DEF PostFails, Drop
  <2>2. DraftAwaits'
    BY <1>1, <2>1 DEF DraftShape, DraftAwaits
  <2> QED
    BY <1>5, <1>6, <1>17, <2>2 DEF PostFails
<1>18. ASSUME NEW id, CommunityPostPage(id)
       PROVE  ForumShape' /\ ForumAwaits' /\ DraftAwaits' /\ ThreadAwaits'
  <2>1. ~forum.loading
    BY <1>18 DEF CommunityPostPage, PostCards
  <2>2. ForumShape' /\ ForumAwaits'
    BY <1>1, <1>18, <2>1 DEF CommunityPostPage, ForumShape, ForumAwaits
  <2> QED
    BY <1>18, <2>2, NewDraftAwaits, NewThreadAwaits DEF CommunityPostPage
<1>19. ASSUME NEW id \in thread.loads, NEW ok \in BOOLEAN, PostLoaded(id, ok)
       PROVE  ForumShape' /\ ForumAwaits' /\ DraftAwaits' /\ ThreadAwaits'
  <2>1. ThreadAwaits'
    BY <1>1, <1>19 DEF PostLoaded, ThreadShape, ThreadAwaits
  <2> QED
    BY <1>3, <1>4, <1>19, <2>1 DEF PostLoaded
<1>20. CASE writeReply \/ submitReply \/ ReplyStored \/ ReplyAnswered \/ ReplyFails
  <2>1. None \notin {"sent", "stored"}
    BY BoardAssumption
  <2>2. ThreadAwaits'
    BY <1>1, <1>20, <2>1 DEF writeReply, submitReply, ReplyStored, ReplyAnswered, ReplyFails,
                             Put, ThreadShape, ThreadAwaits
  <2>3. UNCHANGED <<forum, draft>>
    BY <1>20 DEF writeReply, submitReply, ReplyStored, ReplyAnswered, ReplyFails
  <2> QED
    BY <1>3, <1>4, <2>2, <2>3
<1> QED
  BY <1>3, <1>4, <1>5, <1>7, <1>8, <1>9, <1>10, <1>11, <1>12, <1>13, <1>14, <1>15, <1>16,
     <1>17, <1>18, <1>19, <1>20 DEF BoardNext, BoardAnswers

-----------------------------------------------------------------------------
(* Every screen at once. *)

\* Whatever tells the user to wait has something under way that ends it.  The search and
\* the choice of an edition are themselves the request they wait for; the scheduler of
\* calls is excepted, as in NothingSpins.
Awaited ==
    /\ FeedAwaits /\ SessionsAwait /\ TimelineAwaits /\ TravelAwaits /\ StatsAwait
    /\ ReportAwaits /\ StoreAwaits /\ SettingsAwait /\ PanelAwaits /\ PromptsAwait
    /\ BoardAwaits

ScreensWait ==
    /\ FeedWaits /\ SessionsWait /\ TimelineWaits /\ TravelWaits /\ StatsAwait
    /\ ReportWaits /\ StoreWaits /\ SettingsWait /\ PanelWaits /\ PromptsWait /\ BoardWaits

\* What their proofs need of the screens.
ScreensInv == FeedInv /\ ViewsInv /\ ReportInv /\ PanelInv /\ DraftInv /\ CountsInv

\* Every one of them is an invariant of the dashboard.
THEOREM ScreensInvariant == ClientsSpec => []ScreensInv
  BY FeedInvariant, ViewsInvariant, ReportInvariant, PanelInvariant, DraftInvariant,
     CountsInvariant, PTL DEF ScreensInv

LEMMA WaitsStart == ClientsInit => ScreensWait
<1> SUFFICES ASSUME ClientsInit PROVE ScreensWait
  OBVIOUS
<1> USE DEF ClientsInit
<1>1. FeedWaits
  BY DEF FeedInit, NewFeed, NewPanel, FeedWaits, ChainShape, FeedAwaits
<1>2. SessionsWait
  BY DEF SessionsInit, SessionsWait, SessionsAwait
<1>3. TimelineWaits /\ TravelWaits
  BY DEF TimelineInit, TravelInit, TimelineWaits, TimelineAwaits, TravelWaits, TravelAwaits
<1>4. StatsAwait
  BY DEF StatsInit, StatsAwait
<1>5. ReportWaits
  BY DEF ReportInit, ReportWaits, Awaits
<1>6. StoreWaits
  BY DEF StoreInit, NewFleet, StoreWaits, StoreFields, FleetShape, StoreAwaits
<1>7. SettingsWait
  BY DEF SettingsInit, NewSettings, SettingsWait, SettingsShape, SettingsAwait
<1>8. PanelWaits
  BY DEF SettingsInit, NewKeysPanel, PanelWaits, PanelAwaits
<1>9. PromptsWait
  BY DEF PromptsInit, NewPrompt, PromptsWait, PromptShape, PromptsAwait
<1>10. BoardWaits
  <2>1. forum.loading = FALSE /\ ForumShape /\ draft.uploading = FALSE /\ draft.submitting = FALSE
    BY DEF BoardInit, ForumShape, NewDraft
  <2>2. thread.submitting = FALSE /\ thread.loading = (None # None)
    BY DEF BoardInit, NewThread
  <2> QED
    BY <2>1, <2>2 DEF BoardWaits, BoardAwaits, ForumAwaits, DraftAwaits, ThreadAwaits
<1> QED
  BY <1>1, <1>2, <1>3, <1>4, <1>5, <1>6, <1>7, <1>8, <1>9, <1>10 DEF ScreensWait

\* In the scene of a screen that asks without a step of its own, the session only ends.
WaitsInScene(part, next, unchanged) ==
    \/ scene = part /\ next
    \/ unchanged /\ (scene = part => token' = token \/ ~token')

LEMMA ViewSceneStep ==
  [ClientsNext]_clientVars =>
    /\ scene' = scene
    /\ WaitsInScene("sessions", SessionsNext, UNCHANGED sessions)
    /\ WaitsInScene("timeline", TimelineNext, UNCHANGED timeline)
    /\ TravelNext \/ UNCHANGED travel
    /\ PromptsNext \/ HealthNext \/ UNCHANGED promptVars
<1> USE DEF WaitsInScene
<1>1. ASSUME ClientsNext
      PROVE  /\ scene' = scene
             /\ WaitsInScene("sessions", SessionsNext, UNCHANGED sessions)
  BY <1>1 DEF ClientsNext, Others, Scenes, SwitchTab, SignOutElsewhere, Quiet, browserVars
<1>2. ASSUME ClientsNext PROVE WaitsInScene("timeline", TimelineNext, UNCHANGED timeline)
  BY <1>2 DEF ClientsNext, Others, Scenes, SwitchTab, SignOutElsewhere, Quiet, browserVars
<1>3. ASSUME ClientsNext
      PROVE  /\ TravelNext \/ UNCHANGED travel
             /\ PromptsNext \/ HealthNext \/ UNCHANGED promptVars
  BY <1>3 DEF ClientsNext, Others, Scenes
<1>4. ASSUME UNCHANGED clientVars
      PROVE  /\ scene' = scene /\ token' = token
             /\ UNCHANGED <<sessions, timeline, travel, promptVars>>
  BY <1>4 DEF clientVars, activityVars, browserVars
<1> QED
  BY <1>1, <1>2, <1>3, <1>4

LEMMA WaitsGoOn == ScreensInv /\ ScreensWait /\ [ClientsNext]_clientVars => ScreensWait'
<1> SUFFICES ASSUME ScreensInv, ScreensWait, [ClientsNext]_clientVars PROVE ScreensWait'
  OBVIOUS
<1>1. FeedInv /\ ViewsInv /\ ReportInv /\ PanelInv /\ DraftInv /\ CountsInv
  BY DEF ScreensInv
<1>2. /\ FeedWaits /\ SessionsWait /\ TimelineWaits /\ TravelWaits /\ StatsAwait
      /\ ReportWaits /\ StoreWaits /\ SettingsWait /\ PanelWaits /\ PromptsWait /\ BoardWaits
  BY DEF ScreensWait
<1>3. ScreensStep
  BY OneSceneAtATime
<1>4. FeedWaits'
  <2>1. CASE UNCHANGED feedVars
    BY <1>2, <2>1 DEF feedVars, FeedWaits, ChainShape, FeedAwaits
  <2> QED
    BY <1>1, <1>2, <1>3, <2>1, FeedWaitsStep DEF ScreensStep
<1>5. SessionsWait'
  <2>1. CASE /\ UNCHANGED sessions /\ scene' = scene
             /\ scene = "sessions" => token' = token \/ ~token'
    BY <1>2, <2>1 DEF SessionsWait, SessionsAwait
  <2>2. CASE scene = "sessions" /\ SessionsNext /\ scene' = scene
    BY <1>1, <1>2, <2>2, SessionsWaitStep DEF ViewsInv
  <2> QED
    BY <2>1, <2>2, ViewSceneStep DEF WaitsInScene
<1>6. TimelineWaits'
  <2>1. CASE /\ UNCHANGED timeline /\ scene' = scene
             /\ scene = "timeline" => token' = token \/ ~token'
    BY <1>2, <2>1 DEF TimelineWaits, TimelineAwaits
  <2>2. CASE scene = "timeline" /\ TimelineNext /\ scene' = scene
    BY <1>2, <2>2, TimelineWaitsStep
  <2> QED
    BY <2>1, <2>2, ViewSceneStep DEF WaitsInScene
<1>7. TravelWaits'
  <2>1. CASE UNCHANGED travel
    BY <1>2, <2>1 DEF TravelWaits, TravelAwaits
  <2> QED
    BY <1>2, <2>1, TravelWaitsStep, ViewSceneStep
<1>8. StatsAwait'
  <2>1. CASE UNCHANGED stats
    BY <1>2, <2>1 DEF StatsAwait
  <2> QED
    BY <1>1, <1>2, <1>3, <2>1, StatsAwaitStep DEF ScreensStep, ViewsInv
<1>9. ReportWaits'
  <2>1. CASE ReportNext
    BY <1>1, <1>2, <2>1, ReportWaitsStep
  <2>2. CASE UNCHANGED report /\ (scene = "report" => token' = token \/ ~token')
    BY <1>1, <1>2, <2>2 DEF ReportInv, ReportWaits, Awaits
  <2> QED
    BY <2>1, <2>2, ReportSceneStep
<1>10. StoreWaits'
  <2>1. CASE UNCHANGED storeVars
    BY <1>2, <2>1 DEF storeVars, StoreWaits, FleetShape, StoreAwaits
  <2> QED
    BY <1>2, <1>3, <2>1, StoreWaitsStep DEF ScreensStep
<1>11. SettingsWait' /\ PanelWaits'
  <2>1. CASE UNCHANGED settingsVars
    BY <1>2, <2>1 DEF settingsVars, SettingsWait, SettingsShape, SettingsAwait, EndsHandler,
                      EndsAccount, PanelWaits, PanelAwaits, EndsOnPanel
  <2> QED
    BY <1>1, <1>2, <1>3, <2>1, SettingsWaitStep, PanelWaitsStep DEF ScreensStep
<1>12. PromptsWait'
  <2>1. CASE UNCHANGED promptVars
    BY <1>2, <2>1 DEF promptVars, PromptsWait, PromptShape, PromptsAwait
  <2> QED
    BY <1>2, <2>1, PromptsWaitStep, ViewSceneStep
<1>13. BoardWaits'
  <2>1. CASE UNCHANGED boardVars
    BY <1>2, <2>1 DEF boardVars, BoardWaits, ForumShape, BoardAwaits, ForumAwaits,
                      DraftAwaits, ThreadAwaits
  <2> QED
    BY <1>1, <1>2, <1>3, <2>1, BoardWaitsStep DEF ScreensStep, DraftInv, CountsInv
<1> QED
  BY <1>4, <1>5, <1>6, <1>7, <1>8, <1>9, <1>10, <1>11, <1>12, <1>13 DEF ScreensWait

\* No screen waits for nothing: a skeleton, a spinner or a disabled button of any of
\* them has a request under way whose answer, or failure, ends it, whatever the user
\* did meanwhile and however the answers were ordered (hooks/, components/ and app/ of the
\* dashboard).  It is what NothingSpins owes to safety; that the answers come is fairness.
THEOREM SpinnersAwaited == ClientsSpec => []Awaited
<1>1. ScreensWait => Awaited
  BY DEF ScreensWait, Awaited, FeedWaits, SessionsWait, TimelineWaits, TravelWaits,
         ReportWaits, Awaits, ReportAwaits, StoreWaits, SettingsWait, PanelWaits,
         PromptsWait, BoardWaits
<1> QED
  BY <1>1, WaitsStart, WaitsGoOn, ScreensInvariant, PTL DEF ClientsSpec
=============================================================================
