-------------------------------- MODULE SignIn --------------------------------
(***************************************************************************)
(* Signing in and signing up in the browser: the session in local storage  *)
(* and cookie (lib/auth.ts), the middleware that guards /dashboard, the    *)
(* login page, the signup funnel (plan, consent, code) with what it keeps  *)
(* in session storage, and OtpForm, which both pages share.  The API's     *)
(* side of a code is module Accounts; here it is what one address sees.    *)
(***************************************************************************)
EXTENDS Browser

CONSTANT MaxCodes   \* bound: codes mailed to the address

ASSUME SignInAssumption == MaxCodes \in Nat \ {0}

VARIABLES
    session,    \* the token in local storage and in the cookie
    mailbox,    \* the API: is the address registered, which code is valid, its plan
    funnel,     \* session storage: signup_plan and the two consents
    signin,     \* the page on screen and what of it is loading
    form        \* the state of OtpForm

signinVars == <<session, mailbox, funnel, signin, form>>

\* getToken: local storage first, then the cookie.
getToken(s) == s.local \/ s.cookie
setToken == [local |-> TRUE, cookie |-> TRUE]
clearToken == [local |-> FALSE, cookie |-> FALSE]

SetSession(s) ==
    /\ session' = s
    /\ token' = getToken(s)
    /\ UNCHANGED visible

-----------------------------------------------------------------------------
(* OtpForm. *)

NewForm ==
    [step |-> "email", otp |-> None, loading |-> FALSE, error |-> "none",
     lock |-> FALSE, paused |-> FALSE, cooldown |-> FALSE, calls |-> {}]

NewSignin(page) == [page |-> page, navigating |-> FALSE, dev |-> FALSE, stuck |-> FALSE]

\* LoginForm and SignupForm show OtpForm until they navigate away; it starts with
\* EmailStep and goes on with CodeStep.
LoginForm == signin.page = "login" /\ ~signin.navigating
SignupForm == signin.page = "signup" /\ ~signin.navigating
FormShown == LoginForm \/ SignupForm

\* The e-mail field and its button.
EmailStep == FormShown /\ form.step = "email" /\ ~form.loading

\* The code field, its button, Resend once the cooldown is over, and the link back.
CodeStep ==
    [input |-> FormShown /\ form.step = "otp" /\ ~form.loading,
     resend |-> FormShown /\ form.step = "otp" /\ ~form.loading /\ ~form.cooldown,
     back |-> FormShown /\ form.step = "otp"]

\* handleRequestOtp, on the email step, and handleResendOtp, on the code step
\* once the cooldown is over.
Send == [form EXCEPT !.loading = TRUE, !.error = "none", !.calls = Put(@, [kind |-> "send"])]

handleRequestOtp ==
    /\ Acts
    /\ EmailStep
    /\ form' = Send
    /\ UNCHANGED <<session, mailbox, funnel, signin>>

handleResendOtp ==
    /\ Acts
    /\ CodeStep.resend
    /\ form' = Send
    /\ UNCHANGED <<session, mailbox, funnel, signin>>

\* The API refuses a login without an account (404) and a signup with one
\* (409); otherwise it mails a code, which replaces the one before.
Refused == IF signin.page = "login" THEN ~mailbox.registered ELSE mailbox.registered

CodeSent(c) ==
    /\ Quiet
    /\ c.kind = "send" /\ ~Refused /\ mailbox.mailed < MaxCodes
    /\ mailbox' = [mailbox EXCEPT !.mailed = @ + 1, !.code = mailbox.mailed + 1]
    /\ form' = [form EXCEPT !.calls = Drop(@, c), !.step = "otp", !.cooldown = TRUE,
                            !.loading = FALSE]
    /\ UNCHANGED <<session, funnel, signin>>

SendFails(c) ==
    /\ c.kind = "send"
    /\ IF Refused THEN Quiet ELSE Acts
    /\ form' = [form EXCEPT !.calls = Drop(@, c), !.loading = FALSE,
                  !.error = IF ~Refused THEN "failed"
                            ELSE IF signin.page = "login" THEN "noAccount"
                            ELSE "alreadyRegistered"]
    /\ UNCHANGED <<session, mailbox, funnel, signin>>

\* useResendCooldown counts down to zero.
CooldownEnds ==
    /\ Quiet
    /\ form.cooldown
    /\ form' = [form EXCEPT !.cooldown = FALSE]
    /\ UNCHANGED <<session, mailbox, funnel, signin>>

\* The code field: a whole code from a mail, a wrong one (0), or less than one.
TypeCode(code) ==
    /\ Acts
    /\ CodeStep.input
    /\ code # form.otp
    /\ form' = [form EXCEPT !.otp = code, !.paused = FALSE]
    /\ UNCHANGED <<session, mailbox, funnel, signin>>

\* Mutant: going back to the e-mail also ends the waiting.
BackAtOnce ==
    /\ Acts
    /\ CodeStep.back
    /\ form' = [form EXCEPT !.lock = FALSE, !.paused = FALSE, !.step = "email",
                            !.otp = None, !.error = "none", !.loading = FALSE]
    /\ UNCHANGED <<session, mailbox, funnel, signin>>

\* The link "Use a different email" works while a call is running, too.
handleUseDifferentEmail ==
    /\ Acts
    /\ CodeStep.back
    /\ form' = [form EXCEPT !.lock = FALSE, !.paused = FALSE, !.step = "email",
                            !.otp = None, !.error = "none"]
    /\ UNCHANGED <<session, mailbox, funnel, signin>>

\* handleVerifyOtp up to the call of onVerified.  The effect on otp, step and
\* loading submits a whole code by itself, also one that was just refused.
AutoSubmit ==
    /\ form.step = "otp" /\ form.otp # None
    /\ ~form.loading /\ ~form.lock /\ ~form.paused

SubmitButton == CodeStep.input /\ form.otp # None /\ ~form.lock

Verify == [form EXCEPT !.lock = TRUE, !.loading = TRUE, !.error = "none",
                       !.calls = Put(@, [kind |-> "verify", otp |-> form.otp])]

Aborted(f) == [f EXCEPT !.paused = TRUE, !.lock = FALSE, !.loading = FALSE]

\* The signup page asks for the consent first; without it the user is sent
\* back to the consent page and the form unlocked.
NoConsent == signin.page = "signup" /\ ~funnel.gdpr

handleVerifyOtp ==
    /\ FormShown
    /\ \/ AutoSubmit /\ (IF form.error = "refused" THEN Acts ELSE Quiet)
       \/ SubmitButton /\ Acts
    /\ IF NoConsent
       THEN /\ signin' = NewSignin("start")
            /\ form' = Aborted(form)
       ELSE /\ form' = Verify
            /\ UNCHANGED signin
    /\ UNCHANGED <<session, mailbox, funnel>>

Right(c) == c.kind = "verify" /\ c.otp = mailbox.code

VerifyFails(c) ==
    /\ c.kind = "verify"
    /\ IF Right(c) THEN Acts ELSE Quiet
    /\ form' = [form EXCEPT !.calls = Drop(@, c), !.lock = FALSE, !.loading = FALSE,
                            !.error = IF Right(c) THEN "failed" ELSE "refused"]
    /\ UNCHANGED <<session, mailbox, funnel, signin>>

-----------------------------------------------------------------------------
(* The login page. *)

\* Mutant: the session that is there is taken as it is.
SessionAsItIs ==
    /\ signin.page = "login" /\ getToken(session) /\ ~signin.navigating
    /\ Quiet
    /\ signin' = [signin EXCEPT !.navigating = TRUE]
    /\ UNCHANGED <<session, mailbox, funnel, form>>

\* The effect of LoginForm: a session that is there is written again, to both
\* places, and the dashboard opened.
ExistingSession ==
    /\ signin.page = "login" /\ getToken(session) /\ ~signin.navigating
    /\ acts' = acts
    /\ SetSession(setToken)
    /\ signin' = [signin EXCEPT !.navigating = TRUE]
    /\ UNCHANGED <<mailbox, funnel, form>>

\* handleVerified of the login page.
LoginVerified(c) ==
    /\ signin.page = "login" /\ Right(c)
    /\ acts' = acts
    /\ SetSession(setToken)
    /\ mailbox' = [mailbox EXCEPT !.code = None]
    /\ signin' = [signin EXCEPT !.navigating = TRUE]
    /\ form' = [form EXCEPT !.calls = Drop(@, c)]
    /\ UNCHANGED funnel

\* handleDevLogin, on a self-hosted installation, next to the form.
handleDevLogin ==
    /\ Acts
    /\ LoginForm /\ ~signin.dev
    /\ signin' = [signin EXCEPT !.dev = TRUE]
    /\ UNCHANGED <<session, mailbox, funnel, form>>

DevAnswer(ok) ==
    /\ signin.page = "login" /\ signin.dev
    /\ IF ok
       THEN /\ acts' = acts
            /\ SetSession(setToken)
            /\ signin' = [signin EXCEPT !.dev = FALSE, !.navigating = TRUE]
       ELSE /\ Acts
            /\ signin' = [signin EXCEPT !.dev = FALSE]
            /\ UNCHANGED session
    /\ UNCHANGED <<mailbox, funnel, form>>

-----------------------------------------------------------------------------
(* The signup funnel. *)

\* The managed plans, each a card of SignupPlanPage.
MANAGED_PLANS == {"pro", "team"}
SignupPlanPage == IF signin.page = "plan" THEN MANAGED_PLANS ELSE {}

\* handleContinue of SignupPlanPage: the plan that was chosen is stored.
choosePlan(plan) ==
    /\ Acts
    /\ plan \in SignupPlanPage
    /\ funnel' = [funnel EXCEPT !.plan = plan]
    /\ signin' = NewSignin("start")
    /\ UNCHANGED <<session, mailbox, form>>

\* SignupStartInner, once its guard has a plan: Continue is disabled until the
\* consent is given, the box for marketing is optional.
SignupStartInner == signin.page = "start" /\ funnel.plan # None

giveConsent(marketing) ==
    /\ Acts
    /\ SignupStartInner
    /\ funnel' = [funnel EXCEPT !.gdpr = TRUE, !.marketing = marketing]
    /\ signin' = NewSignin("signup")
    /\ form' = NewForm
    /\ UNCHANGED <<session, mailbox>>

\* useSignupFunnelGuard: where a page of the funnel sends who is not ready.
signupOtpRedirect ==
    CASE funnel.plan = None -> "plan"
      [] funnel.plan # None /\ ~funnel.gdpr -> "start"
      [] OTHER -> None

FunnelGuard ==
    /\ Quiet
    /\ LET to == IF signin.page = "signup" /\ ~signin.navigating THEN signupOtpRedirect
                 ELSE IF signin.page = "start" /\ funnel.plan = None THEN "plan"
                 ELSE None
       IN  to # None /\ signin' = NewSignin(to)
    /\ form' = NewForm
    /\ UNCHANGED <<session, mailbox, funnel>>

\* handleVerified of the signup page: the account exists from here on, the
\* funnel is cleared, and the plan still has to be selected.
SignupVerified(c) ==
    /\ signin.page = "signup" /\ Right(c)
    /\ acts' = acts
    /\ SetSession(setToken)
    /\ mailbox' = [mailbox EXCEPT !.code = None, !.registered = TRUE, !.chosen = funnel.plan]
    /\ funnel' = [plan |-> None, gdpr |-> FALSE, marketing |-> FALSE]
    /\ signin' = [signin EXCEPT !.navigating = TRUE]
    /\ form' = [form EXCEPT !.calls = {[kind |-> "plan", plan |-> funnel.plan]}]

PlanSelected(c) ==
    /\ Quiet
    /\ c.kind = "plan"
    /\ mailbox' = [mailbox EXCEPT !.plan = c.plan]
    /\ form' = [form EXCEPT !.calls = Drop(@, c)]
    /\ UNCHANGED <<session, funnel, signin>>

\* selectBillingPlan fails: the error goes to a form that is no longer on
\* screen; the page goes on saying that it is opening the dashboard.
PlanFails(c) ==
    /\ Acts
    /\ c.kind = "plan"
    /\ form' = [form EXCEPT !.calls = Drop(@, c), !.lock = FALSE, !.loading = FALSE,
                            !.error = "failed"]
    /\ signin' = [signin EXCEPT !.stuck = TRUE]
    /\ UNCHANGED <<session, mailbox, funnel>>

-----------------------------------------------------------------------------
(* Pages. *)

\* The middleware lets a request of /dashboard through if the cookie is there.
middleware == IF session.cookie THEN "dashboard" ELSE "login"

\* Mutant: the dashboard is opened without waiting for the plan.
OpenAtOnce ==
    /\ Quiet
    /\ signin.navigating /\ ~signin.stuck
    /\ signin' = NewSignin(middleware)
    /\ form' = NewForm
    /\ UNCHANGED <<session, mailbox, funnel>>

\* The browser follows a navigation to the dashboard.
OpenDashboard ==
    /\ Quiet
    /\ signin.navigating /\ ~signin.stuck
    /\ \A c \in form.calls : c.kind # "plan"
    /\ signin' = NewSignin(middleware)
    /\ form' = NewForm
    /\ UNCHANGED <<session, mailbox, funnel>>

\* persistSignupPlanParam: the plan of the URL, as in the links of startTrialHref,
\* replaces the stored one.
persistSignupPlanParam(plan) ==
    funnel' = [funnel EXCEPT !.plan = IF plan \in MANAGED_PLANS THEN plan ELSE @]

\* The user opens a page; what a form had in flight is lost with it.  The pages
\* under the funnel's guard read a plan from the URL.
Visit(page, plan) ==
    /\ Acts
    /\ signin.page # page
    /\ signin' = NewSignin(IF page = "dashboard" THEN middleware ELSE page)
    /\ form' = NewForm
    /\ plan # None => page \in {"signup", "start"}
    /\ persistSignupPlanParam(plan)
    /\ UNCHANGED <<session, mailbox>>

\* A request of the dashboard is answered 401 (apiFetch).
SessionExpired ==
    /\ Spend
    /\ signin.page = "dashboard" /\ getToken(session)
    /\ SetSession(clearToken)
    /\ signin' = NewSignin("login")
    /\ form' = NewForm
    /\ UNCHANGED <<mailbox, funnel>>

\* The cookie reaches its max-age, or the user deletes it; local storage stays.
CookieExpires ==
    /\ Spend
    /\ signin.page # "closed" /\ session.cookie /\ session.local
    /\ SetSession([session EXCEPT !.cookie = FALSE])
    /\ UNCHANGED <<mailbox, funnel, signin, form>>

\* A document starts on any page, signed in or not, registered or not.
SigninInit ==
    /\ session = setToken
    /\ mailbox = [registered |-> FALSE, mailed |-> 0, code |-> None, plan |-> None,
                  chosen |-> None]
    /\ funnel = [plan |-> None, gdpr |-> FALSE, marketing |-> FALSE]
    /\ signin = NewSignin("closed")
    /\ form = NewForm

BrowserOpens(page, signedIn, registered) ==
    /\ signin.page = "closed"
    /\ acts' = acts
    /\ SetSession(IF signedIn THEN setToken ELSE clearToken)
    /\ mailbox' = [mailbox EXCEPT !.registered = registered]
    /\ signin' = NewSignin(page)
    /\ UNCHANGED <<funnel, form>>

SigninAnswers ==
    \/ \E c \in form.calls : CodeSent(c) \/ LoginVerified(c) \/ SignupVerified(c)
                               \/ PlanSelected(c)
    \/ \E c \in form.calls : ~Right(c) /\ VerifyFails(c)
    \/ \E c \in form.calls : (Refused \/ mailbox.mailed = MaxCodes) /\ SendFails(c)
    \/ DevAnswer(TRUE)
    \/ ExistingSession
    \/ FunnelGuard
    \/ OpenDashboard

SigninNext ==
    \/ \E page \in {"login", "plan"}, registered \in BOOLEAN :
          BrowserOpens(page, FALSE, registered)
    \/ BrowserOpens("dashboard", TRUE, TRUE)
    \/ SigninAnswers
    \/ handleRequestOtp
    \/ handleResendOtp
    \/ \E c \in form.calls : SendFails(c) \/ VerifyFails(c) \/ PlanFails(c)
    \/ CooldownEnds
    \/ \E code \in {None} \cup (0 .. mailbox.mailed) : TypeCode(code)
    \/ handleUseDifferentEmail
    \/ handleVerifyOtp
    \/ handleDevLogin
    \/ DevAnswer(FALSE)
    \/ \E plan \in MANAGED_PLANS : choosePlan(plan)
    \/ \E marketing \in BOOLEAN : giveConsent(marketing)
    \/ \E page \in {"login", "plan", "start", "signup", "dashboard"},
          plan \in MANAGED_PLANS \cup {None} : Visit(page, plan)
    \/ SessionExpired
    \/ CookieExpires

-----------------------------------------------------------------------------
(* Properties. *)

\* The form has one call in flight at the most: the lock, the pause and loading
\* let neither the button, the Enter key nor the effect that submits a whole
\* code by itself start a second one, even if the user goes back to the e-mail
\* step meanwhile (components/auth/OtpForm.tsx).
OneAuthCallAtATime == Cardinality(form.calls) <= 1

\* A signup opens the dashboard by itself only after the plan that was chosen
\* has become the plan of the account (app/signup/page.tsx handleVerified).
PlanBeforeDashboard ==
    [][signin.page = "signup" /\ signin'.page = "dashboard" /\ acts' = acts =>
         mailbox.plan = mailbox.chosen]_<<signin, acts>>

\* Whoever has a session in local storage does not stay on the login page, also
\* when the cookie that the middleware asks for has expired, and a page that
\* says it is opening the dashboard does, unless the plan could not be selected
\* (app/login/page.tsx, middleware.ts).
SignInGoesOn ==
    []<>~(\/ signin.page = "login" /\ session.local
          \/ signin.navigating /\ ~signin.stuck)
=============================================================================
