-------------------------------- MODULE Prompts --------------------------------
(***************************************************************************)
(* What floats over the pages: the two prompts for an e-mail address       *)
(* (MarketingSubscribePopup on every page, TelemetryUpdatesPrompt on the   *)
(* dashboard), the privacy notice, the dialog that embeds the scheduler,   *)
(* and the light in the header that polls the health of the API            *)
(* (useConnectionHealth).  A prompt looks at what is stored once, when it  *)
(* mounts, and opens later.                                                *)
(***************************************************************************)
EXTENDS Browser

VARIABLES
    stored,     \* local storage: what was dismissed, submitted and consented to
    prompt,     \* the state of each prompt
    notice,     \* the choice CookiePrivacyConsent knows
    booking,    \* the state of CalendlyBookModal and of the script it loads
    health,     \* the state of useConnectionHealth
    up          \* the API is healthy

promptVars == <<stored, prompt, notice, booking, health, up>>

Kinds == {"marketing", "updates"}

-----------------------------------------------------------------------------
(* The prompts. *)

NewPrompt == [at |-> "unmounted", busy |-> FALSE, error |-> FALSE, calls |-> 0]

PromptStep == UNCHANGED <<notice, booking, health, up>>

\* The effect on mount: never after a subscription, not for some days after a
\* dismissal, and the second prompt not for someone signed in.
Suppressed(k) ==
    \/ stored[k].submitted
    \/ stored[k].dismissed
    \/ k = "updates" /\ token

PromptMounts(k) ==
    /\ Quiet
    /\ prompt[k].at = "unmounted"
    /\ prompt' = [prompt EXCEPT ![k].at = IF Suppressed(k) THEN "silent" ELSE "armed"]
    /\ PromptStep /\ UNCHANGED stored

\* The dashboard is left: the timer is cleared, a call in flight goes on.
PromptUnmounts(k) ==
    /\ Acts
    /\ k = "updates" /\ prompt[k].at # "unmounted"
    /\ prompt' = [prompt EXCEPT ![k] = [NewPrompt EXCEPT !.calls = prompt[k].calls]]
    /\ PromptStep /\ UNCHANGED stored

PromptOpens(k) ==
    /\ Quiet
    /\ prompt[k].at = "armed"
    /\ prompt' = [prompt EXCEPT ![k].at = "open"]
    /\ PromptStep /\ UNCHANGED stored

\* What the prompts offer: an address to send while no call runs, and a way out,
\* a click beside the first at any time, Skip of the second while no call runs.
MarketingSubscribePopup ==
    [send |-> prompt["marketing"].at = "open" /\ ~prompt["marketing"].busy,
     leave |-> prompt["marketing"].at = "open"]

TelemetryUpdatesPrompt ==
    [send |-> prompt["updates"].at = "open" /\ ~prompt["updates"].busy,
     leave |-> prompt["updates"].at = "open" /\ ~prompt["updates"].busy]

Offers(k) == IF k = "marketing" THEN MarketingSubscribePopup ELSE TelemetryUpdatesPrompt

\* close of the first prompt and dismiss of the second.
PromptCloses(k) ==
    /\ Acts
    /\ Offers(k).leave
    /\ stored' = [stored EXCEPT ![k].dismissed = TRUE]
    /\ prompt' = [prompt EXCEPT ![k].at = "silent"]
    /\ PromptStep

submitPrompt(k) ==
    /\ Acts
    /\ Offers(k).send
    /\ prompt' = [prompt EXCEPT ![k].busy = TRUE, ![k].error = FALSE, ![k].calls = @ + 1]
    /\ PromptStep /\ UNCHANGED stored

\* The answer is for the instance that sent it; one that has unmounted since
\* still stores the subscription.
PromptAnswered(k, ok) ==
    /\ IF ok THEN Quiet ELSE Acts
    /\ prompt[k].calls > 0
    /\ stored' = [stored EXCEPT ![k].submitted = @ \/ ok]
    /\ prompt' = IF ~prompt[k].busy THEN [prompt EXCEPT ![k].calls = @ - 1]
                  ELSE [prompt EXCEPT ![k].calls = @ - 1, ![k].busy = FALSE, ![k].error = ~ok,
                                      ![k].at = IF ok THEN "silent" ELSE @]
    /\ PromptStep

\* The days after a dismissal have passed, before the document is loaded anew.
DismissalEnds(k) ==
    /\ Acts
    /\ stored[k].dismissed
    /\ stored' = [stored EXCEPT ![k].dismissed = FALSE]
    /\ PromptStep /\ UNCHANGED prompt

-----------------------------------------------------------------------------
(* The privacy notice. *)

\* The notice has two buttons, and is there until one is pressed.
CookiePrivacyConsent == IF notice = None THEN {"accepted", "declined"} ELSE {}

\* decide: the choice is stored, and hides the notice.
decide(choice) ==
    /\ Acts
    /\ choice \in CookiePrivacyConsent
    /\ notice' = choice
    /\ stored' = [stored EXCEPT !.consent = choice]
    /\ UNCHANGED <<prompt, booking, health, up>>

\* A document loads: the notice and the prompts start from what is stored.
DocumentLoads ==
    /\ Acts
    /\ notice' = stored.consent
    /\ prompt' = [k \in Kinds |-> NewPrompt]
    /\ booking' = [booking EXCEPT !.open = FALSE, !.booked = FALSE, !.error = FALSE,
                                  !.waits = FALSE, !.script = "none", !.widget = FALSE]
    /\ health' = [state |-> "checking", calls |-> {}]
    /\ UNCHANGED <<stored, up>>

-----------------------------------------------------------------------------
(* The scheduler. *)

BookingStep == UNCHANGED <<stored, prompt, notice, health, up>>

\* loadCalendlyScript: at once if the script has run; else the first caller
\* adds it, and later ones listen to its element, whose events may be over.
OpenBooking ==
    /\ Acts
    /\ ~booking.open
    /\ booking' = [booking EXCEPT !.open = TRUE, !.booked = FALSE, !.error = FALSE,
                     !.widget = booking.script = "loaded",
                     !.waits = booking.script # "loaded",
                     !.script = IF @ = "none" THEN "loading" ELSE @]
    /\ BookingStep

ScriptEnds(ok) ==
    /\ IF ok THEN Quiet ELSE Acts
    /\ booking.script = "loading"
    /\ booking' = [booking EXCEPT !.script = IF ok THEN "loaded" ELSE "failed",
                     !.waits = FALSE,
                     !.widget = ok /\ booking.waits /\ booking.open,
                     !.error = ~ok /\ booking.waits /\ booking.open]
    /\ BookingStep

\* What the dialog shows: thanks for the booking, an error with a link to the
\* scheduler, or the place for its frame, empty until the script has drawn it.
CalendlyBookModal ==
    CASE ~booking.open -> "closed"
      [] booking.open /\ booking.booked -> "booked"
      [] booking.open /\ ~booking.booked /\ booking.error -> "error"
      [] OTHER -> IF booking.widget THEN "scheduler" ELSE "blank"

\* The frame of the scheduler reports a booking.
EventScheduled ==
    /\ Acts
    /\ CalendlyBookModal = "scheduler"
    /\ booking' = [booking EXCEPT !.booked = TRUE, !.widget = FALSE]
    /\ BookingStep

\* The cross or Escape before a booking, Close or a click beside it after one.
CloseBooking ==
    /\ Acts
    /\ CalendlyBookModal # "closed"
    /\ booking' = [booking EXCEPT !.open = FALSE, !.booked = FALSE, !.error = FALSE,
                                  !.waits = FALSE, !.widget = FALSE]
    /\ BookingStep

-----------------------------------------------------------------------------
(* The health of the API. *)

HealthStep == UNCHANGED <<stored, prompt, notice, booking>>

\* Mutant: checked once, and when the tab turns visible again.
ChecksOnce ==
    /\ Quiet
    /\ visible /\ health.state = "checking" /\ Cardinality(health.calls) < 2
    /\ health' = [health EXCEPT !.calls = Put(@, up)]
    /\ HealthStep /\ UNCHANGED up

\* check: on mount, by the interval, and when the tab turns visible.
CheckHealth ==
    /\ Quiet
    /\ visible /\ Cardinality(health.calls) < 2
    /\ health' = [health EXCEPT !.calls = Put(@, up)]
    /\ HealthStep /\ UNCHANGED up

\* The answers of overlapping checks arrive in any order.
HealthAnswer(result) ==
    /\ Quiet
    /\ result \in health.calls
    /\ health' = [health EXCEPT !.calls = Drop(@, result),
                                !.state = IF result THEN "ok" ELSE "error"]
    /\ HealthStep /\ UNCHANGED up

ApiChanges ==
    /\ Acts
    /\ up' = ~up
    /\ HealthStep /\ UNCHANGED health

-----------------------------------------------------------------------------
PromptsInit ==
    /\ stored = [k \in Kinds \cup {"consent"} |->
                   IF k = "consent" THEN None ELSE [dismissed |-> FALSE, submitted |-> FALSE]]
    /\ prompt = [k \in Kinds |-> NewPrompt]
    /\ notice = None
    /\ booking = [open |-> FALSE, booked |-> FALSE, error |-> FALSE, waits |-> FALSE,
                  widget |-> FALSE, script |-> "none"]
    /\ health = [state |-> "checking", calls |-> {}]
    /\ up = TRUE

PromptsAnswers ==
    \/ \E k \in Kinds : PromptAnswered(k, TRUE)
    \/ ScriptEnds(TRUE)

HealthAnswers == \E result \in BOOLEAN : HealthAnswer(result)

PromptsNext ==
    \/ \E k \in Kinds : PromptMounts(k)
    \/ \E k \in Kinds : PromptUnmounts(k)
    \/ \E k \in Kinds : PromptOpens(k)
    \/ \E k \in Kinds : PromptCloses(k)
    \/ \E k \in Kinds : submitPrompt(k)
    \/ \E k \in Kinds : PromptAnswered(k, FALSE)
    \/ \E k \in Kinds : DismissalEnds(k)
    \/ \E choice \in {"accepted", "declined"} : decide(choice)
    \/ DocumentLoads
    \/ OpenBooking
    \/ ScriptEnds(FALSE)
    \/ EventScheduled
    \/ CloseBooking
    \/ PromptsAnswers

HealthNext ==
    \/ CheckHealth
    \/ HealthAnswers
    \/ ApiChanges
=============================================================================
