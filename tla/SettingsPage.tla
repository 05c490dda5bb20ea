----------------------------- MODULE SettingsPage -----------------------------
(***************************************************************************)
(* The settings page of the dashboard and the panel of an agent's keys     *)
(* that it embeds.  Both create and revoke keys of the account (vault) and *)
(* each holds its own list, its own copy of the quota (useApiKeyQuota) and *)
(* its own one-time key; the page also saves the embedding provider, sends *)
(* a test event and ends the account.                                      *)
(***************************************************************************)
EXTENDS Browser

CONSTANTS
    KeyLimit,   \* the keys the plan allows
    MaxKeys     \* bound: keys ever created

ASSUME SettingsAssumption ==
    /\ None \notin Agents /\ None # "create"
    /\ KeyLimit \in Nat /\ MaxKeys \in Nat
    /\ \A n \in 1 .. MaxKeys, a \in Agents \cup {None} : None # [id |-> n, agent |-> a]

VARIABLES
    vault,      \* the API: the account, its keys and its retention trial
    settings,   \* the state of SettingsPage
    keysPanel   \* the state of AgentApiKeys, or of CreateApiKeyCard without an agent

settingsVars == <<vault, settings, keysPanel>>

-----------------------------------------------------------------------------
(* The API. *)

KeysOf(a) == {k \in vault.keys : k.agent = a}

\* at_limit of the usage endpoint.
AtLimit(keys) == Cardinality(keys) >= KeyLimit

\* What an answer may say: the keys when the request was made, or now.
KeysSeen(call) == {call.keys, vault.keys}

Minted(agent) == [id |-> vault.minted + 1, agent |-> agent]
WithKey(agent) == [vault EXCEPT !.minted = @ + 1, !.keys = Put(@, Minted(agent))]
MayMint == vault.minted < MaxKeys /\ ~AtLimit(vault.keys)

\* Another tab, or the other panel, creates or revokes a key.
MintedElsewhere(a) ==
    /\ Acts
    /\ MayMint
    /\ vault' = WithKey(a)
    /\ UNCHANGED <<settings, keysPanel>>

RevokedElsewhere(k) ==
    /\ Acts
    /\ vault' = [vault EXCEPT !.keys = Drop(@, k)]
    /\ UNCHANGED <<settings, keysPanel>>

Call(kind, arg) == [kind |-> kind, arg |-> arg, keys |-> vault.keys]

-----------------------------------------------------------------------------
(* useApiKeyQuota: fail-open, refreshed on focus and after every change.   *)
(* "ends" names the handler that awaits the refresh and is over with it.   *)

QuotaCall(ends) == Call("quota", ends)

\* The handlers of a screen that run, less the one that was waiting.
Finish(s, ends) == [s EXCEPT !.running = Drop(@, ends)]

\* refresh without a session returns at once.
refreshQuota(s, ends) ==
    IF token THEN [s EXCEPT !.calls = Put(@, QuotaCall(ends))] ELSE Finish(s, ends)

\* The answer of the usage endpoint, or its failure, which changes nothing.
QuotaAnswered(s, call, keys) ==
    [Finish(s, call.arg) EXCEPT !.calls = Drop(@, call), !.atLimit = AtLimit(keys)]

QuotaFailed(s, call) == [Finish(s, call.arg) EXCEPT !.calls = Drop(@, call)]

-----------------------------------------------------------------------------
(* The page. *)

NewSettings(at) ==
    [at |-> at, managed |-> TRUE, list |-> {}, loading |-> TRUE, atLimit |-> FALSE,
     newKey |-> None, revoking |-> None, running |-> {}, calls |-> {},
     trial |-> FALSE, opts |-> FALSE, dialog |-> FALSE, typed |-> FALSE,
     busy |-> FALSE, ready |-> FALSE]

OnSettings == settings.at = "settings"
Managed == OnSettings /\ settings.managed
Sends(call) == [settings EXCEPT !.calls = Put(@, call)]

\* requireAuth without a session: the document goes to the login page.
requireAuth(next) ==
    /\ settings' = IF token THEN next ELSE NewSettings("login")
    /\ UNCHANGED <<vault, keysPanel>>

\* The effect on mount asks for keys, embedding settings and account options;
\* the quota hook for the usage.  None of them waits for another.
SettingsMounts(managed) ==
    /\ Quiet
    /\ settings.at = "closed" /\ keysPanel.at = "closed"
    /\ requireAuth([NewSettings("settings") EXCEPT !.managed = managed,
                      !.calls = {Call("list", None), QuotaCall(None)}
                                  \cup IF managed THEN {Call("options", None)} ELSE {}])

\* getApiKeys has no catch: a failure leaves the empty list.
SettingsListed(call, ok) ==
    /\ IF ok THEN Quiet ELSE Acts
    /\ call.kind = "list"
    /\ \E keys \in IF ok THEN KeysSeen(call) ELSE {settings.list} :
          settings' = [settings EXCEPT !.calls = Drop(@, call), !.list = keys, !.loading = FALSE]
    /\ UNCHANGED <<vault, keysPanel>>

\* Without the options there is nothing to delete an account with.
OptionsAnswered(call, ok) ==
    /\ IF ok THEN Quiet ELSE Acts
    /\ call.kind = "options"
    /\ settings' = [settings EXCEPT !.calls = Drop(@, call), !.opts = ok,
                                    !.trial = ok /\ ~vault.trialUsed]
    /\ UNCHANGED <<vault, keysPanel>>

SettingsQuota(call) ==
    /\ call.kind = "quota"
    /\ \/ Quiet /\ \E keys \in KeysSeen(call) : settings' = QuotaAnswered(settings, call, keys)
       \/ Acts /\ settings' = QuotaFailed(settings, call)
    /\ UNCHANGED <<vault, keysPanel>>

\* The window gets the focus.
SettingsFocus ==
    /\ Acts
    /\ OnSettings /\ Cardinality(settings.calls) < MaxFlights
    /\ settings' = refreshQuota(settings, None)
    /\ UNCHANGED <<vault, keysPanel>>

-----------------------------------------------------------------------------
(* What of the page can be used. *)

\* A button is disabled while its own call runs, not while another's does.
Idle(form) == OnSettings /\ form \notin settings.running

EmbeddingsForm == Idle("embeddings")
TestEventForm == Managed /\ Idle("test")
TenantKeyForm == Managed /\ Idle("create") /\ ~settings.atLimit

\* The rows whose Revoke button is enabled: all but the one revoked last.
KeyList ==
    IF Managed /\ ~settings.loading THEN Drop(settings.list, settings.revoking) ELSE {}

\* The section that opens the dialog needs the account's options; while a call of
\* the dialog runs, everything in it is disabled.
DangerZone == OnSettings /\ settings.opts /\ ~settings.dialog
DeleteDialog == OnSettings /\ settings.dialog /\ ~settings.busy

\* The forms that save embeddings and send a test event.
submitForm(form) ==
    /\ Acts
    /\ \/ form = "embeddings" /\ EmbeddingsForm
       \/ form = "test" /\ TestEventForm
    /\ requireAuth([Sends(Call("form", form)) EXCEPT !.running = Put(@, form)])

FormAnswered(call, ok) ==
    /\ IF ok THEN Quiet ELSE Acts
    /\ call.kind = "form"
    /\ settings' = [Finish(settings, call.arg) EXCEPT !.calls = Drop(@, call),
                      !.ready = @ \/ (ok /\ call.arg = "embeddings")]
    /\ UNCHANGED <<vault, keysPanel>>

\* The form of a tenant-wide key; it can be used before the list has loaded.
createTenantKey ==
    /\ Acts
    /\ TenantKeyForm
    /\ requireAuth([Sends(Call("create", None)) EXCEPT !.running = Put(@, "create")])

TenantKeyCreated(call) ==
    /\ Quiet
    /\ call.kind = "create" /\ MayMint
    /\ vault' = WithKey(None)
    /\ settings' = refreshQuota([settings EXCEPT !.calls = Drop(@, call),
                       !.newKey = Minted(None), !.list = Put(@, Minted(None))], "create")
    /\ UNCHANGED keysPanel

\* The create is refused (the API enforces the limit) or lost.
TenantKeyFails(call) ==
    /\ IF MayMint THEN Acts ELSE Quiet
    /\ call.kind = "create"
    /\ settings' = [Finish(settings, "create") EXCEPT !.calls = Drop(@, call)]
    /\ UNCHANGED <<vault, keysPanel>>

\* handleRevoke: only the row revoked last has its button disabled.
revokeListed(k) ==
    /\ Acts
    /\ k \in KeyList
    /\ requireAuth([Sends(Call("revoke", k)) EXCEPT !.revoking = k])

\* The filter, then the quota; a key that is gone already is refused (404)
\* and stays in the list.
ListedRevoked(call) ==
    /\ Quiet
    /\ call.kind = "revoke" /\ call.arg \in vault.keys
    /\ vault' = [vault EXCEPT !.keys = Drop(@, call.arg)]
    /\ settings' = refreshQuota([settings EXCEPT !.calls = Drop(@, call),
                      !.list = Drop(@, call.arg), !.revoking = None], None)
    /\ UNCHANGED keysPanel

ListedRevokeFails(call) ==
    /\ call.kind = "revoke"
    /\ IF call.arg \in vault.keys THEN Acts ELSE Quiet
    /\ settings' = [settings EXCEPT !.calls = Drop(@, call), !.revoking = None]
    /\ UNCHANGED <<vault, keysPanel>>

-----------------------------------------------------------------------------
(* The end of the account. *)

openDialog ==
    /\ Acts
    /\ DangerZone
    /\ settings' = [settings EXCEPT !.dialog = TRUE, !.typed = FALSE]
    /\ UNCHANGED <<vault, keysPanel>>

\* Mutant: the dialog can be closed while a call is running.
CloseAnyway ==
    /\ Acts
    /\ OnSettings /\ settings.dialog
    /\ settings' = [settings EXCEPT !.dialog = FALSE]
    /\ UNCHANGED <<vault, keysPanel>>

\* The backdrop and the cross close the dialog unless a call is running.
closeDialog ==
    /\ Acts
    /\ DeleteDialog
    /\ settings' = [settings EXCEPT !.dialog = FALSE]
    /\ UNCHANGED <<vault, keysPanel>>

typeDelete ==
    /\ Acts
    /\ OnSettings /\ settings.dialog
    /\ settings' = [settings EXCEPT !.typed = ~@]
    /\ UNCHANGED <<vault, keysPanel>>

\* The two buttons of the dialog.
keepAccount ==
    /\ Acts
    /\ DeleteDialog /\ settings.trial
    /\ requireAuth([Sends(Call("trial", None)) EXCEPT !.busy = TRUE])

deleteAccount ==
    /\ Acts
    /\ DeleteDialog /\ settings.typed
    /\ requireAuth([Sends(Call("delete", None)) EXCEPT !.busy = TRUE])

TrialGranted(call) ==
    /\ Quiet
    /\ call.kind = "trial" /\ ~vault.trialUsed
    /\ vault' = [vault EXCEPT !.trialUsed = TRUE]
    /\ settings' = [settings EXCEPT !.calls = Drop(@, call), !.busy = FALSE,
                                    !.trial = FALSE, !.dialog = FALSE]
    /\ UNCHANGED keysPanel

\* The session ends with the account and the login page replaces the dashboard.
AccountDeleted(call) ==
    /\ call.kind = "delete"
    /\ token' = FALSE /\ UNCHANGED <<visible, acts>>
    /\ vault' = [vault EXCEPT !.account = FALSE, !.keys = {}]
    /\ settings' = NewSettings("login")
    /\ UNCHANGED keysPanel

\* Either call fails; the API may have carried it out before the answer was lost.
AccountCallFails(call, done) ==
    /\ IF call.kind = "trial" /\ vault.trialUsed THEN Quiet ELSE Acts
    /\ call.kind \in {"trial", "delete"}
    /\ settings' = [settings EXCEPT !.calls = Drop(@, call), !.busy = FALSE]
    /\ vault' = CASE ~done -> vault
                  [] done /\ call.kind = "trial" -> [vault EXCEPT !.trialUsed = TRUE]
                  [] done /\ call.kind = "delete" -> [vault EXCEPT !.account = FALSE, !.keys = {}]
    /\ UNCHANGED keysPanel

\* A call after the account is gone is answered 401: apiFetch clears the session.
AccountGone(call) ==
    /\ ~vault.account
    /\ token' = FALSE /\ UNCHANGED <<visible, acts>>
    /\ settings' = NewSettings("login")
    /\ UNCHANGED <<vault, keysPanel>>

-----------------------------------------------------------------------------
(* The panel of one agent's keys. *)

NewKeysPanel(at, agent) ==
    [at |-> at, agent |-> agent, oss |-> FALSE, list |-> {}, loading |-> TRUE,
     atLimit |-> FALSE, newKey |-> None, revoking |-> None, running |-> {}, calls |-> {}]

\* load: the answer fills the list whatever agent is selected by then.
loadKeys(p, then) == [p EXCEPT !.calls = Put(@, Call("list", [agent |-> p.agent, then |-> then]))]

PanelMounts(agent, oss) ==
    /\ Quiet
    /\ token /\ keysPanel.at = "closed" /\ settings.at = "closed"
    /\ LET p == [NewKeysPanel("panel", agent) EXCEPT !.oss = oss, !.calls = {QuotaCall(None)}]
       IN  keysPanel' = IF agent = None
                        THEN [p EXCEPT !.at = "card", !.loading = FALSE, !.calls = {}]
                        ELSE loadKeys(p, None)
    /\ UNCHANGED <<vault, settings>>

\* The selector hands the panel another agent; list and one-time key stay.
PanelAgentChanges(agent) ==
    /\ Acts
    /\ keysPanel.at = "panel" /\ agent # keysPanel.agent
    /\ Cardinality(keysPanel.calls) < MaxFlights
    /\ keysPanel' = LET p == [keysPanel EXCEPT !.agent = agent]
                    IN  IF token THEN loadKeys(p, None) ELSE NewKeysPanel("login", None)
    /\ UNCHANGED <<vault, settings>>

\* Mutant: a list that is loaded takes the one-time key away.
ListedAnew(call, ok) ==
    /\ IF ok THEN Quiet ELSE Acts
    /\ call.kind = "list"
    /\ LET p == [keysPanel EXCEPT !.calls = Drop(@, call), !.list = vault.keys,
                                  !.loading = FALSE, !.newKey = None]
       IN  keysPanel' = IF call.arg.then = None THEN p ELSE refreshQuota(p, call.arg.then)
    /\ UNCHANGED <<vault, settings>>

\* getAgentApiKeys answers or fails; a create goes on with the quota.
PanelListed(call, ok) ==
    /\ IF ok THEN Quiet ELSE Acts
    /\ call.kind = "list"
    /\ \E keys \in IF ok THEN {{k \in s : k.agent = call.arg.agent} : s \in KeysSeen(call)}
                         ELSE {keysPanel.list} :
          LET p == [keysPanel EXCEPT !.calls = Drop(@, call), !.list = keys, !.loading = FALSE]
          IN  keysPanel' = IF call.arg.then = None THEN p ELSE refreshQuota(p, call.arg.then)
    /\ UNCHANGED <<vault, settings>>

PanelQuota(call) ==
    /\ call.kind = "quota"
    /\ \/ Quiet /\ \E keys \in KeysSeen(call) : keysPanel' = QuotaAnswered(keysPanel, call, keys)
       \/ Acts /\ keysPanel' = QuotaFailed(keysPanel, call)
    /\ UNCHANGED <<vault, settings>>

\* The open source edition offers a key only to an agent without one; the card
\* for an account without agents, until it shows the key.
NewKeyOffered ==
    /\ keysPanel.at \in {"panel", "card"}
    /\ "create" \notin keysPanel.running /\ ~keysPanel.atLimit
    /\ keysPanel.at = "panel" => ~keysPanel.oss \/ (~keysPanel.loading /\ keysPanel.list = {})
    /\ keysPanel.at = "card" => keysPanel.newKey = None

\* The banner of the one-time key, and the rows whose Revoke button is enabled.
KeyBanner == keysPanel.newKey # None
PanelRows ==
    IF keysPanel.at = "panel" /\ ~keysPanel.loading
    THEN Drop(keysPanel.list, keysPanel.revoking)
    ELSE {}

\* The button "Test agent" sends an event as the agent on screen.
testAgent ==
    /\ Acts
    /\ keysPanel.at = "panel" /\ "test" \notin keysPanel.running
    /\ Cardinality(keysPanel.calls) < MaxFlights
    /\ keysPanel' = IF token
                    THEN [keysPanel EXCEPT !.running = Put(@, "test"),
                                           !.calls = Put(@, Call("test", keysPanel.agent))]
                    ELSE NewKeysPanel("login", None)
    /\ UNCHANGED <<vault, settings>>

AgentTested(call, ok) ==
    /\ IF ok THEN Quiet ELSE Acts
    /\ call.kind = "test"
    /\ keysPanel' = [Finish(keysPanel, "test") EXCEPT !.calls = Drop(@, call)]
    /\ UNCHANGED <<vault, settings>>

handleCreateKey ==
    /\ Acts
    /\ NewKeyOffered
    /\ keysPanel' = IF token
                    THEN [keysPanel EXCEPT !.running = Put(@, "create"),
                                           !.calls = Put(@, Call("create", keysPanel.agent))]
                    ELSE IF keysPanel.at = "card" THEN keysPanel
                    ELSE NewKeysPanel("login", None)
    /\ UNCHANGED <<vault, settings>>

\* createAgentApiKey answers: the key is revealed, then the list is loaded,
\* then the quota; only then may the next key be created.
KeyCreated(call) ==
    /\ Quiet
    /\ call.kind = "create" /\ MayMint
    /\ vault' = WithKey(call.arg)
    /\ LET p == [keysPanel EXCEPT !.calls = Drop(@, call), !.newKey = Minted(call.arg)]
       IN  keysPanel' = IF keysPanel.at = "card" THEN Finish(p, "create")
                        ELSE IF token THEN loadKeys(p, "create")
                        ELSE NewKeysPanel("login", None)
    /\ UNCHANGED settings

KeyCreateFails(call) ==
    /\ IF MayMint THEN Acts ELSE Quiet
    /\ call.kind = "create"
    /\ keysPanel' = [Finish(keysPanel, "create") EXCEPT !.calls = Drop(@, call)]
    /\ UNCHANGED <<vault, settings>>

dismissKey ==
    /\ Acts
    /\ KeyBanner
    /\ keysPanel' = [keysPanel EXCEPT !.newKey = None]
    /\ UNCHANGED <<vault, settings>>

handleRevokeKey(k) ==
    /\ Acts
    /\ k \in PanelRows
    /\ keysPanel' = IF token
                    THEN [keysPanel EXCEPT !.revoking = k,
                            !.calls = Put(@, Call("revoke", [key |-> k, agent |-> keysPanel.agent]))]
                    ELSE NewKeysPanel("login", None)
    /\ UNCHANGED <<vault, settings>>

\* The API revokes a key of the agent the request names, and no other.
Revocable(call) == call.arg.key \in KeysOf(call.arg.agent)

KeyRevoked(call) ==
    /\ Quiet
    /\ call.kind = "revoke" /\ Revocable(call)
    /\ vault' = [vault EXCEPT !.keys = Drop(@, call.arg.key)]
    /\ keysPanel' = refreshQuota([keysPanel EXCEPT !.calls = Drop(@, call),
                       !.list = Drop(@, call.arg.key), !.revoking = None], None)
    /\ UNCHANGED settings

KeyRevokeFails(call) ==
    /\ call.kind = "revoke"
    /\ IF Revocable(call) THEN Acts ELSE Quiet
    /\ keysPanel' = [keysPanel EXCEPT !.calls = Drop(@, call), !.revoking = None]
    /\ UNCHANGED <<vault, settings>>

-----------------------------------------------------------------------------
SettingsInit ==
    /\ vault = [account |-> TRUE, keys |-> {}, minted |-> 0, trialUsed |-> FALSE]
    /\ settings = NewSettings("closed")
    /\ keysPanel = NewKeysPanel("closed", None)

SettingsAnswers ==
    \E call \in settings.calls :
       IF vault.account
       THEN \/ SettingsListed(call, TRUE)
            \/ OptionsAnswered(call, TRUE)
            \/ SettingsQuota(call)
            \/ FormAnswered(call, TRUE)
            \/ TenantKeyCreated(call)
            \/ call.kind = "create" /\ ~MayMint /\ TenantKeyFails(call)
            \/ ListedRevoked(call)
            \/ call.kind = "revoke" /\ call.arg \notin vault.keys /\ ListedRevokeFails(call)
            \/ TrialGranted(call)
            \/ call.kind = "trial" /\ vault.trialUsed /\ AccountCallFails(call, FALSE)
            \/ AccountDeleted(call)
       ELSE AccountGone(call)

PanelAnswers ==
    \E call \in keysPanel.calls :
       \/ PanelListed(call, TRUE)
       \/ AgentTested(call, TRUE)
       \/ PanelQuota(call)
       \/ KeyCreated(call)
       \/ KeyRevoked(call)
       \/ call.kind = "revoke" /\ ~Revocable(call) /\ KeyRevokeFails(call)
       \/ call.kind = "create" /\ ~MayMint /\ KeyCreateFails(call)

SettingsNext ==
    \/ \E managed \in BOOLEAN : SettingsMounts(managed)
    \/ SettingsAnswers
    \/ \E call \in settings.calls :
          \/ SettingsListed(call, FALSE)
          \/ OptionsAnswered(call, FALSE)
          \/ ListedRevokeFails(call)
          \/ FormAnswered(call, FALSE)
          \/ TenantKeyFails(call)
          \/ \E done \in BOOLEAN : AccountCallFails(call, done)
    \/ SettingsFocus
    \/ \E form \in {"embeddings", "test"} : submitForm(form)
    \/ createTenantKey
    \/ \E k \in settings.list : revokeListed(k)
    \/ openDialog
    \/ closeDialog
    \/ typeDelete
    \/ keepAccount
    \/ deleteAccount

PanelNext ==
    \/ \E a \in Agents : PanelMounts(a, TRUE) \/ PanelMounts(a, FALSE)
    \/ PanelMounts(None, TRUE)
    \/ PanelAnswers
    \/ \E call \in keysPanel.calls : PanelListed(call, FALSE) \/ KeyCreateFails(call)
                                       \/ AgentTested(call, FALSE)
                                       \/ KeyRevokeFails(call)
    \/ \E a \in Agents : PanelAgentChanges(a)
    \/ testAgent
    \/ handleCreateKey
    \/ dismissKey
    \/ \E k \in keysPanel.list : handleRevokeKey(k)
    \/ \E a \in Agents : MintedElsewhere(a)
    \/ \E k \in vault.keys : RevokedElsewhere(k)

-----------------------------------------------------------------------------
(* Properties. *)

\* While the deletion of the account is under way the dialog that says so is on
\* screen and nothing else that decides about the account runs beside it
\* (app/dashboard/settings/page.tsx:588-721).
DeleteIsWatched ==
    \A call \in settings.calls : call.kind = "delete" =>
       /\ settings.dialog
       /\ \A other \in settings.calls : other.kind \in {"delete", "trial"} => other = call

\* A key that is shown once stays on screen until the user does something: no
\* list, quota or revocation that is answered takes it away unread
\* (components/AgentApiKeys.tsx, components/dashboard/CreateApiKeyCard.tsx).
SecretStaysUntilAct ==
    [][keysPanel.newKey # None /\ keysPanel'.at = keysPanel.at
         /\ keysPanel'.newKey # keysPanel.newKey =>
            acts' # acts \/ keysPanel'.newKey # None]_<<keysPanel, acts>>
=============================================================================
