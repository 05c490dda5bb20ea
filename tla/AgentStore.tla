------------------------------ MODULE AgentStore ------------------------------
(***************************************************************************)
(* The list of agents that every dashboard page shares: the module-level   *)
(* store of useAgents with its subscribers and its one poll, the agent     *)
(* selected through the URL (useSelectedAgent, AgentSelector), the edition *)
(* (useEdition), the fleet page that creates and deletes agents, and the   *)
(* sign-out of AccountMenu, after which another account may sign in in the *)
(* same document: the store is not reloaded with the page.                 *)
(***************************************************************************)
EXTENDS Browser

CONSTANTS
    Accounts,   \* accounts that sign in in this browser
    Workspace   \* [Accounts -> SUBSET Agents]: the agents each starts with

ASSUME StoreAssumption ==
    /\ None \notin Agents \cup Accounts
    /\ Workspace \in [Accounts -> SUBSET Agents]

VARIABLES
    tenants,    \* [Accounts -> SUBSET Agents]: what the API holds
    store,      \* the module variables of useAgents.ts
    shell,      \* where the tab is, who is signed in, and the agent of the URL
    fleet       \* the state of the fleet page and of CreateAgentForm

storeVars == <<tenants, store, shell, fleet>>

-----------------------------------------------------------------------------
(* The store. *)

\* The snapshot before the first subscriber and after the last one.
NewSnapshot(s) == [s EXCEPT !.agents = {}, !.loading = TRUE, !.error = FALSE]

\* fetchAgents: without a token it only ends the skeleton.
fetchAgents(s, account, initial) ==
    IF ~token
    THEN [s EXCEPT !.loading = FALSE]
    ELSE [s EXCEPT !.flights =
            Put(@, [account |-> account, initial |-> initial, list |-> tenants[account]])]

\* useAgents mounts; the first subscriber starts the poll and the first fetch.
Subscribe(s, account) ==
    LET t == [s EXCEPT !.subscribers = @ + 1]
    IN  IF t.subscribers = 1
        THEN fetchAgents([t EXCEPT !.timer = TRUE], account, TRUE)
        ELSE t

\* useAgents unmounts; the last subscriber stops the poll and empties the list.
Unsubscribe(s) ==
    LET t == [s EXCEPT !.subscribers = @ - 1]
    IN  IF t.subscribers = 0 /\ t.timer
        THEN [NewSnapshot(t) EXCEPT !.timer = FALSE]
        ELSE t

\* An answer is published to whoever subscribes now.  The API listed the
\* account's agents when the request came in or just now.
publish(f, list) ==
    store' = [store EXCEPT !.flights = Drop(@, f), !.agents = list,
                           !.error = FALSE, !.loading = FALSE]

AgentsAnswer(f) ==
    /\ Quiet
    /\ \E list \in {f.list, tenants[f.account]} : publish(f, list)
    /\ UNCHANGED <<tenants, shell, fleet>>

\* Only the failure of a first load is shown.
AgentsFail(f) ==
    /\ Acts
    /\ store' = [store EXCEPT !.flights = Drop(@, f),
                              !.error = @ \/ f.initial,
                              !.loading = @ /\ ~f.initial]
    /\ UNCHANGED <<tenants, shell, fleet>>

\* Mutant: the interval belongs to the first list only.
PollsEmptyList ==
    /\ Quiet
    /\ store.timer /\ visible /\ store.agents = {}
    /\ Cardinality(store.flights) < MaxFlights
    /\ store' = fetchAgents(store, shell.account, FALSE)
    /\ UNCHANGED <<tenants, shell, fleet>>

\* The interval ticks, or the tab turns visible.
AgentsPoll ==
    /\ Quiet
    /\ store.timer /\ visible
    /\ Cardinality(store.flights) < MaxFlights
    /\ store' = fetchAgents(store, shell.account, FALSE)
    /\ UNCHANGED <<tenants, shell, fleet>>

-----------------------------------------------------------------------------
(* The selected agent. *)

\* agents[0]: some fixed agent of the list.
Head1(list) == CHOOSE a \in list : TRUE

agentId ==
    CASE store.agents = {} -> None
      [] shell.requested \in store.agents -> shell.requested
      [] OTHER -> Head1(store.agents)

invalidAgent == store.agents # {} /\ shell.requested \notin store.agents \cup {None}

\* The effect of useSelectedAgent pins the resolved agent into the URL.
PinAgent ==
    /\ Quiet
    /\ shell.page \in {"activity", "fleet"}
    /\ agentId # None /\ shell.requested # agentId
    /\ shell' = [shell EXCEPT !.requested = agentId]
    /\ UNCHANGED <<tenants, store, fleet>>

\* AgentSelector offers the list when there is more than one agent: the current
\* one is named, and an entry of the menu is any of them.
AgentSelector == IF Cardinality(store.agents) > 1 THEN store.agents ELSE {}

selectAgent(a) ==
    /\ Acts
    /\ shell.page \in {"activity", "fleet"}
    /\ a \in AgentSelector
    /\ shell' = [shell EXCEPT !.requested = a]
    /\ UNCHANGED <<tenants, store, fleet>>

-----------------------------------------------------------------------------
(* The edition. *)

ManagedPlans == {"pro", "team"}

\* Mutant: managed until the plan is known.
EditionOpen(s, signedIn) ==
    CASE s.env = "self_hosted" -> [s EXCEPT !.edition = "oss", !.editionAsked = FALSE]
      [] s.env = "managed" -> [s EXCEPT !.edition = "managed", !.editionAsked = FALSE]
      [] s.env = None -> [s EXCEPT !.edition = "managed", !.editionAsked = FALSE]

\* useEdition mounts: the build's variable decides, or the plan is asked for.
EditionMounts(s, signedIn) ==
    CASE s.env = "self_hosted" -> [s EXCEPT !.edition = "oss", !.editionAsked = FALSE]
      [] s.env = "managed" -> [s EXCEPT !.edition = "managed", !.editionAsked = FALSE]
      [] s.env = None -> [s EXCEPT !.edition = "oss", !.editionAsked = signedIn]

EditionAnswer(ok) ==
    /\ shell.editionAsked
    /\ IF ok THEN Quiet ELSE Acts
    /\ shell' = [shell EXCEPT !.editionAsked = FALSE,
                   !.edition = IF ok /\ shell.plan \in ManagedPlans THEN "managed" ELSE "oss"]
    /\ UNCHANGED <<tenants, store, fleet>>

-----------------------------------------------------------------------------
(* Navigation. *)

NewFleet == [open |-> FALSE, busy |-> FALSE, error |-> FALSE, creating |-> None,
             newKey |-> None, deletingAgent |-> None, deletes |-> {}]

StoreInit ==
    /\ tenants = Workspace
    /\ store = [agents |-> {}, loading |-> TRUE, error |-> FALSE, timer |-> FALSE,
                subscribers |-> 0, flights |-> {}]
    /\ shell = [page |-> "closed", account |-> None, requested |-> None, env |-> None,
                plan |-> None, edition |-> "oss", editionAsked |-> FALSE]
    /\ fleet = NewFleet

\* The document is opened on a dashboard page.  Page and shell both subscribe.
DashboardOpens(env, plan) ==
    /\ shell.page = "closed"
    /\ Quiet
    /\ \E account \in Accounts :
          /\ shell' = EditionMounts([shell EXCEPT !.page = "activity", !.account = account,
                                                  !.env = env, !.plan = plan], token)
          /\ store' = Subscribe(Subscribe(store, account), account)
    /\ UNCHANGED <<tenants, fleet>>

\* Another tab of the dashboard: the page is replaced, the shell stays.  The
\* Fleet tab is there in the managed edition, its URL always.
GoToTab(page) ==
    /\ Acts
    /\ shell.page \in {"activity", "fleet"} \ {page}
    /\ shell' = [shell EXCEPT !.page = page]
    /\ store' = Subscribe(Unsubscribe(store), shell.account)
    /\ fleet' = NewFleet
    /\ UNCHANGED tenants

\* FleetContent sends the open source edition to the activity page.
RedirectOss ==
    /\ Quiet
    /\ shell.page = "fleet" /\ ~shell.editionAsked /\ shell.edition = "oss"
    /\ shell' = [shell EXCEPT !.page = "activity"]
    /\ store' = Subscribe(Unsubscribe(store), shell.account)
    /\ fleet' = NewFleet
    /\ UNCHANGED tenants

\* The menu is on every dashboard page; it is opened, and an entry of it chosen,
\* in one act.
AccountMenu == shell.page \in {"activity", "fleet"}

\* signOut of AccountMenu: the token is cleared, the login page replaces the
\* dashboard in the same document, so module variables and requests live on.
signOut ==
    /\ Spend
    /\ AccountMenu
    /\ token' = FALSE
    /\ shell' = [shell EXCEPT !.page = "login", !.account = None, !.requested = None]
    /\ store' = Unsubscribe(Unsubscribe(store))
    /\ fleet' = NewFleet
    /\ UNCHANGED <<visible, tenants>>

\* A code is verified on the login page (module SignIn) and the dashboard opens.
SignInAs(account) ==
    /\ Spend
    /\ shell.page = "login" /\ ~token
    /\ token' = TRUE
    /\ shell' = EditionMounts([shell EXCEPT !.page = "activity", !.account = account], TRUE)
    /\ store' = LET s == [store EXCEPT !.subscribers = 2, !.timer = TRUE]
                IN  [s EXCEPT !.flights = Put(@, [account |-> account, initial |-> TRUE,
                                                  list |-> tenants[account]])]
    /\ UNCHANGED <<visible, tenants, fleet>>

-----------------------------------------------------------------------------
(* The fleet page. *)

FleetScreen ==
    CASE shell.page # "fleet" \/ shell.editionAsked -> "none"
      [] shell.page = "fleet" /\ ~shell.editionAsked /\ shell.edition = "oss" -> "none"
      [] OTHER -> IF store.loading THEN "skeleton" ELSE "fleet"

ToggleForm ==
    /\ Acts
    /\ FleetScreen = "fleet"
    /\ fleet' = [fleet EXCEPT !.open = ~@]
    /\ UNCHANGED <<tenants, store, shell>>

\* The form can be sent while it is open and not sending.
CreateAgentForm == FleetScreen = "fleet" /\ fleet.open /\ ~fleet.busy

\* submit of CreateAgentForm.  Cancel and reopen do not cancel the request.
submitAgent(a) ==
    /\ Acts
    /\ CreateAgentForm
    /\ fleet' = IF token
                THEN [fleet EXCEPT !.busy = TRUE, !.error = FALSE, !.creating = a]
                ELSE fleet
    /\ UNCHANGED <<tenants, store, shell>>

\* createAgent answers: the form closes, the one-time key is shown and the
\* list is fetched anew.  An existing agent is answered without a key.
AgentCreated ==
    LET a == fleet.creating  c == shell.account
    IN  /\ Quiet
        /\ a # None
        /\ tenants' = [tenants EXCEPT ![c] = Put(@, a)]
        /\ fleet' = [fleet EXCEPT !.creating = None, !.open = FALSE, !.busy = FALSE,
                                  !.newKey = IF a \in tenants[c] THEN None ELSE a]
        /\ store' = IF ~token
                    THEN [store EXCEPT !.loading = FALSE]
                    ELSE [store EXCEPT !.flights =
                            Put(@, [account |-> c, initial |-> FALSE, list |-> tenants'[c]])]
        /\ UNCHANGED shell

CreateFails ==
    /\ Acts
    /\ fleet.creating # None
    /\ fleet' = [fleet EXCEPT !.creating = None, !.busy = FALSE, !.error = TRUE]
    /\ UNCHANGED <<tenants, store, shell>>

DismissKey ==
    /\ Acts
    /\ FleetScreen = "fleet" /\ fleet.newKey # None
    /\ fleet' = [fleet EXCEPT !.newKey = None]
    /\ UNCHANGED <<tenants, store, shell>>

\* The rows whose Delete button is enabled.
FleetTable ==
    IF FleetScreen = "fleet" /\ ~store.error THEN Drop(store.agents, fleet.deletingAgent) ELSE {}

\* handleDelete: the button of the row being deleted is disabled; only the
\* last row clicked is known as being deleted.
handleDelete(a) ==
    /\ Acts
    /\ a \in FleetTable
    /\ fleet' = IF token
                THEN [fleet EXCEPT !.deletingAgent = a, !.deletes = Put(@, a)]
                ELSE fleet
    /\ UNCHANGED <<tenants, store, shell>>

\* deleteAgent answers, or fails; either way the row is released, and after a
\* success the list is fetched anew.
AgentDeleted(a) ==
    LET c == shell.account
    IN  /\ Quiet
        /\ a \in fleet.deletes
        /\ tenants' = [tenants EXCEPT ![c] = Drop(@, a)]
        /\ fleet' = [fleet EXCEPT !.deletes = Drop(@, a), !.deletingAgent = None]
        /\ store' = IF ~token
                    THEN [store EXCEPT !.loading = FALSE]
                    ELSE [store EXCEPT !.flights =
                            Put(@, [account |-> c, initial |-> FALSE, list |-> tenants'[c]])]
        /\ UNCHANGED shell

DeleteFails(a) ==
    /\ Acts
    /\ a \in fleet.deletes
    /\ fleet' = [fleet EXCEPT !.deletes = Drop(@, a), !.deletingAgent = None]
    /\ UNCHANGED <<tenants, store, shell>>

\* An agent appears by logging its first event.
AgentAppears(a) ==
    /\ Acts
    /\ \E c \in Accounts :
          /\ a \notin tenants[c]
          /\ tenants' = [tenants EXCEPT ![c] = Put(@, a)]
    /\ UNCHANGED <<store, shell, fleet>>

-----------------------------------------------------------------------------
FleetAnswers ==
    \/ EditionAnswer(TRUE)
    \/ AgentCreated
    \/ \E a \in Agents : AgentDeleted(a)

StoreAnswers ==
    \/ \E f \in store.flights : AgentsAnswer(f)
    \/ FleetAnswers

StoreNext ==
    \/ \E env \in {"self_hosted", "managed", None}, plan \in {"pro", "free"} :
          /\ env # None => plan = "pro"
          /\ DashboardOpens(env, plan)
    \/ StoreAnswers
    \/ \E f \in store.flights : AgentsFail(f)
    \/ AgentsPoll
    \/ PinAgent
    \/ \E a \in Agents : selectAgent(a)
    \/ EditionAnswer(FALSE)
    \/ \E page \in {"activity", "fleet"} : GoToTab(page)
    \/ RedirectOss
    \/ signOut
    \/ \E account \in Accounts : SignInAs(account)
    \/ ToggleForm
    \/ \E a \in Agents : submitAgent(a)
    \/ CreateFails
    \/ DismissKey
    \/ \E a \in Agents : handleDelete(a)
    \/ \E a \in Agents : DeleteFails(a)
    \/ \E a \in Agents : AgentAppears(a)

-----------------------------------------------------------------------------
(* Properties. *)

\* The list of agents outlives a sign-out in its module, and an answer to the
\* account before may be published to the next one; but while the poll runs the
\* list becomes, and stays, that of the account that is signed in
\* (hooks/useAgents.ts:20-95).
AgentListConverges ==
    <>[](store.timer /\ visible /\ token) =>
       <>[](shell.account # None /\ store.agents = tenants[shell.account])

\* The fleet page, where agents are created and deleted, shows only where the
\* build or the plan of the account says managed; a plan that cannot be read
\* counts as open source (hooks/useEdition.ts, app/dashboard/fleet/page.tsx).
FleetIsManaged ==
    FleetScreen # "none" =>
       shell.env = "managed" \/ (shell.env = None /\ shell.plan \in ManagedPlans)
=============================================================================
