------------------------------- MODULE Accounts -------------------------------
(***************************************************************************)
(* The account behind one e-mail address: sign-up and sign-in with a code  *)
(* sent by mail, and account deletion.                                     *)
(*                                                                         *)
(*   Requests   POST /auth/request-otp   api/auth.py, services/auth.py     *)
(*   Verifies   POST /auth/verify-otp    services/auth.py                  *)
(*   Leavers    DELETE /v1/account       services/account.py               *)
(*                                                                         *)
(* Statements outside transactions are atomic steps.  verify_otp ends in a *)
(* READ COMMITTED transaction: it is split where it reads what another may *)
(* change, its writes show at commit, and from its first write to users it *)
(* holds the row, or the unique entry, of the address.  A caller who       *)
(* presents a wrong code changes nothing and is left out.                  *)
(***************************************************************************)
EXTENDS Naturals

CONSTANTS
    Requests, Verifies, Leavers,   \* the processes
    MaxCodes,     \* bound: codes sent
    MaxIds,       \* bound: users and tenants created, each
    Legacy,       \* whether the address may start with a user without tenant
    Faults,       \* what may go wrong in a run, a subset of FaultKinds
    None          \* nobody

FaultKinds == {"api_crash"}

ASSUME AccountsAssumption ==
    /\ MaxCodes \in Nat
    /\ MaxIds \in Nat \ {0}
    /\ Legacy \in BOOLEAN
    /\ Faults \subseteq FaultKinds
    /\ None \notin Verifies

Code == 1..MaxCodes
Id == 1..MaxIds
NoId == 0     \* SQL NULL

VARIABLES
    codes,        \* the rows of auth_otps, in the order of created_at
    newest,       \* the latest code inserted, 0 before the first
    account,      \* the row of users: its user_id and its tenant_id
    tenants,      \* the rows of tenants that are due to this address
    drawn,        \* the last user_id and tenant_id drawn
    rowLock,      \* the verification that has written to users, or None
    request,      \* where each request stands
    verify,       \* the call each of Verifies is serving
    leave,        \* the call each of Leavers is serving
    sessions      \* the tokens issued: how often for a code, and for whom

vars == <<codes, newest, account, tenants, drawn, rowLock, request, verify,
          leave, sessions>>

NoAccount == [user |-> NoId, tenant |-> NoId]
NoVerify == [step |-> "idle", intent |-> "login", code |-> 0,
             user |-> NoId, tenant |-> NoId]
NoLeave == [step |-> "idle", user |-> NoId, tenant |-> NoId]
NoSession == [times |-> 0, user |-> NoId, tenant |-> NoId]

\* The address is new, has signed up, or is a legacy row.
Origins ==
    {NoAccount, [user |-> 1, tenant |-> 1]}
      \cup IF Legacy THEN {[user |-> 1, tenant |-> NoId]} ELSE {}

Init ==
    /\ codes = [c \in Code |-> "unsent"]
    /\ newest = 0
    /\ account \in Origins
    /\ tenants = {account.tenant} \ {NoId}
    /\ drawn = account
    /\ rowLock = None
    /\ request = [r \in Requests |-> "idle"]
    /\ verify = [v \in Verifies |-> NoVerify]
    /\ leave = [l \in Leavers |-> NoLeave]
    /\ sessions = [c \in Code |-> NoSession]

Registered == account.user # NoId

-----------------------------------------------------------------------------
(* request_otp *)

\* email_exists must agree with what the caller wants (409, 404).
Welcome(intent) == Registered <=> intent = "login"

BeginRequest(r, intent) ==
    /\ request[r] = "idle"
    /\ Welcome(intent)
    /\ request' = [request EXCEPT ![r] = "invalidate"]
    /\ UNCHANGED <<codes, newest, account, tenants, drawn, rowLock, verify,
                   leave, sessions>>

\* WHERE used = FALSE: what is live, and what has expired unused.
Unused == {c \in Code : codes[c] \in {"live", "expired"}}

InvalidateCodes(r) ==
    /\ request[r] = "invalidate"
    /\ codes' = [c \in Code |-> IF c \in Unused THEN "used" ELSE codes[c]]
    /\ request' = [request EXCEPT ![r] = "insert"]
    /\ UNCHANGED <<newest, account, tenants, drawn, rowLock, verify, leave,
                   sessions>>

\* The code is live before it is mailed.
InsertCode(r) ==
    /\ request[r] = "insert"
    /\ newest < MaxCodes
    /\ newest' = newest + 1
    /\ codes' = [codes EXCEPT ![newest + 1] = "live"]
    /\ request' = [request EXCEPT ![r] = "idle"]
    /\ UNCHANGED <<account, tenants, drawn, rowLock, verify, leave, sessions>>

\* expires_at > NOW() stops to hold.
Expire(c) ==
    /\ codes[c] = "live"
    /\ codes' = [codes EXCEPT ![c] = "expired"]
    /\ UNCHANGED <<newest, account, tenants, drawn, rowLock, request, verify,
                   leave, sessions>>

-----------------------------------------------------------------------------
(* verify_otp *)

GoTo(v, step) ==
    /\ verify' = [verify EXCEPT ![v].step = step]
    /\ UNCHANGED <<codes, newest, account, tenants, drawn, request, leave,
                   sessions>>

\* ORDER BY created_at DESC LIMIT 1, and the caller presents that code.
ReadCode(v, intent, c) ==
    /\ verify[v].step = "idle"
    /\ codes[c] = "live"
    /\ \A d \in Code : codes[d] = "live" => d <= c
    /\ verify' = [verify EXCEPT ![v] = [NoVerify EXCEPT !.step = "check",
                                                        !.intent = intent,
                                                        !.code = c]]
    /\ UNCHANGED <<codes, newest, account, tenants, drawn, rowLock, request,
                   leave, sessions>>

CheckAccount(v) ==
    /\ verify[v].step = "check"
    /\ Welcome(verify[v].intent)
    /\ GoTo(v, IF verify[v].intent = "login" THEN "select" ELSE "insert")
    /\ UNCHANGED rowLock

\* Mutation of Fail: the transaction stays open.
FailWithoutRollback(v) ==
    /\ verify' = [verify EXCEPT ![v] = NoVerify]
    /\ UNCHANGED <<codes, newest, account, tenants, drawn, rowLock, request,
                   leave, sessions>>

\* An error ends the call; an open transaction rolls back.
Fail(v) ==
    /\ verify' = [verify EXCEPT ![v] = NoVerify]
    /\ rowLock' = IF rowLock = v THEN None ELSE rowLock
    /\ UNCHANGED <<codes, newest, account, tenants, drawn, request, leave,
                   sessions>>

RefuseAccount(v) ==
    /\ verify[v].step = "check"
    /\ ~ Welcome(verify[v].intent)
    /\ Fail(v)

\* Login: the row is read, and only then written.
SelectUser(v) ==
    /\ verify[v].step = "select"
    /\ Registered
    /\ verify' = [verify EXCEPT ![v].step = "touch", ![v].user = account.user,
                                ![v].tenant = account.tenant]
    /\ UNCHANGED <<codes, newest, account, tenants, drawn, rowLock, request,
                   leave, sessions>>

UserGone(v) ==
    /\ verify[v].step = "select"
    /\ ~ Registered
    /\ Fail(v)

\* UPDATE users SET last_login: locks the row, if it is still there.
TouchUser(v) ==
    /\ verify[v].step = "touch"
    /\ IF account.user = verify[v].user
       THEN rowLock = None /\ rowLock' = v
       ELSE UNCHANGED rowLock
    /\ GoTo(v, "burn")

\* Mutation of InsertUser: users.email is not unique.
InsertAnyway(v) ==
    /\ verify[v].step = "insert"
    /\ rowLock' = IF rowLock = None THEN v ELSE rowLock
    /\ GoTo(v, "burn")

\* Signup: users.email is unique; an uncommitted insert makes others wait.
InsertUser(v) ==
    /\ verify[v].step = "insert"
    /\ ~ Registered
    /\ rowLock = None
    /\ rowLock' = v
    /\ GoTo(v, "burn")

EmailTaken(v) ==
    /\ verify[v].step = "insert"
    /\ Registered
    /\ Fail(v)

\* Mutation of Burnable: without AND used = FALSE.
BurnableTwice(v) == codes[verify[v].code] # "deleted"

\* The code has been neither burned nor invalidated nor deleted since it was
\* read; expires_at is not looked at again.
Burnable(v) == verify[v].code \in Unused

\* The burn, COMMIT and the token: the session is for user u and tenant t,
\* the row of users becomes row, and tenants' is set by the caller.
Issue(v, u, t, row) ==
    LET c == verify[v].code
    IN  /\ codes' = [codes EXCEPT ![c] = "used"]
        /\ account' = row
        /\ sessions' = [sessions EXCEPT ![c] = [times |-> @.times + 1,
                                                user |-> u, tenant |-> t]]
        /\ verify' = [verify EXCEPT ![v] = NoVerify]
        /\ rowLock' = IF rowLock = v THEN None ELSE rowLock
        /\ UNCHANGED <<newest, request, leave>>

Login(v) ==
    LET u == verify[v].user
        t == verify[v].tenant
    IN  /\ verify[v].step = "burn"
        /\ verify[v].intent = "login"
        /\ t # NoId
        /\ Burnable(v)
        /\ Issue(v, u, t, account)
        /\ UNCHANGED <<tenants, drawn>>

\* A user without tenant gets a new one; what the row says by now is not
\* looked at.
LoginLegacy(v) ==
    LET u == verify[v].user
        t == drawn.tenant + 1
    IN  /\ verify[v].step = "burn"
        /\ verify[v].intent = "login"
        /\ verify[v].tenant = NoId
        /\ t \in Id
        /\ Burnable(v)
        /\ Issue(v, u, t, IF account.user = u THEN [user |-> u, tenant |-> t]
                                              ELSE account)
        /\ tenants' = tenants \cup {t}
        /\ drawn' = [drawn EXCEPT !.tenant = t]

SignUp(v) ==
    LET u == drawn.user + 1
        t == drawn.tenant + 1
    IN  /\ verify[v].step = "burn"
        /\ verify[v].intent = "signup"
        /\ u \in Id /\ t \in Id
        /\ Burnable(v)
        /\ Issue(v, u, t, [user |-> u, tenant |-> t])
        /\ tenants' = tenants \cup {t}
        /\ drawn' = [user |-> u, tenant |-> t]

AlreadyUsed(v) ==
    /\ verify[v].step = "burn"
    /\ ~ Burnable(v)
    /\ Fail(v)

VerifyCrash(v) ==
    /\ "api_crash" \in Faults
    /\ verify[v].step # "idle"
    /\ Fail(v)

-----------------------------------------------------------------------------
(* delete_managed_account *)

\* With a session of this account, however old: its user is there and its
\* tenant is the row's.
BeginLeave(l) ==
    /\ leave[l].step = "idle"
    /\ Registered
    /\ account.tenant # NoId
    /\ leave' = [leave EXCEPT ![l] = [step |-> "delete", user |-> account.user,
                                      tenant |-> account.tenant]]
    /\ UNCHANGED <<codes, newest, account, tenants, drawn, rowLock, request,
                   verify, sessions>>

\* Mutation of DeleteAccount: without DELETE FROM auth_otps.
DeleteKeepingCodes(l) ==
    /\ leave[l].step = "delete"
    /\ account.user = leave[l].user => rowLock = None
    /\ account' = IF account.user = leave[l].user THEN NoAccount ELSE account
    /\ tenants' = tenants \ {leave[l].tenant}
    /\ leave' = [leave EXCEPT ![l] = NoLeave]
    /\ UNCHANGED <<codes, newest, drawn, rowLock, request, verify, sessions>>

\* The transaction: users by user_id, auth_otps by e-mail, tenants by id.
DeleteAccount(l) ==
    /\ leave[l].step = "delete"
    /\ account.user = leave[l].user => rowLock = None
    /\ account' = IF account.user = leave[l].user THEN NoAccount ELSE account
    /\ codes' = [c \in Code |-> IF codes[c] = "unsent" THEN "unsent"
                                                       ELSE "deleted"]
    /\ tenants' = tenants \ {leave[l].tenant}
    /\ leave' = [leave EXCEPT ![l] = NoLeave]
    /\ UNCHANGED <<newest, drawn, rowLock, request, verify, sessions>>

LeaveCrash(l) ==
    /\ "api_crash" \in Faults
    /\ leave[l].step # "idle"
    /\ leave' = [leave EXCEPT ![l] = NoLeave]
    /\ UNCHANGED <<codes, newest, account, tenants, drawn, rowLock, request,
                   verify, sessions>>

RequestCrash(r) ==
    /\ "api_crash" \in Faults
    /\ request[r] # "idle"
    /\ request' = [request EXCEPT ![r] = "idle"]
    /\ UNCHANGED <<codes, newest, account, tenants, drawn, rowLock, verify,
                   leave, sessions>>

Intent == {"login", "signup"}

RequestStep(r) ==
    \/ \E intent \in Intent : BeginRequest(r, intent)
    \/ InvalidateCodes(r) \/ InsertCode(r) \/ RequestCrash(r)

VerifyStep(v) ==
    \/ \E intent \in Intent, c \in Code : ReadCode(v, intent, c)
    \/ CheckAccount(v) \/ RefuseAccount(v)
    \/ SelectUser(v) \/ UserGone(v) \/ TouchUser(v)
    \/ InsertUser(v) \/ EmailTaken(v)
    \/ Login(v) \/ LoginLegacy(v) \/ SignUp(v) \/ AlreadyUsed(v)
    \/ VerifyCrash(v)

LeaveStep(l) ==
    BeginLeave(l) \/ DeleteAccount(l) \/ LeaveCrash(l)

Next ==
    \/ \E r \in Requests : RequestStep(r)
    \/ \E v \in Verifies : VerifyStep(v)
    \/ \E l \in Leavers : LeaveStep(l)
    \/ \E c \in Code : Expire(c)

Spec == Init /\ [][Next]_vars

-----------------------------------------------------------------------------
IdOrNull == Id \cup {NoId}

\* Every variable holds a value of its kind, and only a verification that has
\* yet to burn its code holds the row: every way out of the transaction of
\* verify_otp frees it.
TypeOK ==
    /\ codes \in [Code -> {"unsent", "live", "expired", "used", "deleted"}]
    /\ newest \in 0..MaxCodes
    /\ account \in [user: IdOrNull, tenant: IdOrNull]
    /\ tenants \subseteq Id
    /\ drawn \in [user: IdOrNull, tenant: IdOrNull]
    /\ rowLock \in Verifies \cup {None}
    /\ request \in [Requests -> {"idle", "invalidate", "insert"}]
    /\ verify \in [Verifies ->
                      [step: {"idle", "check", "select", "touch", "insert", "burn"},
                       intent: Intent, code: Code \cup {0},
                       user: IdOrNull, tenant: IdOrNull]]
    /\ leave \in [Leavers -> [step: {"idle", "delete"},
                              user: IdOrNull, tenant: IdOrNull]]
    /\ sessions \in [Code -> [times: Nat, user: IdOrNull, tenant: IdOrNull]]
    /\ \A v \in Verifies : rowLock = v => verify[v].step = "burn"

\* A code opens one session at most, however many calls present it at once.
CodeOpensOnce == \A c \in Code : sessions[c].times <= 1

\* A session is issued for the user the address has when it is issued, under a
\* tenant that is there: a login that raced with the deletion of the account,
\* and with the sign-up that followed it, gets none (verify_otp, 297-306, and
\* delete_managed_account, 117-120).
SessionOfAccount ==
    [][\A c \in Code :
          sessions'[c] # sessions[c] =>
              /\ account'.user = sessions'[c].user
              /\ sessions'[c].tenant \in tenants']_vars

\* A sign-up draws one user and one tenant.  More tenants than users are drawn
\* only when two logins have each given the legacy user a tenant.
TenantToSpare == drawn.tenant > drawn.user

\* Until then the tenant of the row is the only one of the address, whatever
\* calls race, fail or crash (the transaction of verify_otp, 224-306): what
\* DELETE FROM tenants WHERE tenant_id removes is all there is.
OnlyTenant == ~ TenantToSpare => tenants \subseteq {account.tenant}

\* "This permanently removes your account, agents, events, and API keys": when
\* the address has no account it has no tenant.
DeletionRemovesAll == ~ Registered => tenants = {}

-----------------------------------------------------------------------------
(* Why they hold: an inductive invariant *)

\* Codes are inserted in order, and a code that was presented was sent.
CodesInOrder ==
    /\ \A c \in Code : c > newest => codes[c] = "unsent"
    /\ \A v \in Verifies : verify[v].step # "idle" =>
          verify[v].code \in Code /\ codes[verify[v].code] # "unsent"

\* What opened a session is never unused again.
SpentForGood ==
    \A c \in Code : \/ sessions[c].times = 0
                    \/ sessions[c].times = 1 /\ codes[c] \in {"used", "deleted"}

\* The steps of a verification fit its intent; one that has inserted a user
\* holds the address, which has no other user.
SignUpAlone ==
    \A v \in Verifies :
      /\ verify[v].step \in {"select", "touch"} => verify[v].intent = "login"
      /\ verify[v].step = "insert" => verify[v].intent = "signup"
      /\ verify[v].step = "burn" /\ verify[v].intent = "signup" =>
            rowLock = v /\ ~ Registered

\* As long as its code is unused, nobody has deleted the account a login read.
LoginCurrent ==
    \A v \in Verifies :
      verify[v].step \in {"touch", "burn"} /\ verify[v].intent = "login" =>
        /\ verify[v].user \in 1..drawn.user
        /\ Burnable(v) =>
              /\ verify[v].user = account.user
              /\ verify[v].tenant \in tenants \cup {NoId}

\* What exists has been drawn, and the row of users names what exists.
AccountDrawn ==
    /\ account.user <= drawn.user
    /\ account.tenant \in tenants \cup {NoId}
    /\ ~ Registered => account.tenant = NoId
    /\ \A t \in tenants : t <= drawn.tenant

\* A deletion under way removes the tenant of the user it removes.
LeaveDrawn ==
    \A l \in Leavers : leave[l].step = "delete" =>
      /\ leave[l].user \in 1..drawn.user
      /\ leave[l].tenant \in 1..drawn.tenant
      /\ leave[l].user # account.user => leave[l].tenant # account.tenant
      /\ leave[l].user = account.user /\ ~ TenantToSpare =>
            leave[l].tenant = account.tenant

\* Fewer tenants than users are drawn only while the legacy user has none.
LegacyUntouched ==
    drawn.tenant < drawn.user =>
      /\ drawn = [user |-> 1, tenant |-> NoId]
      /\ account = drawn
      /\ tenants = {}

AccountInv ==
    TypeOK /\ CodesInOrder /\ SpentForGood /\ SignUpAlone /\ LoginCurrent
      /\ AccountDrawn /\ LeaveDrawn /\ LegacyUntouched /\ OnlyTenant
=============================================================================
