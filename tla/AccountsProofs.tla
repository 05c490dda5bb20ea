---------------------------- MODULE AccountsProofs ----------------------------
(***************************************************************************)
(* Proofs about Accounts, for every set of processes, any number of codes  *)
(* and ids, with and without the legacy row and crashes.                   *)
(***************************************************************************)
EXTENDS Accounts, TLAPS

-----------------------------------------------------------------------------
(* Types *)

\* An address without codes, calls and sessions is well-formed.
LEMMA AccountTypeInit == Init => TypeOK
<1> SUFFICES ASSUME Init PROVE TypeOK
  OBVIOUS
<1> USE AccountsAssumption
<1>1. 1 \in Id
  BY DEF Id
<1>2. account \in [user: IdOrNull, tenant: IdOrNull]
  BY <1>1 DEF Init, Origins, NoAccount, IdOrNull
<1>3. tenants \subseteq Id /\ drawn \in [user: IdOrNull, tenant: IdOrNull]
  BY <1>2 DEF Init, IdOrNull
<1>4. QED
  BY <1>1, <1>2, <1>3
     DEF Init, TypeOK, NoVerify, NoLeave, NoSession, Intent, IdOrNull

\* The statements of a request keep it well-formed.
LEMMA RequestTypes ==
  ASSUME TypeOK, NEW r \in Requests, RequestStep(r)
  PROVE  TypeOK'
<1> USE AccountsAssumption DEF TypeOK
<1>1. ASSUME NEW intent \in Intent, BeginRequest(r, intent) PROVE TypeOK'
  BY <1>1 DEF BeginRequest
<1>2. CASE InvalidateCodes(r) \/ RequestCrash(r)
  BY <1>2 DEF InvalidateCodes, RequestCrash
<1>3. CASE InsertCode(r)
  <2>1. newest' \in 0..MaxCodes
    BY <1>3 DEF InsertCode
  <2>2. QED
    BY <1>3, <2>1 DEF InsertCode
<1>4. QED
  BY <1>1, <1>2, <1>3 DEF RequestStep

\* A call that ends without a session keeps it well-formed.
LEMMA FailTypes ==
  ASSUME TypeOK, NEW v \in Verifies, Fail(v)
  PROVE  TypeOK'
  BY AccountsAssumption DEF TypeOK, Fail, NoVerify, Intent, IdOrNull

\* A call that ends with a session keeps it well-formed.
LEMMA IssueTypes ==
  ASSUME TypeOK, NEW v \in Verifies, NEW u \in IdOrNull, NEW t \in IdOrNull,
         NEW row \in [user: IdOrNull, tenant: IdOrNull],
         verify[v].code \in Code, Issue(v, u, t, row),
         tenants' \subseteq Id, drawn' \in [user: IdOrNull, tenant: IdOrNull]
  PROVE  TypeOK'
<1> DEFINE c == verify[v].code
<1> USE AccountsAssumption DEF TypeOK
<1>1. sessions' \in [Code -> [times: Nat, user: IdOrNull, tenant: IdOrNull]]
  <2>1. [times |-> sessions[c].times + 1, user |-> u, tenant |-> t]
          \in [times: Nat, user: IdOrNull, tenant: IdOrNull]
    OBVIOUS
  <2>2. QED
    BY <2>1 DEF Issue
<1>2. codes' \in [Code -> {"unsent", "live", "expired", "used", "deleted"}]
  BY DEF Issue
<1>3. /\ verify' \in
           [Verifies ->
              [step: {"idle", "check", "select", "touch", "insert", "burn"},
               intent: Intent, code: Code \cup {0},
               user: IdOrNull, tenant: IdOrNull]]
      /\ rowLock' \in Verifies \cup {None}
      /\ \A w \in Verifies : rowLock' = w => verify'[w].step = "burn"
  BY DEF Issue, NoVerify, Intent, IdOrNull
<1>4. QED
  BY <1>1, <1>2, <1>3 DEF Issue

\* The statements of a verification keep it well-formed.
LEMMA VerifyTypes ==
  ASSUME TypeOK, NEW v \in Verifies, VerifyStep(v)
  PROVE  TypeOK'
<1> USE AccountsAssumption
<1>1. ASSUME NEW intent \in Intent, NEW c \in Code, ReadCode(v, intent, c)
      PROVE  TypeOK'
  BY <1>1 DEF ReadCode, TypeOK, NoVerify, IdOrNull
<1>2. CASE CheckAccount(v)
  BY <1>2 DEF CheckAccount, GoTo, TypeOK
<1>3. CASE SelectUser(v)
  <2> DEFINE call == [step: {"idle", "check", "select", "touch", "insert", "burn"},
                      intent: Intent, code: Code \cup {0},
                      user: IdOrNull, tenant: IdOrNull]
  <2>1. verify[v] \in call /\ account \in [user: IdOrNull, tenant: IdOrNull]
    BY DEF TypeOK
  <2>2. [verify[v] EXCEPT !.step = "touch", !.user = account.user,
                          !.tenant = account.tenant] \in call
    BY <2>1
  <2>3. verify' = [verify EXCEPT ![v] =
                     [verify[v] EXCEPT !.step = "touch", !.user = account.user,
                                       !.tenant = account.tenant]]
    BY <1>3 DEF SelectUser
  <2>4. verify' \in [Verifies -> call]
    BY <2>2, <2>3 DEF TypeOK
  <2>5. rowLock # v
    BY <1>3 DEF SelectUser, TypeOK
  <2>6. \A w \in Verifies : rowLock = w => verify'[w].step = "burn"
    BY <2>3, <2>5 DEF TypeOK
  <2>7. QED
    BY <1>3, <2>4, <2>6 DEF SelectUser, TypeOK
<1>4. CASE TouchUser(v)
  BY <1>4 DEF TouchUser, GoTo, TypeOK
<1>5. CASE InsertUser(v)
  BY <1>5 DEF InsertUser, GoTo, TypeOK
<1>6. CASE RefuseAccount(v) \/ UserGone(v) \/ EmailTaken(v) \/ AlreadyUsed(v)
              \/ VerifyCrash(v)
  BY <1>6, FailTypes DEF RefuseAccount, UserGone, EmailTaken, AlreadyUsed,
                         VerifyCrash
<1>7. CASE Login(v)
  BY <1>7, IssueTypes DEF Login, Burnable, Unused, TypeOK
<1>8. CASE LoginLegacy(v)
  <2> DEFINE u == verify[v].user
             t == drawn.tenant + 1
             row == IF account.user = u THEN [user |-> u, tenant |-> t]
                                        ELSE account
  <2>1. /\ u \in IdOrNull /\ t \in Id /\ t \in IdOrNull
        /\ verify[v].code \in Code /\ Issue(v, u, t, row)
        /\ tenants' = tenants \cup {t}
        /\ drawn' = [drawn EXCEPT !.tenant = t]
    BY <1>8 DEF LoginLegacy, Burnable, Unused, TypeOK, IdOrNull
  <2>2. row \in [user: IdOrNull, tenant: IdOrNull]
    BY <2>1 DEF TypeOK
  <2>3. tenants' \subseteq Id /\ drawn' \in [user: IdOrNull, tenant: IdOrNull]
    BY <2>1 DEF TypeOK
  <2>4. QED
    BY <2>1, <2>2, <2>3, IssueTypes
<1>9. CASE SignUp(v)
  <2> DEFINE u == drawn.user + 1
             t == drawn.tenant + 1
  <2>1. /\ u \in Id /\ t \in Id /\ u \in IdOrNull /\ t \in IdOrNull
        /\ verify[v].code \in Code /\ Issue(v, u, t, [user |-> u, tenant |-> t])
        /\ tenants' = tenants \cup {t}
        /\ drawn' = [user |-> u, tenant |-> t]
    BY <1>9 DEF SignUp, Burnable, Unused, IdOrNull
  <2>2. tenants' \subseteq Id /\ drawn' \in [user: IdOrNull, tenant: IdOrNull]
    BY <2>1 DEF TypeOK
  <2>3. QED
    BY <2>1, <2>2, IssueTypes
<1>10. QED
  BY <1>1, <1>2, <1>3, <1>4, <1>5, <1>6, <1>7, <1>8, <1>9 DEF VerifyStep

\* A deletion keeps it well-formed.
LEMMA LeaveTypes ==
  ASSUME TypeOK, NEW l \in Leavers, LeaveStep(l)
  PROVE  TypeOK'
  BY AccountsAssumption
     DEF LeaveStep, BeginLeave, DeleteAccount, LeaveCrash, TypeOK, NoLeave,
         NoAccount, IdOrNull

\* Every step keeps the account well-formed.
LEMMA AccountTypeStep == TypeOK /\ [Next]_vars => TypeOK'
<1> SUFFICES ASSUME TypeOK, [Next]_vars PROVE TypeOK'
  OBVIOUS
<1>1. ASSUME NEW c \in Code, Expire(c) PROVE TypeOK'
  BY <1>1 DEF Expire, TypeOK
<1>2. CASE UNCHANGED vars
  BY <1>2 DEF vars, TypeOK
<1>3. QED
  BY <1>1, <1>2, RequestTypes, VerifyTypes, LeaveTypes DEF Next

\* Every reachable state of the account is well-formed.
THEOREM AccountTypeCorrect == Spec => []TypeOK
  BY AccountTypeInit, AccountTypeStep, PTL DEF Spec

-----------------------------------------------------------------------------
(* The invariant *)

\* It holds of an address without codes, calls and sessions.
LEMMA AccountInit == Init => AccountInv
<1> SUFFICES ASSUME Init PROVE AccountInv
  OBVIOUS
<1> USE AccountsAssumption DEF Init
<1>1. TypeOK
  BY AccountTypeInit
<1>2. CodesInOrder /\ SpentForGood /\ SignUpAlone /\ LoginCurrent /\ LeaveDrawn
  BY DEF CodesInOrder, SpentForGood, SignUpAlone, LoginCurrent, LeaveDrawn,
         NoVerify, NoLeave, NoSession
<1>3. AccountDrawn /\ LegacyUntouched /\ OnlyTenant
  BY DEF AccountDrawn, LegacyUntouched, OnlyTenant, Origins, NoAccount,
         Registered, NoId
<1>4. QED
  BY <1>1, <1>2, <1>3 DEF AccountInv

\* Steps that only move codes: a code becomes unused only when it is inserted.
LEMMA CodesMove ==
  ASSUME AccountInv, TypeOK',
         UNCHANGED <<account, tenants, drawn, rowLock, verify, leave, sessions>>,
         newest <= newest',
         \A c \in Code :
            \/ codes'[c] = codes[c]
            \/ c \in Unused /\ codes'[c] \in {"expired", "used"}
            \/ c > newest /\ c <= newest' /\ codes'[c] = "live"
  PROVE  AccountInv'
<1> USE AccountsAssumption DEF AccountInv
<1>1. CodesInOrder' /\ SpentForGood'
  <2>1. \A c \in Code : c \in Nat /\ newest \in Nat /\ newest' \in Nat
    BY DEF Code, TypeOK
  <2>2. CodesInOrder'
    BY <2>1 DEF CodesInOrder, Unused
  <2>3. SpentForGood'
    BY <2>1 DEF SpentForGood, Unused, CodesInOrder
  <2>4. QED
    BY <2>2, <2>3
<1>2. SignUpAlone'
  BY DEF SignUpAlone, Registered
<1>3. LoginCurrent'
  <2>1. ASSUME NEW v \in Verifies, verify[v].step # "idle", Burnable(v)'
        PROVE  Burnable(v)
    BY <2>1 DEF Burnable, Unused, CodesInOrder
  <2>2. QED
    BY <2>1 DEF LoginCurrent
<1>4. AccountDrawn' /\ LeaveDrawn' /\ LegacyUntouched' /\ OnlyTenant'
  BY DEF AccountDrawn, LeaveDrawn, LegacyUntouched, OnlyTenant, TenantToSpare,
         Registered
<1>5. QED
  BY <1>1, <1>2, <1>3, <1>4

\* The statements of a request, and the passing of time, move codes.
LEMMA RequestPreserves ==
  ASSUME AccountInv, TypeOK', NEW r \in Requests, RequestStep(r)
  PROVE  AccountInv'
<1> USE AccountsAssumption DEF AccountInv
<1>1. newest \in Nat
  BY DEF TypeOK
<1>2. ASSUME NEW intent \in Intent, BeginRequest(r, intent) PROVE AccountInv'
  BY <1>1, <1>2, CodesMove DEF BeginRequest
<1>3. CASE InvalidateCodes(r)
  <2>1. \A c \in Code : \/ codes'[c] = codes[c]
                        \/ c \in Unused /\ codes'[c] = "used"
    BY <1>3 DEF InvalidateCodes, TypeOK
  <2>2. QED
    BY <1>1, <1>3, <2>1, CodesMove DEF InvalidateCodes
<1>4. CASE InsertCode(r)
  <2>1. \A c \in Code : \/ codes'[c] = codes[c]
                        \/ c = newest + 1 /\ codes'[c] = "live"
    BY <1>4 DEF InsertCode, TypeOK
  <2>2. QED
    BY <1>1, <1>4, <2>1, CodesMove DEF InsertCode
<1>5. CASE RequestCrash(r)
  BY <1>1, <1>5, CodesMove DEF RequestCrash
<1>6. QED
  BY <1>2, <1>3, <1>4, <1>5 DEF RequestStep

\* Steps of one verification that issue no session: what is stored stays as it
\* is, and the call moves on within its intent, or ends.
CallMoves(v) ==
    /\ UNCHANGED <<codes, newest, account, tenants, drawn, request, leave,
                   sessions>>
    /\ \A w \in Verifies \ {v} : /\ verify'[w] = verify[w]
                                 /\ rowLock = w => rowLock' = w
    /\ verify'[v].step # "idle" =>
          verify'[v].code \in Code /\ codes[verify'[v].code] # "unsent"
    /\ verify'[v].step \in {"select", "touch"} => verify'[v].intent = "login"
    /\ verify'[v].step = "insert" => verify'[v].intent = "signup"
    /\ verify'[v].step = "burn" /\ verify'[v].intent = "signup" =>
          rowLock' = v /\ ~ Registered
    /\ verify'[v].step \in {"touch", "burn"} /\ verify'[v].intent = "login" =>
          /\ verify'[v].user \in 1..drawn.user
          /\ verify'[v].code \in Unused =>
                /\ verify'[v].user = account.user
                /\ verify'[v].tenant \in tenants \cup {NoId}

\* Such steps preserve the invariant.
LEMMA CallMovePreserves ==
  ASSUME AccountInv, TypeOK', NEW v \in Verifies, CallMoves(v)
  PROVE  AccountInv'
<1> USE DEF AccountInv
<1>1. CodesInOrder' /\ SpentForGood'
  BY DEF CallMoves, CodesInOrder, SpentForGood
<1>2. SignUpAlone'
  BY DEF CallMoves, SignUpAlone, Registered
<1>3. LoginCurrent'
  BY DEF CallMoves, LoginCurrent, Burnable, Unused
<1>4. AccountDrawn' /\ LeaveDrawn' /\ LegacyUntouched' /\ OnlyTenant'
  BY DEF CallMoves, AccountDrawn, LeaveDrawn, LegacyUntouched, OnlyTenant,
         TenantToSpare, Registered
<1>5. QED
  BY <1>1, <1>2, <1>3, <1>4

\* An error ends the call.
LEMMA FailMoves ==
  ASSUME TypeOK, NEW v \in Verifies, Fail(v)
  PROVE  CallMoves(v)
  BY AccountsAssumption DEF Fail, CallMoves, NoVerify, TypeOK

\* The statements before the burn move the call.
LEMMA MovesPreserve ==
  ASSUME AccountInv, TypeOK', NEW v \in Verifies, VerifyStep(v),
         ~ Login(v), ~ LoginLegacy(v), ~ SignUp(v)
  PROVE  AccountInv'
<1> SUFFICES CallMoves(v)
  BY CallMovePreserves
<1> USE AccountsAssumption DEF AccountInv
<1>0. /\ account.user \in Nat /\ drawn.user \in Nat
      /\ verify[v].step # "burn" => rowLock # v
  BY DEF TypeOK, IdOrNull, Id, NoId
<1>1. ASSUME NEW intent \in Intent, NEW c \in Code, ReadCode(v, intent, c)
      PROVE  CallMoves(v)
  BY <1>1 DEF ReadCode, CallMoves, NoVerify, TypeOK
<1>2. CASE CheckAccount(v)
  BY <1>2, <1>0 DEF CheckAccount, GoTo, CallMoves, TypeOK, Intent, CodesInOrder
<1>3. CASE SelectUser(v)
  BY <1>3, <1>0 DEF SelectUser, CallMoves, TypeOK, CodesInOrder, SignUpAlone,
     AccountDrawn, Registered, NoId
<1>4. CASE TouchUser(v)
  BY <1>4, <1>0 DEF TouchUser, GoTo, CallMoves, TypeOK, CodesInOrder,
     SignUpAlone, LoginCurrent, Burnable
<1>5. CASE InsertUser(v)
  BY <1>5, <1>0 DEF InsertUser, GoTo, CallMoves, TypeOK, CodesInOrder, SignUpAlone
<1>6. CASE RefuseAccount(v) \/ UserGone(v) \/ EmailTaken(v) \/ AlreadyUsed(v)
              \/ VerifyCrash(v)
  BY <1>6, FailMoves DEF RefuseAccount, UserGone, EmailTaken, AlreadyUsed,
                         VerifyCrash
<1>7. QED
  BY <1>1, <1>2, <1>3, <1>4, <1>5, <1>6 DEF VerifyStep

\* What issuing a session does to the code, its sessions and the calls.
LEMMA IssueEffect ==
  ASSUME AccountInv, TypeOK', NEW v \in Verifies, NEW u, NEW t, NEW row,
         Burnable(v), Issue(v, u, t, row)
  PROVE  /\ CodesInOrder' /\ SpentForGood'
         /\ verify'[v].step = "idle"
         /\ \A w \in Verifies \ {v} : /\ verify'[w] = verify[w]
                                      /\ rowLock = w => rowLock' = w
         /\ \A w \in Verifies \ {v} : Burnable(w)' => Burnable(w)
         /\ UNCHANGED leave
<1> DEFINE c == verify[v].code
<1> USE AccountsAssumption DEF AccountInv
<1>1. /\ c \in Code /\ codes[c] \in {"live", "expired"}
      /\ sessions[c].times = 0
  BY DEF Burnable, Unused, SpentForGood
<1>2. /\ verify'[v].step = "idle"
      /\ \A w \in Verifies \ {v} : /\ verify'[w] = verify[w]
                                   /\ rowLock = w => rowLock' = w
      /\ UNCHANGED <<leave, newest>>
  BY DEF Issue, NoVerify, TypeOK
<1>3. /\ codes'[c] = "used" /\ sessions'[c].times = 1
      /\ \A d \in Code \ {c} : codes'[d] = codes[d] /\ sessions'[d] = sessions[d]
  BY <1>1 DEF Issue, TypeOK
<1>4. CodesInOrder'
  BY <1>1, <1>2, <1>3 DEF CodesInOrder
<1>5. SpentForGood'
  BY <1>1, <1>3 DEF SpentForGood
<1>6. \A w \in Verifies \ {v} : Burnable(w)' => Burnable(w)
  BY <1>1, <1>2, <1>3 DEF Burnable, Unused
<1>7. QED
  BY <1>2, <1>4, <1>5, <1>6

\* A login into an account with a tenant stores nothing but the burn.
LEMMA LoginPreserves ==
  ASSUME AccountInv, TypeOK', NEW v \in Verifies, Login(v)
  PROVE  AccountInv'
<1> USE DEF AccountInv
<1>1. /\ Issue(v, verify[v].user, verify[v].tenant, account) /\ Burnable(v)
      /\ UNCHANGED <<account, tenants, drawn>>
  BY DEF Login, Issue
<1>2. /\ CodesInOrder' /\ SpentForGood'
      /\ verify'[v].step = "idle"
      /\ \A w \in Verifies \ {v} : /\ verify'[w] = verify[w]
                                   /\ rowLock = w => rowLock' = w
      /\ \A w \in Verifies \ {v} : Burnable(w)' => Burnable(w)
      /\ UNCHANGED leave
  BY <1>1, IssueEffect
<1>3. SignUpAlone' /\ LoginCurrent'
  BY <1>1, <1>2 DEF SignUpAlone, LoginCurrent, Registered
<1>4. AccountDrawn' /\ LeaveDrawn' /\ LegacyUntouched' /\ OnlyTenant'
  BY <1>1, <1>2 DEF AccountDrawn, LeaveDrawn, LegacyUntouched, OnlyTenant,
                    TenantToSpare, Registered
<1>5. QED
  BY <1>2, <1>3, <1>4

\* A login that gives the user a tenant gives the user the row has.
LEMMA LegacyPreserves ==
  ASSUME AccountInv, TypeOK', NEW v \in Verifies, LoginLegacy(v)
  PROVE  AccountInv'
<1> DEFINE u == verify[v].user
           t == drawn.tenant + 1
<1> USE AccountsAssumption DEF AccountInv
<1>1. /\ u = account.user /\ u # NoId /\ t \in Nat /\ t > 0
      /\ drawn.user \in Nat /\ drawn.tenant \in Nat
  <2>1. /\ verify[v].step = "burn" /\ verify[v].intent = "login" /\ Burnable(v)
    BY DEF LoginLegacy
  <2>2. u \in 1..drawn.user /\ u = account.user
    BY <2>1 DEF LoginCurrent
  <2>3. drawn.user \in Nat /\ drawn.tenant \in Nat
    BY DEF TypeOK, IdOrNull, Id, NoId
  <2>4. QED
    BY <2>2, <2>3 DEF NoId
<1>2. /\ Issue(v, u, t, [user |-> u, tenant |-> t]) /\ Burnable(v)
      /\ account' = [user |-> u, tenant |-> t]
      /\ tenants' = tenants \cup {t}
      /\ drawn' = [user |-> drawn.user, tenant |-> t]
  BY <1>1 DEF LoginLegacy, Issue, TypeOK
<1>3. /\ CodesInOrder' /\ SpentForGood'
      /\ verify'[v].step = "idle"
      /\ \A w \in Verifies \ {v} : /\ verify'[w] = verify[w]
                                   /\ rowLock = w => rowLock' = w
      /\ \A w \in Verifies \ {v} : Burnable(w)' => Burnable(w)
      /\ UNCHANGED leave
  BY <1>2, IssueEffect
<1>4. SignUpAlone' /\ LoginCurrent'
  BY <1>1, <1>2, <1>3 DEF SignUpAlone, LoginCurrent, Registered
<1>5. AccountDrawn'
  BY <1>1, <1>2 DEF AccountDrawn, Registered, TypeOK, Id
<1>6. LegacyUntouched' /\ OnlyTenant'
  BY <1>1, <1>2 DEF LegacyUntouched, OnlyTenant, TenantToSpare, NoId
<1>7. LeaveDrawn'
  <2> SUFFICES ASSUME NEW l \in Leavers, leave[l].step = "delete"
               PROVE  /\ leave[l].user \in 1..drawn'.user
                      /\ leave[l].tenant \in 1..drawn'.tenant
                      /\ leave[l].tenant # account'.tenant
                      /\ TenantToSpare'
    BY <1>3 DEF LeaveDrawn
  <2>1. leave[l].user \in 1..drawn.user /\ leave[l].tenant \in 1..drawn.tenant
    BY DEF LeaveDrawn
  <2>2. drawn.tenant >= drawn.user
    BY <1>1, <2>1 DEF LegacyUntouched, NoId
  <2>3. QED
    BY <1>1, <1>2, <2>1, <2>2 DEF TenantToSpare
<1>8. QED
  BY <1>3, <1>4, <1>5, <1>6, <1>7

\* A sign-up finds the address without an account, and gives it one whose ids
\* nobody else holds.
LEMMA SignUpPreserves ==
  ASSUME AccountInv, TypeOK', NEW v \in Verifies, SignUp(v)
  PROVE  AccountInv'
<1> DEFINE u == drawn.user + 1
           t == drawn.tenant + 1
<1> USE AccountsAssumption DEF AccountInv
<1>1. /\ drawn.user \in Nat /\ drawn.tenant \in Nat
      /\ \A w \in Verifies : verify[w].user \in Nat
  BY DEF TypeOK, IdOrNull, Id, NoId
<1>2. /\ rowLock = v /\ ~ Registered
      /\ Issue(v, u, t, [user |-> u, tenant |-> t]) /\ Burnable(v)
      /\ account' = [user |-> u, tenant |-> t]
      /\ tenants' = tenants \cup {t}
      /\ drawn' = [user |-> u, tenant |-> t]
  BY DEF SignUp, Issue, SignUpAlone
<1>3. /\ CodesInOrder' /\ SpentForGood'
      /\ verify'[v].step = "idle"
      /\ \A w \in Verifies \ {v} : /\ verify'[w] = verify[w]
                                   /\ rowLock = w => rowLock' = w
      /\ \A w \in Verifies \ {v} : Burnable(w)' => Burnable(w)
      /\ UNCHANGED leave
  BY <1>2, IssueEffect
<1>4. SignUpAlone'
  BY <1>2, <1>3 DEF SignUpAlone
<1>5. LoginCurrent'
  <2>1. ASSUME NEW w \in Verifies \ {v}, verify[w].step \in {"touch", "burn"},
               verify[w].intent = "login"
        PROVE  verify[w].user \in 1..drawn'.user /\ ~ Burnable(w)
    BY <1>1, <1>2, <2>1 DEF LoginCurrent, Registered, NoId
  <2>2. QED
    BY <1>3, <2>1 DEF LoginCurrent
<1>6. AccountDrawn'
  BY <1>1, <1>2 DEF AccountDrawn, Registered, TypeOK, Id, NoId
<1>7. drawn.tenant >= drawn.user
  BY <1>1, <1>2 DEF LegacyUntouched, Registered, NoId
<1>8. LegacyUntouched' /\ OnlyTenant'
  BY <1>1, <1>2, <1>7 DEF LegacyUntouched, OnlyTenant, TenantToSpare,
     AccountDrawn, Registered, TypeOK, Id, NoId
<1>9. LeaveDrawn'
  <2> SUFFICES ASSUME NEW l \in Leavers, leave[l].step = "delete"
               PROVE  /\ leave[l].user \in 1..drawn'.user
                      /\ leave[l].tenant \in 1..drawn'.tenant
                      /\ leave[l].user # account'.user
                      /\ leave[l].tenant # account'.tenant
    BY <1>3 DEF LeaveDrawn
  <2>1. leave[l].user \in 1..drawn.user /\ leave[l].tenant \in 1..drawn.tenant
    BY DEF LeaveDrawn
  <2>2. QED
    BY <1>1, <1>2, <2>1
<1>10. QED
  BY <1>3, <1>4, <1>5, <1>6, <1>8, <1>9

\* A deletion takes the codes, so that no call under way can end with a session,
\* and the tenant of the row, if it takes the row.
LEMMA LeavePreserves ==
  ASSUME AccountInv, TypeOK', NEW l \in Leavers, LeaveStep(l)
  PROVE  AccountInv'
<1> USE AccountsAssumption DEF AccountInv
<1>1. CASE BeginLeave(l) \/ LeaveCrash(l)
  <2>1. /\ UNCHANGED <<codes, newest, account, tenants, drawn, rowLock, request,
                       verify, sessions>>
        /\ \A k \in Leavers \ {l} : leave'[k] = leave[k]
    BY <1>1 DEF BeginLeave, LeaveCrash, TypeOK
  <2>2. CodesInOrder' /\ SpentForGood' /\ SignUpAlone' /\ LoginCurrent'
    BY <2>1 DEF CodesInOrder, SpentForGood, SignUpAlone, LoginCurrent, Burnable,
                Unused, Registered
  <2>3. AccountDrawn' /\ LegacyUntouched' /\ OnlyTenant'
    BY <2>1 DEF AccountDrawn, LegacyUntouched, OnlyTenant, TenantToSpare,
                Registered
  <2>4. /\ account.user \in Nat /\ account.tenant \in Nat
        /\ drawn.user \in Nat /\ drawn.tenant \in Nat
        /\ account.tenant <= drawn.tenant
    BY DEF TypeOK, IdOrNull, Id, NoId, AccountDrawn
  <2>5. leave'[l].step = "delete" =>
          /\ leave'[l].user = account.user /\ account.user # NoId
          /\ leave'[l].tenant = account.tenant /\ account.tenant # NoId
    BY <1>1 DEF BeginLeave, LeaveCrash, NoLeave, Registered, TypeOK
  <2>6. LeaveDrawn'
    BY <2>1, <2>4, <2>5 DEF LeaveDrawn, AccountDrawn, TenantToSpare, NoId
  <2>7. QED
    BY <2>2, <2>3, <2>6
<1>2. CASE DeleteAccount(l)
  <2> DEFINE gone == account.user = leave[l].user
  <2>1. /\ UNCHANGED <<newest, drawn, rowLock, verify, sessions>>
        /\ account' = IF gone THEN NoAccount ELSE account
        /\ tenants' = tenants \ {leave[l].tenant}
        /\ \A c \in Code : codes'[c] = IF codes[c] = "unsent" THEN "unsent"
                                                              ELSE "deleted"
        /\ leave[l].step = "delete" /\ leave'[l].step = "idle"
        /\ \A k \in Leavers \ {l} : leave'[k] = leave[k]
    BY <1>2 DEF DeleteAccount, NoLeave, TypeOK
  <2>2. CodesInOrder' /\ SpentForGood'
    BY <2>1 DEF CodesInOrder, SpentForGood
  <2>3. SignUpAlone'
    BY <2>1 DEF SignUpAlone, Registered, NoAccount
  <2>4. LoginCurrent'
    BY <2>1 DEF LoginCurrent, Burnable, Unused, CodesInOrder
  <2>5. /\ leave[l].user \in 1..drawn.user /\ leave[l].tenant \in 1..drawn.tenant
        /\ ~ gone => leave[l].tenant # account.tenant
        /\ gone /\ ~ TenantToSpare => leave[l].tenant = account.tenant
    BY <2>1 DEF LeaveDrawn
  <2>6. drawn.user \in Nat /\ drawn.tenant \in Nat
    BY DEF TypeOK, IdOrNull, Id, NoId
  <2>7. AccountDrawn'
    BY <2>1, <2>5, <2>6 DEF AccountDrawn, Registered, NoAccount, NoId
  <2>8. LeaveDrawn'
    <3> SUFFICES ASSUME NEW k \in Leavers \ {l}, leave[k].step = "delete"
                 PROVE  /\ leave[k].user \in 1..drawn.user
                        /\ leave[k].tenant \in 1..drawn.tenant
                        /\ leave[k].user # account'.user =>
                              leave[k].tenant # account'.tenant
                        /\ leave[k].user = account'.user /\ ~ TenantToSpare =>
                              leave[k].tenant = account'.tenant
      BY <2>1 DEF LeaveDrawn, TenantToSpare
    <3>1. QED
      BY <2>1, <2>6 DEF LeaveDrawn, NoAccount, NoId
  <2>9. drawn.tenant >= drawn.user
    BY <2>5, <2>6 DEF LegacyUntouched, NoId
  <2>10. LegacyUntouched' /\ OnlyTenant'
    BY <2>1, <2>5, <2>6, <2>9 DEF LegacyUntouched, OnlyTenant, TenantToSpare
  <2>11. QED
    BY <2>2, <2>3, <2>4, <2>7, <2>8, <2>10
<1>3. QED
  BY <1>1, <1>2 DEF LeaveStep

\* Every step preserves the invariant.
LEMMA AccountStep == AccountInv /\ [Next]_vars => AccountInv'
<1> SUFFICES ASSUME AccountInv, [Next]_vars PROVE AccountInv'
  OBVIOUS
<1>1. TypeOK'
  BY AccountTypeStep DEF AccountInv
<1>2. ASSUME NEW r \in Requests, RequestStep(r) PROVE AccountInv'
  BY <1>1, <1>2, RequestPreserves
<1>3. ASSUME NEW v \in Verifies, VerifyStep(v) PROVE AccountInv'
  BY <1>1, <1>3, MovesPreserve, LoginPreserves, LegacyPreserves,
     SignUpPreserves
<1>4. ASSUME NEW l \in Leavers, LeaveStep(l) PROVE AccountInv'
  BY <1>1, <1>4, LeavePreserves
<1>5. ASSUME NEW c \in Code, Expire(c) PROVE AccountInv'
  <2>1. newest \in Nat
    BY DEF AccountInv, TypeOK
  <2>2. \A d \in Code : \/ codes'[d] = codes[d]
                        \/ d \in Unused /\ codes'[d] = "expired"
    BY <1>5 DEF Expire, Unused, AccountInv, TypeOK
  <2>3. QED
    BY <1>1, <1>5, <2>1, <2>2, CodesMove DEF Expire
<1>6. CASE UNCHANGED vars
  <2>1. newest \in Nat
    BY DEF AccountInv, TypeOK
  <2>2. QED
    BY <1>1, <1>6, <2>1, CodesMove DEF vars
<1>7. QED
  BY <1>2, <1>3, <1>4, <1>5, <1>6 DEF Next

\* The invariant holds throughout.
THEOREM AccountInvariant == Spec => []AccountInv
  BY AccountInit, AccountStep, PTL DEF Spec

\* However many calls present a code at once, it opens one session at most.
THEOREM OneSessionPerCode == Spec => []CodeOpensOnce
<1>1. AccountInv => CodeOpensOnce
  BY DEF AccountInv, SpentForGood, CodeOpensOnce
<1>2. QED
  BY <1>1, AccountInvariant, PTL

\* Unless two logins gave the legacy user a tenant each, an address has no
\* tenant but that of its account, and none without an account.
THEOREM NoTenantBesides == Spec => []OnlyTenant
<1>1. AccountInv => OnlyTenant
  BY DEF AccountInv
<1>2. QED
  BY <1>1, AccountInvariant, PTL

\* A session is issued only for the user who is there, under a tenant that is
\* there: deletions and sign-ups in the middle of a login leave it without.
THEOREM SessionsAreCurrent == Spec => SessionOfAccount
<1> DEFINE Current ==
      \A c \in Code :
        sessions'[c] # sessions[c] =>
          /\ account'.user = sessions'[c].user
          /\ sessions'[c].tenant \in tenants'
<1>1. ASSUME AccountInv, [Next]_vars PROVE Current
  <2> USE <1>1, AccountsAssumption DEF AccountInv
  <2>1. ASSUME NEW v \in Verifies, NEW u, NEW t, NEW row,
               Burnable(v), Issue(v, u, t, row), row.user = u, t \in tenants'
        PROVE  Current
    BY <2>1 DEF Issue, Burnable, Unused, TypeOK
  <2>2. ASSUME NEW v \in Verifies, Login(v) PROVE Current
    BY <2>1, <2>2 DEF Login, LoginCurrent
  <2>3. ASSUME NEW v \in Verifies, LoginLegacy(v) PROVE Current
    <3> DEFINE u == verify[v].user
               t == drawn.tenant + 1
    <3>1. u = account.user
      <4>1. /\ verify[v].step = "burn" /\ verify[v].intent = "login"
            /\ Burnable(v)
        BY <2>3 DEF LoginLegacy
      <4>2. QED
        BY <4>1 DEF LoginCurrent
    <3>2. /\ Burnable(v) /\ Issue(v, u, t, [user |-> u, tenant |-> t])
          /\ t \in tenants'
      BY <2>3, <3>1 DEF LoginLegacy
    <3>3. [user |-> u, tenant |-> t].user = u
      OBVIOUS
    <3>4. QED
      BY <2>1, <3>2, <3>3
  <2>4. ASSUME NEW v \in Verifies, SignUp(v) PROVE Current
    <3> DEFINE u == drawn.user + 1
               t == drawn.tenant + 1
    <3>1. /\ Burnable(v) /\ Issue(v, u, t, [user |-> u, tenant |-> t])
          /\ t \in tenants'
      BY <2>4 DEF SignUp
    <3>2. QED
      BY <2>1, <3>1
  <2>5. CASE UNCHANGED sessions
    BY <2>5
  <2>6. QED
    BY <1>1, <2>2, <2>3, <2>4, <2>5 DEF Next, vars, RequestStep, VerifyStep,
       LeaveStep, BeginRequest, InvalidateCodes, InsertCode, RequestCrash,
       ReadCode, CheckAccount, GoTo, RefuseAccount, Fail, SelectUser, UserGone,
       TouchUser, InsertUser, EmailTaken, AlreadyUsed, VerifyCrash, BeginLeave,
       DeleteAccount, LeaveCrash, Expire
<1>2. AccountInv /\ [Next]_vars => [Current]_vars
  BY <1>1
<1>3. QED
  BY <1>2, AccountInvariant, PTL DEF Spec, SessionOfAccount
=============================================================================
