------------------------------ MODULE Accounts ------------------------------
(***************************************************************************)
(* Accounts: registration and its review, password login with the failure  *)
(* counter and the dynamic code, single sign-on, and the sessions that     *)
(* come out of them.  A request reads the account once and works on that   *)
(* copy; every write is one statement with a condition of its own.         *)
(* Passwords, codes and identity tokens are right or wrong; the code's     *)
(* time step is a number.                                                  *)
(***************************************************************************)
EXTENDS Naturals, FiniteSets

CONSTANTS Phones,        \* one account each
          Requests,      \* requests that may be under way at the same time
          Subjects,      \* identities the provider vouches for
          MaxFailures,   \* failures that lock a phone
          LastStep,      \* time steps of the dynamic code
          MaxStates,     \* sign-on attempts that are begun
          MaxSessions,   \* sessions issued
          ReviewedRoles, \* roles an application may be approved with
          RequireAdminTotp, TrustIdpMfa, BootstrapAllowed,
          Unset,         \* no account, subject, step or role
          NoRequest      \* the request is not under way

VARIABLES accounts,    \* workbench_accounts by phone
          failures,    \* workbench_login_attempts: failures of a phone since the last success
          ssoStates,   \* workbench_sso_states that wait for their callback
          begun,       \* sign-on attempts begun so far
          sessions,    \* tokens issued
          told,        \* approvals announced to the applicant
          copy         \* what each request has read

accountVars == <<accounts, failures, ssoStates, begun, sessions, told, copy>>

Roles == {"super_admin", "ceo", "employee"}
MFA_ROLES == {"super_admin", "ceo"}
Absent == [status |-> Unset, role |-> Unset, secret |-> FALSE, confirmed |-> FALSE,
           last |-> 0, subject |-> Unset]

Doing(q, what) == copy[q] # NoRequest /\ copy[q].doing = what
Done(q) == copy' = [copy EXCEPT ![q] = NoRequest]

\* create_access_token: which account, how far it reaches, by which sign-on attempt.
Issue(phone, scope, state) ==
  /\ Cardinality(sessions) < MaxSessions
  /\ sessions' = sessions \cup {[id |-> Cardinality(sessions) + 1, phone |-> phone,
                                 scope |-> scope, state |-> state, revoked |-> FALSE]}

-----------------------------------------------------------------------------
(* Registration and review *)

\* request_registration: is the phone taken, and is there an administrator already?
RegistrationReads(q, phone) ==
  /\ copy[q] = NoRequest
  /\ accounts[phone] = Absent
  /\ LET reviewed == \E p \in Phones : /\ accounts[p].status = "approved"
                                       /\ accounts[p].role = "super_admin"
     IN  /\ reviewed \/ BootstrapAllowed
         /\ copy' = [copy EXCEPT ![q] = [doing |-> "register", phone |-> phone, pending |-> reviewed]]
  /\ UNCHANGED <<accounts, failures, ssoStates, begun, sessions, told>>

\* add: the first request for a phone wins; without an administrator it becomes one.
AddAccount(q) ==
  /\ Doing(q, "register")
  /\ accounts' = IF accounts[copy[q].phone] # Absent THEN accounts
                 ELSE [accounts EXCEPT ![copy[q].phone] =
                        IF copy[q].pending THEN [Absent EXCEPT !.status = "pending"]
                        ELSE [Absent EXCEPT !.status = "approved", !.role = "super_admin"]]
  /\ Done(q)
  /\ UNCHANGED <<failures, ssoStates, begun, sessions, told>>

\* mark_approved decides a pending application and the applicant is told.
Approve(phone, role) ==
  /\ accounts[phone].status = "pending"
  /\ accounts' = [accounts EXCEPT ![phone].status = "approved", ![phone].role = role]
  /\ told' = told \cup {phone}
  /\ UNCHANGED <<failures, ssoStates, begun, sessions, copy>>

Reject(phone) ==
  /\ accounts[phone].status = "pending"
  /\ accounts' = [accounts EXCEPT ![phone].status = "rejected"]
  /\ UNCHANGED <<failures, ssoStates, begun, sessions, told, copy>>

-----------------------------------------------------------------------------
(* Password login *)

\* login: the account is read; a locked phone goes no further.
LoginReads(q, phone) ==
  /\ copy[q] = NoRequest
  /\ failures[phone] < MaxFailures
  /\ copy' = [copy EXCEPT ![q] = [doing |-> "login", phone |-> phone, account |-> accounts[phone]]]
  /\ UNCHANGED <<accounts, failures, ssoStates, begun, sessions, told>>

\* _fail_login: one more failure; the counter stops where the lock begins.
CountFailure(phone) ==
  failures' = [failures EXCEPT ![phone] = IF @ < MaxFailures THEN @ + 1 ELSE @]

\* Not approved, a wrong password, or a wrong code.
LoginFails(q) ==
  /\ Doing(q, "login")
  /\ CountFailure(copy[q].phone)
  /\ Done(q)
  /\ UNCHANGED <<accounts, ssoStates, begun, sessions, told>>

\* record_totp_step: only a step after the last one is written (no step yet is 0).
StepAdvances(phone, step) == accounts[phone].last < step

\* The password is right, and the code when one is bound; an administrator without a code
\* only gets a session to enrol one.
LoginSucceeds(q, step) ==
  /\ Doing(q, "login")
  /\ LET phone == copy[q].phone
         account == copy[q].account
         enrols == /\ ~account.confirmed /\ RequireAdminTotp /\ account.role \in MFA_ROLES
     IN  /\ account.status = "approved"
         /\ account.confirmed => StepAdvances(phone, step)
         /\ accounts' = IF account.confirmed THEN [accounts EXCEPT ![phone].last = step]
                        ELSE accounts
         /\ failures' = IF enrols THEN failures ELSE [failures EXCEPT ![phone] = 0]
         /\ Issue(phone, IF enrols THEN "totp_enrollment" ELSE "full", 0)
  /\ Done(q)
  /\ UNCHANGED <<ssoStates, begun, told>>

\* The window or the lock of a phone runs out.
LockExpires(phone) ==
  /\ failures[phone] > 0
  /\ failures' = [failures EXCEPT ![phone] = 0]
  /\ UNCHANGED <<accounts, ssoStates, begun, sessions, told, copy>>

-----------------------------------------------------------------------------
(* Single sign-on *)

BeginSsoLogin ==
  /\ begun < MaxStates
  /\ begun' = begun + 1
  /\ ssoStates' = ssoStates \cup {begun'}
  /\ UNCHANGED <<accounts, failures, sessions, told, copy>>

\* consume deletes the state; then the provider vouches for an identity and its e-mail.
ConsumeState(q, state, phone, subject) ==
  /\ copy[q] = NoRequest
  /\ state \in ssoStates
  /\ ssoStates' = ssoStates \ {state}
  /\ copy' = [copy EXCEPT ![q] = [doing |-> "sso", phone |-> phone, subject |-> subject,
                                  state |-> state, account |-> accounts[phone]]]
  /\ UNCHANGED <<accounts, failures, begun, sessions, told>>

NeedsSecondFactor(account) ==
  ~TrustIdpMfa /\ (account.confirmed \/ (RequireAdminTotp /\ account.role \in MFA_ROLES))

\* The identity is bound to an approved account that has none; another one is turned away.
\* Who needs a second factor and has none is sent back to the password.
CompleteSso(q) ==
  /\ Doing(q, "sso")
  /\ LET phone == copy[q].phone
         account == copy[q].account
         accepted == account.status = "approved" /\ account.subject \in {Unset, copy[q].subject}
         second == NeedsSecondFactor(account)
     IN  /\ accounts' = IF accepted /\ account.subject = Unset
                        THEN [accounts EXCEPT ![phone].subject = copy[q].subject] ELSE accounts
         /\ IF accepted /\ (second => account.confirmed)
            THEN Issue(phone, IF second THEN "sso_pending" ELSE "full", copy[q].state)
            ELSE UNCHANGED sessions
  /\ Done(q)
  /\ UNCHANGED <<failures, ssoStates, begun, told>>

\* verify_sso_totp: the pending session earns a full one with a code, or a failure is counted.
VerifySsoTotp(s, step) ==
  /\ s \in sessions /\ s.scope = "sso_pending" /\ ~s.revoked
  /\ \/ /\ accounts[s.phone].secret
        /\ StepAdvances(s.phone, step)
        /\ accounts' = [accounts EXCEPT ![s.phone].last = step]
        /\ failures' = [failures EXCEPT ![s.phone] = 0]
        /\ Issue(s.phone, "full", 0)
     \/ /\ CountFailure(s.phone)
        /\ UNCHANGED <<accounts, sessions>>
  /\ UNCHANGED <<ssoStates, begun, told, copy>>

-----------------------------------------------------------------------------
(* The dynamic code, and the end of a session *)

\* start_totp_enrollment: a new seed, not confirmed.
StartTotp(phone) ==
  /\ \E s \in sessions : s.phone = phone /\ s.scope # "sso_pending" /\ ~s.revoked
  /\ accounts' = [accounts EXCEPT ![phone].secret = TRUE, ![phone].confirmed = FALSE,
                                  ![phone].last = 0]
  /\ UNCHANGED <<failures, ssoStates, begun, sessions, told, copy>>

\* confirm_totp: a code of the seed puts it into force.
ConfirmTotp(phone, step) ==
  /\ \E s \in sessions : s.phone = phone /\ s.scope # "sso_pending" /\ ~s.revoked
  /\ accounts[phone].secret
  /\ accounts' = [accounts EXCEPT ![phone].confirmed = TRUE, ![phone].last = step]
  /\ UNCHANGED <<failures, ssoStates, begun, sessions, told, copy>>

\* reset_totp by a super administrator.
ResetTotp(phone) ==
  /\ accounts[phone].secret
  /\ accounts' = [accounts EXCEPT ![phone].secret = FALSE, ![phone].confirmed = FALSE,
                                  ![phone].last = 0]
  /\ UNCHANGED <<failures, ssoStates, begun, sessions, told, copy>>

Logout(s) ==
  /\ s \in sessions /\ ~s.revoked
  /\ sessions' = (sessions \ {s}) \cup {[s EXCEPT !.revoked = TRUE]}
  /\ UNCHANGED <<accounts, failures, ssoStates, begun, told, copy>>

-----------------------------------------------------------------------------

Init == /\ accounts = [p \in Phones |-> Absent]
        /\ failures = [p \in Phones |-> 0]
        /\ ssoStates = {} /\ begun = 0
        /\ sessions = {} /\ told = {}
        /\ copy = [q \in Requests |-> NoRequest]

Register == \/ \E q \in Requests : AddAccount(q) \/ \E p \in Phones : RegistrationReads(q, p)
            \/ \E p \in Phones : Reject(p) \/ \E role \in ReviewedRoles : Approve(p, role)

SignIn == \/ \E q \in Requests :
                \/ \E p \in Phones : LoginReads(q, p)
                \/ LoginFails(q)
                \/ \E step \in 1 .. LastStep : LoginSucceeds(q, step)
                \/ \E state \in ssoStates, p \in Phones, who \in Subjects :
                      ConsumeState(q, state, p, who)
                \/ CompleteSso(q)
          \/ BeginSsoLogin
          \/ \E s \in sessions, step \in 1 .. LastStep : VerifySsoTotp(s, step)
          \/ \E p \in Phones : LockExpires(p)

Enrol == \/ \E p \in Phones : StartTotp(p) \/ ResetTotp(p) \/ \E n \in 1 .. LastStep : ConfirmTotp(p, n)
         \/ \E s \in sessions : Logout(s)

Next == Register \/ SignIn \/ Enrol

Spec == Init /\ [][Next]_accountVars

-----------------------------------------------------------------------------
(* Properties *)

\* Every table keeps its columns.
TypeOK ==
  /\ accounts \in [Phones ->
       [status : {Unset, "pending", "approved", "rejected"}, role : Roles \cup {Unset},
        secret : BOOLEAN, confirmed : BOOLEAN, last : 0 .. LastStep,
        subject : Subjects \cup {Unset}]]
  /\ failures \in [Phones -> 0 .. MaxFailures]
  /\ ssoStates \subseteq 1 .. begun
  /\ sessions \subseteq [id : 1 .. MaxSessions, phone : Phones, revoked : BOOLEAN,
                         scope : {"full", "totp_enrollment", "sso_pending"}, state : 0 .. MaxStates]
  /\ told \subseteq Phones

\* An applicant who was told of an approval has an approved account, although several
\* reviewers decide the same application at once: a rejection never comes after.
ApprovalToldIsTrue == \A p \in told : accounts[p].status = "approved"

\* A sign-on attempt that was begun once is completed at most once: no two sessions come from
\* one state, whoever sends the callback twice.
SignOnCompletesOnce ==
  \A s, t \in sessions : s.state # 0 /\ s.state = t.state => s.id = t.id

=============================================================================
