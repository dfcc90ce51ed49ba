------------------------------- MODULE Accounts -------------------------------
(***************************************************************************)
(* Login accounts, sessions and the second factor (api/main.py: auth_login,*)
(* api/security.py, api/users.py, api/impersonation.py, core/auth.py,      *)
(* core/login_security.py, core/mfa_security.py).                          *)
(*                                                                         *)
(* A session is a signed token that names the account and its session      *)
(* version as they were read when it was issued; nothing is stored for it, *)
(* so every request compares it with the account as it is then.  A request *)
(* is one step here (overlapping ones: see the README).  A password or an  *)
(* authenticator secret is the session version it came with, a set of ten  *)
(* recovery codes one code.  Privileged accounts must have a second factor *)
(* (STAFF_PAYROLL_REQUIRE_PRIVILEGED_MFA, as in production).               *)
(***************************************************************************)
EXTENDS Naturals, FiniteSets

CONSTANTS
  Users,          \* rows of app_users; one login name each, one address
  Admin,          \* the account there is at first, an owner with a second factor
  Employees,      \* employee records, all active
  Nobody,         \* no employee record, or no owner viewing
  FailureLimit,   \* STAFF_PAYROLL_LOGIN_FAILURE_LIMIT
  LockTime(_),    \* 60 * 2^exponent, at most 3600, in clock ticks
  SessionTime,    \* SESSION_TTL_SECONDS, in clock ticks
  ViewTime,       \* IMPERSONATION_TTL_SECONDS, in clock ticks (0: less than one)
  Roles,          \* bound: roles that accounts are given, of "owner", "payroll", "supervisor", "staff"
  MaxTime,        \* bound: clock ticks
  Forgetful,      \* bound: the accounts whose logins may fail
  MaxFailures,    \* bound: failed logins since the last success, and security changes
  MaxChanges,     \* bound: security changes of all accounts
  MaxCodes,       \* bound: recovery codes ever handed out
  MaxTokens       \* bound: tokens kept at a time

ASSUME AccountsAssumption ==
  /\ Admin \in Users
  /\ Nobody \notin Users \cup Employees
  /\ FailureLimit \in Nat /\ FailureLimit >= 3
  /\ ViewTime <= SessionTime
ASSUME BoundsAssumption ==
  /\ IsFiniteSet(Users) /\ MaxChanges \in Nat /\ MaxFailures \in Nat
  /\ \A n \in 0..MaxFailures : LockTime(n) \in Nat

VARIABLES
  account,    \* the rows of app_users and mfa_pending_enrollments
  attempts,   \* the rows of login_attempts
  now,        \* the clock
  tokens,     \* session tokens that clients hold
  codes,      \* number of recovery codes handed out
  spent,      \* history: the codes that were used
  failed      \* history: failures since the last login, and when the last was

vars == <<account, attempts, now, tokens, codes, spent, failed>>

None == 0

Absent == [role |-> "staff", active |-> FALSE, password |-> None, secret |-> None, pending |-> FALSE,
           codes |-> {}, version |-> 0, employee |-> Nobody]
Exists(u) == account[u].version > 0

Init ==
  /\ account = [u \in Users |->
       IF u = Admin THEN [Absent EXCEPT !.role = "owner", !.active = TRUE, !.password = 1,
                                        !.secret = 1, !.codes = {1}, !.version = 1]
                    ELSE Absent]
  /\ attempts = [u \in Users |-> [count |-> 0, until |-> 0]]
  /\ now = 0
  /\ tokens = {}
  /\ codes = 1
  /\ spent = {}
  /\ failed = [u \in Users |-> [count |-> 0, last |-> 0]]

-----------------------------------------------------------------------------
(* Sessions. *)

(* What a session rests on, besides the version that stands for it. *)
Grounds(u) ==
  [role |-> account[u].role, active |-> account[u].active,
   password |-> account[u].password, secret |-> account[u].secret]

Token(u, by, time) ==
  [user |-> u, version |-> account[u].version, grounds |-> Grounds(u), until |-> now + time, by |-> by,
   byVersion |-> IF by = Nobody THEN 0 ELSE account[by].version,
   byGrounds |-> IF by = Nobody THEN Grounds(u) ELSE Grounds(by)]

Accepts(u, version) == account[u].active /\ account[u].version = version

(* verify_token, session_users_from_payload. *)
Valid_TrustsTheView(t) ==
  /\ now <= t.until
  /\ Accepts(t.user, t.version)
  /\ t.by # Nobody => account[t.by].active /\ account[t.by].role = "owner"
Valid(t) ==
  /\ now <= t.until
  /\ Accepts(t.user, t.version)
  /\ t.by # Nobody => Accepts(t.by, t.byVersion) /\ t.by # t.user /\ account[t.by].role = "owner"

SetupRequired(u) == account[u].role \in {"owner", "payroll"} /\ account[u].secret = None
Owner(t) == Valid(t) /\ account[t.user].role = "owner"
(* require_owner of api/users.py. *)
Administers(t) == Owner(t) /\ (t.by # Nobody \/ ~SetupRequired(t.user))

Changes == {c \in Users \X (1..MaxChanges) : c[2] < account[c[1]].version}

(* The bounds together. *)
MayChange == Cardinality(Changes) < MaxChanges
MayHappen == \A u \in Users : failed[u].count + Cardinality(Changes) < MaxFailures

Change(u, row) ==
  /\ MayChange /\ MayHappen
  /\ account' = [account EXCEPT ![u] = [row EXCEPT !.version = @ + 1]]
Fresh(u) == account[u].version + 1

-----------------------------------------------------------------------------
(* Signing in. *)

Locked(u) == attempts[u].until > now

(* record_login_failure *)
Fail(u) ==
  LET count == attempts[u].count + 1
      lock == IF count < FailureLimit THEN 0 ELSE LockTime(count - FailureLimit) IN
  attempts' = [attempts EXCEPT ![u] = [count |-> count, until |-> IF lock = 0 THEN 0 ELSE now + lock]]

Remember(u) ==
  /\ u \in Forgetful /\ MayHappen
  /\ failed' = [failed EXCEPT ![u] = [count |-> @.count + 1, last |-> now]]

(* The password is wrong, or the account is not active. *)
WrongPassword(u) ==
  /\ ~Locked(u)
  /\ Fail(u) /\ Remember(u)
  /\ UNCHANGED <<account, now, tokens, codes, spent>>

WrongCode_Forgets(u) ==
  /\ ~Locked(u)
  /\ account[u].active /\ account[u].secret # None
  /\ attempts' = [attempts EXCEPT ![u] = [count |-> 1, until |-> 0]]
  /\ Remember(u)
  /\ UNCHANGED <<account, now, tokens, codes, spent>>

(* The password is right, the code is not: no success, so nothing is forgotten. *)
WrongCode(u) ==
  /\ ~Locked(u)
  /\ account[u].active /\ account[u].secret # None
  /\ Fail(u) /\ Remember(u)
  /\ UNCHANGED <<account, now, tokens, codes, spent>>

Issue(t) == Cardinality(tokens) < MaxTokens /\ tokens' = tokens \cup {t}

Clear(u) ==
  /\ attempts' = [attempts EXCEPT ![u] = [count |-> 0, until |-> 0]]
  /\ failed' = [failed EXCEPT ![u] = [count |-> 0, last |-> 0]]

(* With the authenticator, or without one where none is enabled. *)
Login(u) ==
  /\ ~Locked(u) /\ account[u].active
  /\ Issue(Token(u, Nobody, SessionTime))
  /\ Clear(u)
  /\ UNCHANGED <<account, now, codes, spent>>

(* consume_recovery_code *)
LoginWithCode_KeepsCode(u, code) ==
  /\ ~Locked(u) /\ account[u].active /\ account[u].secret # None
  /\ code \in account[u].codes
  /\ spent' = spent \cup {code}
  /\ Issue(Token(u, Nobody, SessionTime))
  /\ Clear(u)
  /\ UNCHANGED <<account, now, codes>>
LoginWithCode(u, code) ==
  /\ ~Locked(u) /\ account[u].active /\ account[u].secret # None
  /\ code \in account[u].codes
  /\ account' = [account EXCEPT ![u].codes = @ \ {code}]
  /\ spent' = spent \cup {code}
  /\ Issue(Token(u, Nobody, SessionTime))
  /\ Clear(u)
  /\ UNCHANGED <<now, codes>>

(* start_impersonation: the owner of the session t views the account u. *)
StartView(t, u) ==
  /\ Owner(t) /\ t.by = Nobody
  /\ account[u].active /\ account[u].role \in {"supervisor", "staff"}
  /\ account[u].role = "staff" => account[u].employee # Nobody
  /\ Issue(Token(u, t.user, ViewTime))
  /\ UNCHANGED <<account, attempts, now, codes, spent, failed>>

(* A client forgets a token; nothing happens on the server. *)
SignOut(t) ==
  /\ tokens' = tokens \ {t}
  /\ UNCHANGED <<account, attempts, now, codes, spent, failed>>

-----------------------------------------------------------------------------
(* The owner's administration of accounts. *)

Same == UNCHANGED <<attempts, now, tokens, codes, spent, failed>>
ActiveOwners == {u \in Users : account[u].active /\ account[u].role = "owner"}
Linked(e) == {u \in Users : account[u].employee = e}

CreateUser(t, u, role, employee) ==
  /\ Administers(t)
  /\ ~Exists(u)
  /\ employee # Nobody => Linked(employee) = {}
  /\ account' = [account EXCEPT ![u] = [Absent EXCEPT !.role = role, !.active = TRUE, !.password = 1,
                                                      !.version = 1, !.employee = employee]]
  /\ Same

ResetPassword(t, u) ==
  /\ Administers(t) /\ Exists(u)
  /\ Change(u, [account[u] EXCEPT !.password = Fresh(u)])
  /\ Same

SetActive(t, u, active) ==
  /\ Administers(t) /\ Exists(u)
  /\ ~active => u # t.user /\ (account[u].role = "owner" => Cardinality(ActiveOwners) > 1)
  /\ Change(u, [account[u] EXCEPT !.active = active])
  /\ Same

SetRole(t, u, role) ==
  /\ Administers(t) /\ Exists(u)
  /\ role # "owner" => /\ u # t.user
                       /\ u \in ActiveOwners => Cardinality(ActiveOwners) > 1
  /\ Change(u, [account[u] EXCEPT !.role = role])
  /\ Same

(* The link to an employee is no ground of a session. *)
SetEmployee(t, u, employee) ==
  /\ Administers(t) /\ Exists(u)
  /\ employee # Nobody => Linked(employee) \subseteq {u}
  /\ account' = [account EXCEPT ![u].employee = employee]
  /\ Same

Unprotected(row) == [row EXCEPT !.secret = None, !.pending = FALSE, !.codes = {}]

ResetMfa(t, u) ==
  /\ Administers(t) /\ Exists(u)
  /\ Change(u, Unprotected(account[u]))
  /\ Same

(* provision_owner: the account is created or taken back by a script. *)
ProvisionOwner(u) ==
  /\ IF Exists(u)
       THEN Change(u, [account[u] EXCEPT !.role = "owner", !.active = TRUE, !.password = Fresh(u)])
       ELSE account' = [account EXCEPT ![u] = [Absent EXCEPT !.role = "owner", !.active = TRUE,
                                                              !.password = 1, !.version = 1]]
  /\ Same

-----------------------------------------------------------------------------
(* What users do to their own accounts. *)

ChangePassword(t) ==
  /\ Valid(t)
  /\ Change(t.user, [account[t.user] EXCEPT !.password = Fresh(t.user)])
  /\ Same

(* The secret is stored apart until a code of it confirms it. *)
SetupMfa(t) ==
  /\ Valid(t)
  /\ account' = [account EXCEPT ![t.user].pending = TRUE]
  /\ Same

NewCodes == {codes + 1}
HandOut == codes < MaxCodes /\ codes' = codes + 1

ConfirmMfa(t) ==
  LET u == t.user IN
  /\ Valid(t) /\ account[u].pending
  /\ Change(u, [account[u] EXCEPT !.secret = Fresh(u), !.pending = FALSE, !.codes = NewCodes])
  /\ HandOut
  /\ UNCHANGED <<attempts, now, tokens, spent, failed>>

(* "All previous recovery codes are now invalid." *)
RegenerateCodes(t) ==
  /\ Valid(t) /\ account[t.user].secret # None
  /\ account' = [account EXCEPT ![t.user].codes = NewCodes]
  /\ HandOut
  /\ UNCHANGED <<attempts, now, tokens, spent, failed>>

DisableMfa(t) ==
  /\ Valid(t) /\ account[t.user].secret # None
  /\ account[t.user].role \notin {"owner", "payroll"}
  /\ Change(t.user, Unprotected(account[t.user]))
  /\ Same

Tick ==
  /\ now < MaxTime
  /\ now' = now + 1
  /\ UNCHANGED <<account, attempts, tokens, codes, spent, failed>>

-----------------------------------------------------------------------------
SigningIn ==
  \E u \in Users :
    \/ WrongPassword(u) \/ WrongCode(u) \/ Login(u)
    \/ \E code \in account[u].codes : LoginWithCode(u, code)

Administration ==
  \E t \in tokens, u \in Users :
    \/ StartView(t, u)
    \/ \E role \in Roles : SetRole(t, u, role)
    \/ \E role \in Roles, e \in Employees \cup {Nobody} : CreateUser(t, u, role, e)
    \/ \E e \in Employees \cup {Nobody} : SetEmployee(t, u, e)
    \/ \E active \in BOOLEAN : SetActive(t, u, active)
    \/ ResetPassword(t, u) \/ ResetMfa(t, u)

OwnAccount ==
  \E t \in tokens :
    ChangePassword(t) \/ SetupMfa(t) \/ ConfirmMfa(t) \/ RegenerateCodes(t) \/ DisableMfa(t) \/ SignOut(t)

Next ==
  \/ SigningIn
  \/ Administration
  \/ OwnAccount
  \/ \E u \in Users : ProvisionOwner(u)
  \/ Tick

Spec == Init /\ [][Next]_vars

-----------------------------------------------------------------------------
(***************************************************************************)
(* A session that is accepted rests on the account as it was when it was   *)
(* issued: the same role, password and authenticator, of the owner who     *)
(* views another account as well as of the account.  In particular a view  *)
(* never acts with more than the role that could be viewed.                *)
(***************************************************************************)
SessionsFollowTheAccount ==
  \A t \in tokens : Valid(t) =>
    /\ t.grounds = Grounds(t.user)
    /\ t.by # Nobody => t.byGrounds = Grounds(t.by) /\ ~Owner(t)

(***************************************************************************)
(* A recovery code is good for one login and only until the next set of    *)
(* codes: "All previous recovery codes are now invalid" (api/users.py),    *)
(* and so they are when the authenticator is replaced, reset or disabled.  *)
(***************************************************************************)
CodesAreGoodOnce ==
  \A u \in Users : /\ account[u].codes \cap spent = {}
                   /\ Cardinality(account[u].codes) <= 1
                   /\ account[u].secret = None => account[u].codes = {}

(***************************************************************************)
(* A login is judged only after the wait that all failures since the last  *)
(* success call for, whichever of the two factors failed.                  *)
(***************************************************************************)
BackoffIsWaited ==
  [][\A u \in Users :
       failed'[u] # failed[u] /\ failed[u].count >= FailureLimit =>
         now >= failed[u].last + LockTime(failed[u].count - FailureLimit)]_vars
=============================================================================
