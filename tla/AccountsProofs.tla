---------------------------- MODULE AccountsProofs ----------------------------
(***************************************************************************)
(* Proofs about Accounts.                                                  *)
(***************************************************************************)
EXTENDS Accounts, FiniteSetTheorems, TLAPS

(***************************************************************************)
(* The rows of app_users.                                                  *)
(***************************************************************************)
Row == [role : Roles \cup {"owner", "staff"}, active : BOOLEAN, password : Nat, secret : Nat,
        pending : BOOLEAN, codes : SUBSET Nat, version : Nat, employee : Employees \cup {Nobody}]
RowsOK == account \in [Users -> Row] /\ codes \in Nat

(***************************************************************************)
(* What every step does to the rows: a ground of a session changes only    *)
(* together with the session version, which never goes back.               *)
(***************************************************************************)
Advances(old, new) ==
  /\ new.version >= old.version
  /\ new.version = old.version =>
       /\ new.role = old.role /\ new.active = old.active
       /\ new.password = old.password /\ new.secret = old.secret
RowsAdvance == \A u \in Users : Advances(account[u], account'[u])

LEMMA ChangeAdvances ==
  ASSUME RowsOK, NEW u \in Users, NEW row \in Row, row.version = account[u].version, Change(u, row)
  PROVE  account' \in [Users -> Row] /\ RowsAdvance
<1>1. [row EXCEPT !.version = @ + 1] \in Row
  BY DEF Row
<1>2. [row EXCEPT !.version = @ + 1].version = account[u].version + 1
  BY DEF Row
<1>3. \A v \in Users : account[v].version \in Nat
  BY DEF RowsOK, Row
<1> QED BY <1>1, <1>2, <1>3 DEF Change, RowsOK, RowsAdvance, Advances

LEMMA EditAdvances ==
  ASSUME RowsOK, NEW u \in Users, NEW row \in Row, account' = [account EXCEPT ![u] = row],
         Advances(account[u], row)
  PROVE  account' \in [Users -> Row] /\ RowsAdvance
<1>1. \A v \in Users : account[v].version \in Nat
  BY DEF RowsOK, Row
<1> QED BY <1>1 DEF RowsOK, RowsAdvance, Advances

LEMMA AbsentIsRow ==
  ASSUME NEW role \in Roles \cup {"owner", "staff"}, NEW e \in Employees \cup {Nobody}
  PROVE  [Absent EXCEPT !.role = role, !.active = TRUE, !.password = 1, !.version = 1, !.employee = e] \in Row
BY DEF Absent, Row, None

(***************************************************************************)
(* Sessions: what a token says of an account was true at its version, and  *)
(* a view is of an account that may be viewed.                             *)
(***************************************************************************)
TokenOK(t) ==
  /\ t.user \in Users
  /\ t.version \in Nat /\ t.version <= account[t.user].version
  /\ t.version = account[t.user].version => t.grounds = Grounds(t.user)
  /\ t.by # Nobody =>
       /\ t.by \in Users
       /\ t.byVersion \in Nat /\ t.byVersion <= account[t.by].version
       /\ t.byVersion = account[t.by].version => t.byGrounds = Grounds(t.by)
       /\ t.grounds.role # "owner"
SessionInv == RowsOK /\ \A t \in tokens : TokenOK(t)

LEMMA SessionsFollow ==
  SessionInv => SessionsFollowTheAccount
<1> SUFFICES ASSUME SessionInv, NEW t \in tokens, Valid(t)
             PROVE  /\ t.grounds = Grounds(t.user)
                    /\ t.by # Nobody => t.byGrounds = Grounds(t.by) /\ ~Owner(t)
  BY DEF SessionsFollowTheAccount
<1>1. TokenOK(t)
  BY DEF SessionInv
<1>2. t.grounds = Grounds(t.user)
  BY <1>1 DEF TokenOK, Valid, Accepts
<1>3. ASSUME t.by # Nobody PROVE t.byGrounds = Grounds(t.by) /\ ~Owner(t)
  <2>1. t.byGrounds = Grounds(t.by)
    BY <1>1, <1>3 DEF TokenOK, Valid, Accepts
  <2>2. t.grounds.role = account[t.user].role
    BY <1>2 DEF Grounds
  <2> QED BY <1>1, <1>3, <2>1, <2>2 DEF TokenOK, Owner
<1> QED BY <1>2, <1>3

LEMMA TokensStay ==
  ASSUME SessionInv, account' \in [Users -> Row], RowsAdvance, NEW t \in tokens
  PROVE  TokenOK(t)'
<1>1. TokenOK(t)
  BY DEF SessionInv
<1>2. \A u \in Users : account[u].version \in Nat /\ account'[u].version \in Nat
  BY DEF SessionInv, RowsOK, Row
<1>3. \A u \in Users : Grounds(u)' = [role |-> account'[u].role, active |-> account'[u].active,
                                     password |-> account'[u].password, secret |-> account'[u].secret]
  BY DEF Grounds
<1>4. \A u \in Users : account'[u].version = account[u].version => Grounds(u)' = Grounds(u)
  BY <1>3 DEF RowsAdvance, Advances, Grounds
<1>5. t.user \in Users /\ t.version \in Nat /\ t.version <= account'[t.user].version
  BY <1>1, <1>2 DEF TokenOK, RowsAdvance, Advances
<1>6. t.version = account'[t.user].version => t.grounds = Grounds(t.user)'
  BY <1>1, <1>2, <1>4 DEF TokenOK, RowsAdvance, Advances
<1>7. ASSUME t.by # Nobody
      PROVE  /\ t.by \in Users
             /\ t.byVersion \in Nat /\ t.byVersion <= account'[t.by].version
             /\ t.byVersion = account'[t.by].version => t.byGrounds = Grounds(t.by)'
             /\ t.grounds.role # "owner"
  BY <1>1, <1>2, <1>4, <1>7 DEF TokenOK, RowsAdvance, Advances
<1> QED BY <1>5, <1>6, <1>7 DEF TokenOK

(***************************************************************************)
(* The steps on the rows, one by one.                                      *)
(***************************************************************************)
LEMMA AdministrationAdvances ==
  ASSUME SessionInv, NEW t \in tokens, NEW u \in Users,
         \/ \E role \in Roles : SetRole(t, u, role)
         \/ \E role \in Roles, e \in Employees \cup {Nobody} : CreateUser(t, u, role, e)
         \/ \E e \in Employees \cup {Nobody} : SetEmployee(t, u, e)
         \/ \E active \in BOOLEAN : SetActive(t, u, active)
         \/ ResetPassword(t, u) \/ ResetMfa(t, u)
  PROVE  account' \in [Users -> Row] /\ RowsAdvance
<1> USE DEF SessionInv
<1>1. account[u] \in Row /\ account[u].version \in Nat
  BY DEF RowsOK, Row
<1>2. ASSUME NEW role \in Roles, SetRole(t, u, role) PROVE account' \in [Users -> Row] /\ RowsAdvance
  <2>1. [account[u] EXCEPT !.role = role] \in Row BY <1>1 DEF Row
  <2> QED BY <1>1, <1>2, <2>1, ChangeAdvances DEF SetRole, Row
<1>3. ASSUME NEW role \in Roles, NEW e \in Employees \cup {Nobody}, CreateUser(t, u, role, e)
      PROVE account' \in [Users -> Row] /\ RowsAdvance
  <2> DEFINE new == [Absent EXCEPT !.role = role, !.active = TRUE, !.password = 1, !.version = 1, !.employee = e]
  <2>1. new \in Row BY AbsentIsRow
  <2>2. new.version = 1 BY DEF Absent
  <2>6. ~Exists(u) BY <1>3 DEF CreateUser
  <2>3. account[u].version = 0 BY <1>1, <2>6 DEF Exists
  <2>4. Advances(account[u], new) BY <2>2, <2>3 DEF Advances
  <2>5. account' = [account EXCEPT ![u] = new] BY <1>3 DEF CreateUser, Absent
  <2> HIDE DEF new
  <2> QED BY <2>1, <2>4, <2>5, EditAdvances
<1>4. ASSUME NEW e \in Employees \cup {Nobody}, SetEmployee(t, u, e)
      PROVE account' \in [Users -> Row] /\ RowsAdvance
  <2> DEFINE new == [account[u] EXCEPT !.employee = e]
  <2>1. new \in Row BY <1>1 DEF Row
  <2>2. Advances(account[u], new) BY <1>1 DEF Row, Advances
  <2>3. account' = [account EXCEPT ![u] = new] BY <1>4 DEF SetEmployee
  <2> HIDE DEF new
  <2> QED BY <2>1, <2>2, <2>3, EditAdvances
<1>5. ASSUME NEW active \in BOOLEAN, SetActive(t, u, active) PROVE account' \in [Users -> Row] /\ RowsAdvance
  <2>1. [account[u] EXCEPT !.active = active] \in Row BY <1>1 DEF Row
  <2> QED BY <1>1, <1>5, <2>1, ChangeAdvances DEF SetActive, Row
<1>6. CASE ResetPassword(t, u)
  <2>1. [account[u] EXCEPT !.password = Fresh(u)] \in Row BY <1>1 DEF Row, Fresh
  <2> QED BY <1>1, <1>6, <2>1, ChangeAdvances DEF ResetPassword, Row
<1>7. CASE ResetMfa(t, u)
  <2>1. Unprotected(account[u]) \in Row BY <1>1 DEF Row, Unprotected, None
  <2>2. Unprotected(account[u]).version = account[u].version BY <1>1 DEF Row, Unprotected
  <2> QED BY <1>7, <2>1, <2>2, ChangeAdvances DEF ResetMfa
<1> QED BY <1>2, <1>3, <1>4, <1>5, <1>6, <1>7

LEMMA OwnAccountAdvances ==
  ASSUME SessionInv, NEW t \in tokens,
         \/ ChangePassword(t) \/ SetupMfa(t) \/ ConfirmMfa(t) \/ RegenerateCodes(t) \/ DisableMfa(t)
  PROVE  account' \in [Users -> Row] /\ RowsAdvance
<1> DEFINE u == t.user
<1>1. u \in Users
  BY DEF SessionInv, TokenOK
<1>2. account[u] \in Row /\ account[u].version \in Nat
  BY <1>1 DEF SessionInv, RowsOK, Row
<1>8. Fresh(u) \in Nat /\ NewCodes \in SUBSET Nat
  BY <1>2 DEF SessionInv, RowsOK, Fresh, NewCodes
<1> USE DEF SessionInv
<1>3. CASE ChangePassword(t)
  <2>1. [account[u] EXCEPT !.password = Fresh(u)] \in Row BY <1>2 DEF Row, Fresh
  <2> QED BY <1>1, <1>2, <1>3, <2>1, ChangeAdvances DEF ChangePassword, Row
<1>4. CASE SetupMfa(t)
  <2> DEFINE new == [account[u] EXCEPT !.pending = TRUE]
  <2>1. new \in Row BY <1>2 DEF Row
  <2>3. Advances(account[u], new) BY <1>2 DEF Row, Advances
  <2>2. account' = [account EXCEPT ![u] = new] BY <1>4 DEF SetupMfa
  <2> HIDE DEF new, u
  <2> QED BY <1>1, <2>1, <2>2, <2>3, EditAdvances
<1>5. CASE ConfirmMfa(t)
  <2>1. [account[u] EXCEPT !.secret = Fresh(u), !.pending = FALSE, !.codes = NewCodes] \in Row
    BY <1>2, <1>8 DEF Row
  <2> QED BY <1>1, <1>2, <1>5, <2>1, ChangeAdvances DEF ConfirmMfa, Row
<1>6. CASE RegenerateCodes(t)
  <2> DEFINE new == [account[u] EXCEPT !.codes = NewCodes]
  <2>1. new \in Row BY <1>2, <1>8 DEF Row
  <2>3. Advances(account[u], new) BY <1>2 DEF Row, Advances
  <2>2. account' = [account EXCEPT ![u] = new] BY <1>6 DEF RegenerateCodes
  <2> HIDE DEF new, u
  <2> QED BY <1>1, <2>1, <2>2, <2>3, EditAdvances
<1>7. CASE DisableMfa(t)
  <2>1. Unprotected(account[u]) \in Row BY <1>2 DEF Row, Unprotected, None
  <2>2. Unprotected(account[u]).version = account[u].version BY <1>2 DEF Row, Unprotected
  <2> QED BY <1>1, <1>7, <2>1, <2>2, ChangeAdvances DEF DisableMfa
<1> QED BY <1>3, <1>4, <1>5, <1>6, <1>7

LEMMA ProvisionAdvances ==
  ASSUME RowsOK, NEW u \in Users, ProvisionOwner(u)
  PROVE  account' \in [Users -> Row] /\ RowsAdvance
<1>1. account[u] \in Row /\ account[u].version \in Nat
  BY DEF RowsOK, Row
<1>2. CASE Exists(u)
  <2>2. Fresh(u) \in Nat BY <1>1 DEF Fresh
  <2>1. [account[u] EXCEPT !.role = "owner", !.active = TRUE, !.password = Fresh(u)] \in Row
    BY <1>1, <2>2 DEF Row
  <2> QED BY <1>1, <1>2, <2>1, ChangeAdvances DEF ProvisionOwner, Row
<1>3. CASE ~Exists(u)
  <2> DEFINE new == [Absent EXCEPT !.role = "owner", !.active = TRUE, !.password = 1, !.version = 1]
  <2>1. new \in Row BY DEF Absent, Row, None
  <2>2. new.version = 1 BY DEF Absent
  <2>3. account[u].version = 0 BY <1>1, <1>3 DEF Exists
  <2>4. Advances(account[u], new) BY <2>2, <2>3 DEF Advances
  <2>5. account' = [account EXCEPT ![u] = new] BY <1>3 DEF ProvisionOwner
  <2> HIDE DEF new
  <2> QED BY <2>1, <2>4, <2>5, EditAdvances
<1> QED BY <1>2, <1>3

LEMMA CodeAdvances ==
  ASSUME RowsOK, NEW u \in Users, NEW code \in account[u].codes, LoginWithCode(u, code)
  PROVE  account' \in [Users -> Row] /\ RowsAdvance
<1> DEFINE new == [account[u] EXCEPT !.codes = @ \ {code}]
<1>1. account[u] \in Row /\ account[u].version \in Nat
  BY DEF RowsOK, Row
<1>2. new \in Row /\ Advances(account[u], new)
  BY <1>1 DEF Row, Advances
<1>3. account' = [account EXCEPT ![u] = new]
  BY DEF LoginWithCode
<1> HIDE DEF new
<1> QED BY <1>2, <1>3, EditAdvances

LEMMA SameAdvances ==
  ASSUME RowsOK, account' = account
  PROVE  account' \in [Users -> Row] /\ RowsAdvance
<1>1. \A u \in Users : account[u].version \in Nat
  BY DEF RowsOK, Row
<1> QED BY <1>1 DEF RowsOK, RowsAdvance, Advances


(***************************************************************************)
(* A token that is issued now is right about the account.                  *)
(***************************************************************************)
LEMMA IssuedIsOK ==
  ASSUME SessionInv, account' \in [Users -> Row], NEW u \in Users, NEW by \in Users \cup {Nobody}, NEW time,
         \A v \in Users : Grounds(v)' = Grounds(v) /\ account'[v].version = account[v].version,
         by # Nobody => account[u].role # "owner", NEW t, t = Token(u, by, time)
  PROVE  TokenOK(t)'
<1>1. account[u].version \in Nat /\ (by # Nobody => by \in Users /\ account[by].version \in Nat)
  BY DEF SessionInv, RowsOK, Row
<1>2. /\ t.user = u /\ t.by = by /\ t.version = account[u].version /\ t.grounds = Grounds(u)
      /\ by # Nobody => t.byVersion = account[by].version /\ t.byGrounds = Grounds(by)
  BY DEF Token
<1>3. Grounds(u).role = account[u].role
  BY DEF Grounds
<1> QED BY <1>1, <1>2, <1>3 DEF TokenOK

LEMMA SameTokens ==
  ASSUME SessionInv, account' \in [Users -> Row], RowsAdvance, tokens' \subseteq tokens, codes' \in Nat
  PROVE  SessionInv'
<1>1. \A t \in tokens' : TokenOK(t)'
  BY TokensStay
<1> QED BY <1>1 DEF SessionInv, RowsOK

LEMMA MoreTokens ==
  ASSUME SessionInv, account' \in [Users -> Row], RowsAdvance, codes' = codes,
         NEW u \in Users, NEW by \in Users \cup {Nobody}, NEW time, Issue(Token(u, by, time)),
         \A v \in Users : Grounds(v)' = Grounds(v) /\ account'[v].version = account[v].version,
         by # Nobody => account[u].role # "owner"
  PROVE  SessionInv'
<1> PICK t : t = Token(u, by, time)
  OBVIOUS
<1>1. TokenOK(t)'
  BY IssuedIsOK
<1>2. \A s \in tokens : TokenOK(s)'
  BY TokensStay
<1>3. tokens' = tokens \cup {t}
  BY DEF Issue
<1> QED BY <1>1, <1>2, <1>3 DEF SessionInv, RowsOK

LEMMA SigningInKeepsSessions ==
  ASSUME SessionInv, SigningIn
  PROVE  SessionInv'
<1> PICK u \in Users : \/ WrongPassword(u) \/ WrongCode(u) \/ Login(u)
                      \/ \E code \in account[u].codes : LoginWithCode(u, code)
  BY DEF SigningIn
<1> USE DEF SessionInv
<1>1. CASE WrongPassword(u) \/ WrongCode(u)
  BY <1>1, SameAdvances, SameTokens DEF WrongPassword, WrongCode, RowsOK
<1>2. CASE Login(u)
  <2>1. account' = account /\ codes' = codes /\ Issue(Token(u, Nobody, SessionTime))
    BY <1>2 DEF Login
  <2>2. \A v \in Users : Grounds(v)' = Grounds(v)
    BY <2>1 DEF Grounds
  <2> QED BY <2>1, <2>2, SameAdvances, MoreTokens
<1>3. ASSUME NEW code \in account[u].codes, LoginWithCode(u, code)
      PROVE  SessionInv'
  <2>1. codes' = codes /\ Issue(Token(u, Nobody, SessionTime))
    BY <1>3 DEF LoginWithCode
  <2>2. account' \in [Users -> Row] /\ RowsAdvance
    BY <1>3, CodeAdvances
  <2>3. account' = [account EXCEPT ![u].codes = @ \ {code}]
    BY <1>3 DEF LoginWithCode
  <2>4. \A v \in Users : /\ account'[v].role = account[v].role /\ account'[v].active = account[v].active
                         /\ account'[v].password = account[v].password /\ account'[v].secret = account[v].secret
                         /\ account'[v].version = account[v].version
    BY <2>3 DEF RowsOK, Row
  <2>5. \A v \in Users : Grounds(v)' = Grounds(v)
    BY <2>4 DEF Grounds
  <2> QED BY <2>1, <2>2, <2>4, <2>5, MoreTokens
<1> QED BY <1>1, <1>2, <1>3

LEMMA ViewKeepsSessions ==
  ASSUME SessionInv, NEW t \in tokens, NEW u \in Users, StartView(t, u)
  PROVE  SessionInv'
<1>1. t.user \in Users
  BY DEF SessionInv, TokenOK
<1>2. account' = account /\ codes' = codes /\ Issue(Token(u, t.user, ViewTime)) /\ account[u].role # "owner"
  BY DEF StartView
<1>3. \A v \in Users : Grounds(v)' = Grounds(v)
  BY <1>2 DEF Grounds
<1> QED BY <1>1, <1>2, <1>3, SameAdvances, MoreTokens DEF SessionInv

LEMMA SessionStep ==
  SessionInv /\ [Next]_vars => SessionInv'
<1> SUFFICES ASSUME SessionInv, [Next]_vars PROVE SessionInv'
  OBVIOUS
<1> USE DEF SessionInv, RowsOK
<1>1. CASE SigningIn
  BY <1>1, SigningInKeepsSessions
<1>2. CASE Administration
  <2> PICK t \in tokens, u \in Users :
        \/ StartView(t, u)
        \/ \E role \in Roles : SetRole(t, u, role)
        \/ \E role \in Roles, e \in Employees \cup {Nobody} : CreateUser(t, u, role, e)
        \/ \E e \in Employees \cup {Nobody} : SetEmployee(t, u, e)
        \/ \E active \in BOOLEAN : SetActive(t, u, active)
        \/ ResetPassword(t, u) \/ ResetMfa(t, u)
    BY <1>2 DEF Administration
  <2>1. CASE StartView(t, u)
    BY <2>1, ViewKeepsSessions
  <2>2. CASE ~StartView(t, u)
    <3>1. Same
      BY <2>2 DEF SetRole, CreateUser, SetEmployee, SetActive, ResetPassword, ResetMfa
    <3>2. account' \in [Users -> Row] /\ RowsAdvance
      BY <2>2, AdministrationAdvances
    <3> QED BY <3>1, <3>2, SameTokens DEF Same
  <2> QED BY <2>1, <2>2
<1>3. CASE OwnAccount
  <2> PICK t \in tokens :
        ChangePassword(t) \/ SetupMfa(t) \/ ConfirmMfa(t) \/ RegenerateCodes(t) \/ DisableMfa(t) \/ SignOut(t)
    BY <1>3 DEF OwnAccount
  <2>1. CASE SignOut(t)
    BY <2>1, SameAdvances, SameTokens DEF SignOut
  <2>2. CASE ~SignOut(t)
    <3>1. tokens' = tokens /\ codes' \in Nat
      BY <2>2 DEF ChangePassword, SetupMfa, ConfirmMfa, RegenerateCodes, DisableMfa, Same, HandOut
    <3>2. account' \in [Users -> Row] /\ RowsAdvance
      BY <2>2, OwnAccountAdvances
    <3> QED BY <3>1, <3>2, SameTokens
  <2> QED BY <2>1, <2>2
<1>4. ASSUME NEW u \in Users, ProvisionOwner(u)
      PROVE  SessionInv'
  <2>1. account' \in [Users -> Row] /\ RowsAdvance
    BY <1>4, ProvisionAdvances
  <2> QED BY <1>4, <2>1, SameTokens DEF ProvisionOwner, Same
<1>5. CASE Tick
  BY <1>5, SameAdvances, SameTokens DEF Tick
<1>6. CASE UNCHANGED vars
  BY <1>6, SameAdvances, SameTokens DEF vars
<1> QED BY <1>1, <1>2, <1>3, <1>4, <1>5, <1>6 DEF Next

LEMMA SessionStart ==
  Init => SessionInv
<1> SUFFICES ASSUME Init PROVE SessionInv
  OBVIOUS
<1> DEFINE admin == [Absent EXCEPT !.role = "owner", !.active = TRUE, !.password = 1,
                                   !.secret = 1, !.codes = {1}, !.version = 1]
<1>1. Absent \in Row
  BY DEF Absent, Row, None
<1>3. admin \in Row
  <2>1. {1} \in SUBSET Nat OBVIOUS
  <2> QED BY <1>1, <2>1 DEF Row
<1>2. account = [u \in Users |-> IF u = Admin THEN admin ELSE Absent]
  BY DEF Init
<1> HIDE DEF admin
<1> QED BY <1>1, <1>2, <1>3 DEF Init, SessionInv, RowsOK

(***************************************************************************)
(* Accepted sessions rest on the account as it is (security.py): a change  *)
(* of role, password, authenticator or status ends what was issued before. *)
(***************************************************************************)
THEOREM SessionsAreCurrent == Spec => []SessionsFollowTheAccount
<1>1. Spec => []SessionInv
  BY SessionStart, SessionStep, PTL DEF Spec
<1> QED BY <1>1, SessionsFollow, PTL

(***************************************************************************)
(* Recovery codes: each was handed out, to one account, and is not spent.  *)
(***************************************************************************)
CodeInv ==
  /\ spent \subseteq 1..codes
  /\ \A u \in Users :
       /\ account[u].codes \subseteq 1..codes
       /\ account[u].codes \cap spent = {}
       /\ \A c, d \in account[u].codes : c = d
       /\ account[u].secret = None => account[u].codes = {}
       /\ \A v \in Users \ {u} : account[u].codes \cap account[v].codes = {}

LEMMA CodesOnce ==
  CodeInv => CodesAreGoodOnce
<1> SUFFICES ASSUME CodeInv, NEW u \in Users PROVE Cardinality(account[u].codes) <= 1
  BY DEF CodeInv, CodesAreGoodOnce
<1>1. CASE account[u].codes = {}
  BY <1>1, FS_EmptySet
<1>2. ASSUME NEW c \in account[u].codes PROVE Cardinality(account[u].codes) <= 1
  <2>1. account[u].codes = {c}
    BY DEF CodeInv
  <2>2. Cardinality({c}) = 1
    BY FS_Singleton
  <2> QED BY <2>1, <2>2
<1> QED BY <1>1, <1>2

(***************************************************************************)
(* What a step does to the codes: takes some away, replaces those of one   *)
(* account, or spends one.                                                 *)
(***************************************************************************)
CodesKept ==
  /\ codes' = codes /\ spent' = spent
  /\ \A u \in Users : /\ account'[u].codes \subseteq account[u].codes
                      /\ account'[u].secret = None => account'[u].codes = {}
CodesRenewed(u) ==
  /\ codes' = codes + 1 /\ spent' = spent
  /\ account'[u].codes = {codes + 1} /\ account'[u].secret # None
  /\ \A v \in Users \ {u} : account'[v] = account[v]
CodeSpent(u, code) ==
  /\ codes' = codes /\ spent' = spent \cup {code} /\ code \in account[u].codes
  /\ account'[u].codes = account[u].codes \ {code} /\ account'[u].secret = account[u].secret
  /\ \A v \in Users \ {u} : account'[v] = account[v]

LEMMA KeptKeepsCodes ==
  ASSUME CodeInv, CodesKept
  PROVE  CodeInv'
BY DEF CodeInv, CodesKept

LEMMA RenewedKeepsCodes ==
  ASSUME RowsOK, CodeInv, NEW u \in Users, CodesRenewed(u)
  PROVE  CodeInv'
<1>1. codes \in Nat
  BY DEF RowsOK
<1>2. codes + 1 \notin 1..codes /\ 1..codes \subseteq 1..(codes + 1) /\ codes + 1 \in 1..(codes + 1)
  BY <1>1
<1>3. spent' \subseteq 1..codes'
  BY <1>2 DEF CodeInv, CodesRenewed
<1>4. ASSUME NEW v \in Users
      PROVE  /\ account'[v].codes \subseteq 1..codes'
             /\ account'[v].codes \cap spent' = {}
             /\ \A c, d \in account'[v].codes : c = d
             /\ account'[v].secret = None => account'[v].codes = {}
  BY <1>2 DEF CodeInv, CodesRenewed
<1>5. ASSUME NEW v \in Users, NEW w \in Users \ {v}
      PROVE  account'[v].codes \cap account'[w].codes = {}
  BY <1>2 DEF CodeInv, CodesRenewed
<1> QED BY <1>3, <1>4, <1>5 DEF CodeInv

LEMMA SpentKeepsCodes ==
  ASSUME CodeInv, NEW u \in Users, NEW code, CodeSpent(u, code)
  PROVE  CodeInv'
<1>1. code \in 1..codes
  BY DEF CodeInv, CodeSpent
<1>2. spent' \subseteq 1..codes'
  BY <1>1 DEF CodeInv, CodeSpent
<1>3. ASSUME NEW v \in Users
      PROVE  /\ account'[v].codes \subseteq 1..codes'
             /\ account'[v].codes \cap spent' = {}
             /\ \A c, d \in account'[v].codes : c = d
             /\ account'[v].secret = None => account'[v].codes = {}
  BY DEF CodeInv, CodeSpent
<1>4. ASSUME NEW v \in Users, NEW w \in Users \ {v}
      PROVE  account'[v].codes \cap account'[w].codes = {}
  BY DEF CodeInv, CodeSpent
<1> QED BY <1>2, <1>3, <1>4 DEF CodeInv

(***************************************************************************)
(* Changes of a row that keep its codes, or drop them.                     *)
(***************************************************************************)
RowKeepsCodes(old, new) ==
  \/ new.codes = old.codes /\ new.secret = old.secret
  \/ new.codes = {}

LEMMA EditKeepsCodes ==
  ASSUME RowsOK, CodeInv, NEW u \in Users, NEW row \in Row, RowKeepsCodes(account[u], row),
         \/ account' = [account EXCEPT ![u] = row]
         \/ Change(u, row),
         codes' = codes, spent' = spent
  PROVE  CodesKept
<1>1. account'[u].codes = row.codes /\ account'[u].secret = row.secret
  BY DEF RowsOK, Change, Row
<1>2. \A v \in Users \ {u} : account'[v] = account[v]
  BY DEF RowsOK, Change
<1> QED BY <1>1, <1>2 DEF CodesKept, CodeInv, RowKeepsCodes

LEMMA SameKeepsCodes ==
  ASSUME CodeInv, account' = account, codes' = codes, spent' = spent
  PROVE  CodeInv'
BY DEF CodeInv

LEMMA AdministrationKeepsCodes ==
  ASSUME SessionInv, CodeInv, Administration
  PROVE  CodeInv'
<1> USE DEF SessionInv
<1> PICK t \in tokens, u \in Users :
      \/ StartView(t, u)
      \/ \E role \in Roles : SetRole(t, u, role)
      \/ \E role \in Roles, e \in Employees \cup {Nobody} : CreateUser(t, u, role, e)
      \/ \E e \in Employees \cup {Nobody} : SetEmployee(t, u, e)
      \/ \E active \in BOOLEAN : SetActive(t, u, active)
      \/ ResetPassword(t, u) \/ ResetMfa(t, u)
  BY DEF Administration
<1>0. account[u] \in Row /\ Fresh(u) \in Nat
  BY DEF RowsOK, Row, Fresh
<1>1. CASE StartView(t, u)
  BY <1>1, SameKeepsCodes DEF StartView
<1>2. ASSUME NEW role \in Roles, SetRole(t, u, role) PROVE CodesKept
  <2> DEFINE new == [account[u] EXCEPT !.role = role]
  <2>1. new \in Row /\ RowKeepsCodes(account[u], new) BY <1>0 DEF Row, RowKeepsCodes
  <2> QED BY <1>2, <2>1, EditKeepsCodes DEF SetRole, Same
<1>3. ASSUME NEW role \in Roles, NEW e \in Employees \cup {Nobody}, CreateUser(t, u, role, e) PROVE CodesKept
  <2> DEFINE new == [Absent EXCEPT !.role = role, !.active = TRUE, !.password = 1, !.version = 1, !.employee = e]
  <2>1. new \in Row BY AbsentIsRow
  <2>2. RowKeepsCodes(account[u], new) BY DEF Absent, RowKeepsCodes
  <2>3. account' = [account EXCEPT ![u] = new] BY <1>3 DEF CreateUser, Absent
  <2>4. codes' = codes /\ spent' = spent BY <1>3 DEF CreateUser, Same
  <2> HIDE DEF new
  <2> QED BY <2>1, <2>2, <2>3, <2>4, EditKeepsCodes
<1>4. ASSUME NEW e \in Employees \cup {Nobody}, SetEmployee(t, u, e) PROVE CodesKept
  <2> DEFINE new == [account[u] EXCEPT !.employee = e]
  <2>1. new \in Row BY <1>0 DEF Row
  <2>2. RowKeepsCodes(account[u], new) BY <1>0 DEF Row, RowKeepsCodes
  <2>3. account' = [account EXCEPT ![u] = new] BY <1>4 DEF SetEmployee
  <2>4. codes' = codes /\ spent' = spent BY <1>4 DEF SetEmployee, Same
  <2> HIDE DEF new
  <2> QED BY <2>1, <2>2, <2>3, <2>4, EditKeepsCodes
<1>5. ASSUME NEW active \in BOOLEAN, SetActive(t, u, active) PROVE CodesKept
  <2> DEFINE new == [account[u] EXCEPT !.active = active]
  <2>1. new \in Row /\ RowKeepsCodes(account[u], new) BY <1>0 DEF Row, RowKeepsCodes
  <2> QED BY <1>5, <2>1, EditKeepsCodes DEF SetActive, Same
<1>6. CASE ResetPassword(t, u)
  <2> DEFINE new == [account[u] EXCEPT !.password = Fresh(u)]
  <2>1. new \in Row /\ RowKeepsCodes(account[u], new) BY <1>0 DEF Row, RowKeepsCodes
  <2> QED BY <1>6, <2>1, EditKeepsCodes, KeptKeepsCodes DEF ResetPassword, Same
<1>7. CASE ResetMfa(t, u)
  <2>1. Unprotected(account[u]) \in Row /\ RowKeepsCodes(account[u], Unprotected(account[u]))
    BY <1>0 DEF Row, RowKeepsCodes, Unprotected, None
  <2> QED BY <1>7, <2>1, EditKeepsCodes, KeptKeepsCodes DEF ResetMfa, Same
<1> QED BY <1>1, <1>2, <1>3, <1>4, <1>5, <1>6, <1>7, KeptKeepsCodes
LEMMA OwnAccountKeepsCodes ==
  ASSUME SessionInv, CodeInv, OwnAccount
  PROVE  CodeInv'
<1> USE DEF SessionInv
<1> PICK t \in tokens :
      ChangePassword(t) \/ SetupMfa(t) \/ ConfirmMfa(t) \/ RegenerateCodes(t) \/ DisableMfa(t) \/ SignOut(t)
  BY DEF OwnAccount
<1> DEFINE u == t.user
<1>0. u \in Users
  BY DEF TokenOK
<1>9. account[u] \in Row /\ Fresh(u) \in Nat /\ Fresh(u) # None
  BY <1>0 DEF RowsOK, Row, Fresh, None
<1>1. CASE ChangePassword(t)
  <2> DEFINE new == [account[u] EXCEPT !.password = Fresh(u)]
  <2>1. new \in Row /\ RowKeepsCodes(account[u], new) BY <1>9 DEF Row, RowKeepsCodes
  <2> QED BY <1>0, <1>1, <2>1, EditKeepsCodes, KeptKeepsCodes DEF ChangePassword, Same
<1>2. CASE SetupMfa(t)
  <2> DEFINE new == [account[u] EXCEPT !.pending = TRUE]
  <2>1. new \in Row BY <1>9 DEF Row
  <2>2. RowKeepsCodes(account[u], new) BY <1>9 DEF Row, RowKeepsCodes
  <2>3. account' = [account EXCEPT ![u] = new] BY <1>2 DEF SetupMfa
  <2>4. codes' = codes /\ spent' = spent BY <1>2 DEF SetupMfa, Same
  <2> HIDE DEF new, u
  <2> QED BY <1>0, <2>1, <2>2, <2>3, <2>4, EditKeepsCodes, KeptKeepsCodes
<1>3. CASE ConfirmMfa(t)
  <2>1. /\ codes' = codes + 1 /\ spent' = spent
        /\ Change(u, [account[u] EXCEPT !.secret = Fresh(u), !.pending = FALSE, !.codes = NewCodes])
    BY <1>3 DEF ConfirmMfa, HandOut
  <2>2. account'[u].codes = {codes + 1} /\ account'[u].secret = Fresh(u)
    BY <1>0, <1>9, <2>1 DEF Change, NewCodes, RowsOK, Row
  <2>3. \A v \in Users \ {u} : account'[v] = account[v]
    BY <2>1 DEF Change, RowsOK
  <2> HIDE DEF u
  <2> QED BY <1>0, <1>9, <2>1, <2>2, <2>3, RenewedKeepsCodes DEF CodesRenewed
<1>4. CASE RegenerateCodes(t)
  <2>1. /\ codes' = codes + 1 /\ spent' = spent
        /\ account' = [account EXCEPT ![u].codes = NewCodes]
        /\ account[u].secret # None
    BY <1>4 DEF RegenerateCodes, HandOut
  <2>2. account'[u].codes = {codes + 1} /\ account'[u].secret = account[u].secret
    BY <1>0, <1>9, <2>1 DEF NewCodes, RowsOK, Row
  <2>3. \A v \in Users \ {u} : account'[v] = account[v]
    BY <2>1 DEF RowsOK
  <2> HIDE DEF u
  <2> QED BY <1>0, <2>1, <2>2, <2>3, RenewedKeepsCodes DEF CodesRenewed
<1>5. CASE DisableMfa(t)
  <2>1. Unprotected(account[u]) \in Row /\ RowKeepsCodes(account[u], Unprotected(account[u]))
    BY <1>9 DEF Row, RowKeepsCodes, Unprotected, None
  <2> QED BY <1>0, <1>5, <2>1, EditKeepsCodes, KeptKeepsCodes DEF DisableMfa, Same
<1>6. CASE SignOut(t)
  BY <1>6, SameKeepsCodes DEF SignOut
<1> QED BY <1>1, <1>2, <1>3, <1>4, <1>5, <1>6

LEMMA CodeStep ==
  SessionInv /\ CodeInv /\ [Next]_vars => CodeInv'
<1> SUFFICES ASSUME SessionInv, CodeInv, [Next]_vars PROVE CodeInv'
  OBVIOUS
<1> USE DEF SessionInv
<1>1. CASE SigningIn
  <2> PICK u \in Users : \/ WrongPassword(u) \/ WrongCode(u) \/ Login(u)
                        \/ \E code \in account[u].codes : LoginWithCode(u, code)
    BY <1>1 DEF SigningIn
  <2>1. CASE WrongPassword(u) \/ WrongCode(u) \/ Login(u)
    BY <2>1, SameKeepsCodes DEF WrongPassword, WrongCode, Login
  <2>2. ASSUME NEW code \in account[u].codes, LoginWithCode(u, code)
        PROVE  CodeInv'
    <3>1. /\ account' = [account EXCEPT ![u].codes = @ \ {code}]
          /\ codes' = codes /\ spent' = spent \cup {code}
      BY <2>2 DEF LoginWithCode
    <3>2. account'[u].codes = account[u].codes \ {code} /\ account'[u].secret = account[u].secret
      BY <3>1 DEF RowsOK, Row
    <3>3. \A v \in Users \ {u} : account'[v] = account[v]
      BY <3>1 DEF RowsOK
    <3> QED BY <3>1, <3>2, <3>3, SpentKeepsCodes DEF CodeSpent
  <2> QED BY <2>1, <2>2
<1>2. CASE Administration
  BY <1>2, AdministrationKeepsCodes
<1>3. CASE OwnAccount
  BY <1>3, OwnAccountKeepsCodes
<1>4. ASSUME NEW u \in Users, ProvisionOwner(u)
      PROVE  CodeInv'
  <2>1. account[u] \in Row /\ Fresh(u) \in Nat
    BY DEF RowsOK, Row, Fresh
  <2>2. codes' = codes /\ spent' = spent
    BY <1>4 DEF ProvisionOwner, Same
  <2>3. CASE Exists(u)
    <3> DEFINE new == [account[u] EXCEPT !.role = "owner", !.active = TRUE, !.password = Fresh(u)]
    <3>1. new \in Row /\ RowKeepsCodes(account[u], new) BY <2>1 DEF Row, RowKeepsCodes
    <3> QED BY <1>4, <2>2, <2>3, <3>1, EditKeepsCodes, KeptKeepsCodes DEF ProvisionOwner
  <2>4. CASE ~Exists(u)
    <3> DEFINE new == [Absent EXCEPT !.role = "owner", !.active = TRUE, !.password = 1, !.version = 1]
    <3>1. new \in Row BY DEF Absent, Row, None
    <3>2. RowKeepsCodes(account[u], new) BY DEF Absent, RowKeepsCodes
    <3>3. account' = [account EXCEPT ![u] = new] BY <1>4, <2>4 DEF ProvisionOwner
    <3> HIDE DEF new
    <3> QED BY <2>2, <3>1, <3>2, <3>3, EditKeepsCodes, KeptKeepsCodes
  <2> QED BY <2>3, <2>4
<1>5. CASE Tick
  BY <1>5, SameKeepsCodes DEF Tick
<1>6. CASE UNCHANGED vars
  BY <1>6, SameKeepsCodes DEF vars
<1> QED BY <1>1, <1>2, <1>3, <1>4, <1>5, <1>6 DEF Next

LEMMA CodeStart ==
  Init => CodeInv
<1> SUFFICES ASSUME Init PROVE CodeInv
  OBVIOUS
<1>1. account[Admin].codes = {1} /\ account[Admin].secret = 1
  <2> DEFINE admin == [Absent EXCEPT !.role = "owner", !.active = TRUE, !.password = 1,
                                     !.secret = 1, !.codes = {1}, !.version = 1]
  <2>1. admin.codes = {1} /\ admin.secret = 1
    BY DEF Absent
  <2>2. account[Admin] = admin
    BY AccountsAssumption DEF Init
  <2> QED BY <2>1, <2>2
<1>2. \A u \in Users \ {Admin} : account[u].codes = {}
  BY DEF Init, Absent
<1>3. codes = 1 /\ spent = {}
  BY DEF Init
<1>4. ASSUME NEW u \in Users
      PROVE  /\ account[u].codes \subseteq 1..1
             /\ \A c, d \in account[u].codes : c = d
             /\ account[u].secret = None => account[u].codes = {}
  <2>1. CASE u = Admin
    BY <1>1, <2>1 DEF None
  <2>2. CASE u # Admin
    BY <1>2, <2>2
  <2> QED BY <2>1, <2>2
<1>5. ASSUME NEW u \in Users, NEW v \in Users \ {u}
      PROVE  account[u].codes \cap account[v].codes = {}
  BY <1>2
<1> QED BY <1>3, <1>4, <1>5 DEF CodeInv

(***************************************************************************)
(* A recovery code is good for one login and only until the next set       *)
(* (mfa_security.py, users.py), and none is left without an authenticator. *)
(***************************************************************************)
THEOREM CodesAreUsedOnce == Spec => []CodesAreGoodOnce
<1>1. Spec => [](SessionInv /\ CodeInv)
  BY SessionStart, CodeStart, SessionStep, CodeStep, PTL DEF Spec
<1> QED BY <1>1, CodesOnce, PTL
(***************************************************************************)
(* Waiting: the lockout row counts the failures there were, and locks for  *)
(* as long as they call for, from the last of them.                        *)
(***************************************************************************)
WaitInv ==
  /\ now \in Nat
  /\ attempts \in [Users -> [count : Nat, until : Nat]]
  /\ failed \in [Users -> [count : Nat, last : Nat]]
  /\ \A u \in Users :
       /\ failed[u].last <= now
       /\ attempts[u].count = failed[u].count
       /\ failed[u].count <= MaxFailures
       /\ failed[u].count >= FailureLimit =>
            \/ LockTime(failed[u].count - FailureLimit) = 0
            \/ attempts[u].until = failed[u].last + LockTime(failed[u].count - FailureLimit)

LEMMA ChangesAreCounted == Cardinality(Changes) \in Nat
<1>3. IsFiniteSet(1..MaxChanges)
  BY BoundsAssumption, FS_Interval
<1>1. IsFiniteSet(Users \X (1..MaxChanges))
  BY <1>3, BoundsAssumption, FS_Product
<1>2. IsFiniteSet(Changes)
  BY <1>1, FS_Subset DEF Changes
<1> QED BY <1>2, FS_CardinalityType

LEMMA FailureKeepsWait ==
  ASSUME WaitInv, NEW u \in Users, Fail(u), Remember(u), now' = now
  PROVE  WaitInv'
<1> DEFINE n == failed[u].count + 1
           lock == IF n < FailureLimit THEN 0 ELSE LockTime(n - FailureLimit)
<1>1. failed[u].count \in Nat /\ attempts[u].count = failed[u].count /\ now \in Nat
  BY DEF WaitInv
<1>2. n \in Nat /\ n <= MaxFailures
  BY <1>1, ChangesAreCounted, BoundsAssumption DEF Remember, MayHappen
<1>3. lock \in Nat
  <2>1. CASE n < FailureLimit
    BY <2>1
  <2>2. CASE ~(n < FailureLimit)
    <3>1. n - FailureLimit \in 0..MaxFailures
      BY <1>2, <2>2, AccountsAssumption, BoundsAssumption
    <3> QED BY <2>2, <3>1, BoundsAssumption
  <2> QED BY <2>1, <2>2
<1>4. attempts' = [attempts EXCEPT ![u] = [count |-> n, until |-> IF lock = 0 THEN 0 ELSE now + lock]]
  BY <1>1 DEF Fail
<1>5. failed' = [failed EXCEPT ![u] = [count |-> n, last |-> now]]
  BY DEF Remember, WaitInv
<1>6. n >= FailureLimit => lock = LockTime(n - FailureLimit)
  BY <1>2, AccountsAssumption
<1> HIDE DEF n, lock
<1>7. attempts' \in [Users -> [count : Nat, until : Nat]]
  BY <1>1, <1>2, <1>3, <1>4 DEF WaitInv
<1>8. failed' \in [Users -> [count : Nat, last : Nat]]
  BY <1>1, <1>2, <1>5 DEF WaitInv
<1>9. /\ attempts'[u].count = n /\ attempts'[u].until = (IF lock = 0 THEN 0 ELSE now + lock)
      /\ failed'[u].count = n /\ failed'[u].last = now
      /\ \A v \in Users \ {u} : attempts'[v] = attempts[v] /\ failed'[v] = failed[v]
  BY <1>4, <1>5 DEF WaitInv
<1>10. ASSUME NEW v \in Users
       PROVE  /\ failed'[v].last <= now'
              /\ attempts'[v].count = failed'[v].count
              /\ failed'[v].count <= MaxFailures
              /\ failed'[v].count >= FailureLimit =>
                   \/ LockTime(failed'[v].count - FailureLimit) = 0
                   \/ attempts'[v].until = failed'[v].last + LockTime(failed'[v].count - FailureLimit)
  <2>1. CASE v = u
    BY <1>1, <1>2, <1>6, <1>9, <2>1
  <2>2. CASE v # u
    BY <1>9, <2>2 DEF WaitInv
  <2> QED BY <2>1, <2>2
<1> QED BY <1>1, <1>7, <1>8, <1>10 DEF WaitInv

LEMMA ClearKeepsWait ==
  ASSUME WaitInv, NEW u \in Users, Clear(u), now' = now
  PROVE  WaitInv'
<1>1. /\ attempts' \in [Users -> [count : Nat, until : Nat]]
      /\ failed' \in [Users -> [count : Nat, last : Nat]]
  BY DEF Clear, WaitInv
<1>2. /\ attempts'[u].count = 0 /\ failed'[u].count = 0 /\ failed'[u].last = 0
      /\ \A v \in Users \ {u} : attempts'[v] = attempts[v] /\ failed'[v] = failed[v]
  BY DEF Clear, WaitInv
<1>3. now' \in Nat /\ 0 <= MaxFailures /\ ~(0 >= FailureLimit) /\ now' = now
  BY AccountsAssumption, BoundsAssumption DEF WaitInv
<1>4. ASSUME NEW v \in Users
      PROVE  /\ failed'[v].last <= now'
             /\ attempts'[v].count = failed'[v].count
             /\ failed'[v].count <= MaxFailures
             /\ failed'[v].count >= FailureLimit =>
                  \/ LockTime(failed'[v].count - FailureLimit) = 0
                  \/ attempts'[v].until = failed'[v].last + LockTime(failed'[v].count - FailureLimit)
  <2>1. CASE v = u
    BY <1>2, <1>3, <2>1
  <2>2. CASE v # u
    BY <1>2, <1>3, <2>2 DEF WaitInv
  <2> QED BY <2>1, <2>2
<1> QED BY <1>1, <1>3, <1>4 DEF WaitInv

LEMMA SameKeepsWait ==
  ASSUME WaitInv, attempts' = attempts, failed' = failed, now' = now \/ now' = now + 1
  PROVE  WaitInv'
BY DEF WaitInv

(***************************************************************************)
(* Only these steps touch the counters, and a failure is only recorded of  *)
(* an account that is not locked.                                          *)
(***************************************************************************)
LEMMA CounterSteps ==
  ASSUME [Next]_vars
  PROVE  \/ \E u \in Users : ~Locked(u) /\ Fail(u) /\ Remember(u) /\ now' = now
         \/ \E u \in Users : ~Locked(u) /\ Clear(u) /\ now' = now
         \/ attempts' = attempts /\ failed' = failed /\ (now' = now \/ now' = now + 1)
<1>1. CASE SigningIn
  BY <1>1 DEF SigningIn, WrongPassword, WrongCode, Login, LoginWithCode
<1>2. CASE Administration
  <2>1. UNCHANGED <<attempts, failed, now>>
    BY <1>2 DEF Administration, StartView, SetRole, CreateUser, SetEmployee, SetActive, ResetPassword, ResetMfa, Same
  <2> QED BY <2>1
<1>3. CASE OwnAccount
  <2>1. PICK t \in tokens : \/ ChangePassword(t) \/ SetupMfa(t) \/ ConfirmMfa(t)
                            \/ RegenerateCodes(t) \/ DisableMfa(t) \/ SignOut(t)
    BY <1>3 DEF OwnAccount
  <2>2. UNCHANGED <<attempts, failed, now>>
    BY <2>1 DEF ChangePassword, SetupMfa, ConfirmMfa, RegenerateCodes, DisableMfa, SignOut, Same
  <2> QED BY <2>2
<1>4. CASE \E u \in Users : ProvisionOwner(u)
  BY <1>4 DEF ProvisionOwner, Same
<1>5. CASE Tick \/ UNCHANGED vars
  BY <1>5 DEF Tick, vars
<1> QED BY <1>1, <1>2, <1>3, <1>4, <1>5 DEF Next

LEMMA WaitStep ==
  WaitInv /\ [Next]_vars => WaitInv'
BY CounterSteps, FailureKeepsWait, ClearKeepsWait, SameKeepsWait

LEMMA WaitStart ==
  Init => WaitInv
BY AccountsAssumption, BoundsAssumption DEF Init, WaitInv

LEMMA JudgedAfterWait ==
  WaitInv /\ [Next]_vars =>
    [\A u \in Users :
       failed'[u] # failed[u] /\ failed[u].count >= FailureLimit =>
         now >= failed[u].last + LockTime(failed[u].count - FailureLimit)]_vars
<1> SUFFICES ASSUME WaitInv, [Next]_vars, NEW u \in Users,
                    failed'[u] # failed[u], failed[u].count >= FailureLimit
             PROVE  now >= failed[u].last + LockTime(failed[u].count - FailureLimit)
  OBVIOUS
<1>1. ~Locked(u)
  BY CounterSteps DEF Remember, Clear, WaitInv
<1>2. attempts[u].until <= now /\ failed[u].last \in Nat /\ now \in Nat
  BY <1>1 DEF Locked, WaitInv
<1> QED BY <1>2 DEF WaitInv

(***************************************************************************)
(* A login is judged only after the wait that the failures call for        *)
(* (login_security.py), whichever factor failed.                           *)
(***************************************************************************)
THEOREM FailuresWait == Spec => BackoffIsWaited
<1>1. Spec => []WaitInv
  BY WaitStart, WaitStep, PTL DEF Spec
<1> QED BY <1>1, JudgedAfterWait, PTL DEF Spec, BackoffIsWaited
=============================================================================
