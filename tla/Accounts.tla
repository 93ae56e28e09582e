------------------------------- MODULE Accounts -------------------------------
(***************************************************************************)
(* Accounts and server sessions: login, validation of a session by every   *)
(* request, change of one's own password, logout and the administration    *)
(* of users.                                                               *)
(*                                                                         *)
(* What writes an account holds its row: login and change of password for  *)
(* as long as a password is verified and hashed, the others for one step.  *)
(* Validation reads without a lock.  Sessions are numbered in the order of *)
(* their creation.  A password is known by its number.                     *)
(***************************************************************************)
EXTENDS Naturals, Sequences, FiniteSets

CONSTANTS
  Users, First,    \* accounts; the administrator create_admin has made
  Calls,           \* requests in progress
  NoCall,          \* not a request
  MaxSessions,     \* auth_max_sessions_per_user
  MaxPassword,     \* bound: passwords
  MaxCreated       \* bound: sessions

ASSUME AccountsAssumption ==
  /\ First \in Users /\ NoCall \notin Calls
  /\ {MaxSessions, MaxPassword, MaxCreated} \subseteq Nat \ {0}

VARIABLES
  account,   \* the rows of users
  session,   \* the rows of user_sessions
  call,      \* what each request has read
  rowLock    \* the request that holds FOR UPDATE on each account

accountVars == <<account, session, call, rowLock>>

-----------------------------------------------------------------------------
Passwords == 1..MaxPassword

\* age: 0 seen lately, 1 due for a touch, 2 idle for too long or past its absolute end;
\* password: ghost, the one it was opened with.
Session == [user : Users, password : Passwords, live : BOOLEAN, age : 0..2]
Account == [exists : BOOLEAN, active : BOOLEAN, admin : BOOLEAN, must : BOOLEAN,
            password : Passwords]

NoAccount == [exists |-> FALSE, active |-> FALSE, admin |-> FALSE, must |-> FALSE, password |-> 1]
NoRequest == [phase |-> "idle", user |-> First, typed |-> 1, token |-> 0, row |-> NoAccount,
              age |-> 0]

AccountsInit ==
  /\ account = [u \in Users |-> IF u = First
       THEN [exists |-> TRUE, active |-> TRUE, admin |-> TRUE, must |-> FALSE, password |-> 1]
       ELSE NoAccount]
  /\ session = <<>>
  /\ call = [r \in Calls |-> NoRequest]
  /\ rowLock = [u \in Users |-> NoCall]

-----------------------------------------------------------------------------
\* The rows after some sessions are revoked; nothing of them matters any more.
Revoke(I) ==
  [i \in DOMAIN session |->
     IF i \in I THEN [user |-> session[i].user, password |-> 1, live |-> FALSE, age |-> 0]
                ELSE session[i]]
RevokeAll(u) == Revoke({i \in DOMAIN session : session[i].user = u})

Opened(u, password) == [user |-> u, password |-> password, live |-> TRUE, age |-> 0]
CanOpen == Len(session) < MaxCreated

\* replace_after_password_change
ReplaceSessions(u, password) == Append(RevokeAll(u), Opened(u, password))

\* Sessions that count against the limit, and the oldest that are too many.
Usable(u) == {i \in DOMAIN session : session[i].user = u /\ session[i].live /\ session[i].age < 2}
Excess(u) ==
  {i \in Usable(u) : Cardinality({j \in Usable(u) : j > i}) + 1 >= MaxSessions}

Returns(r) == call' = [call EXCEPT ![r] = NoRequest]
Unlock(u) == rowLock' = [rowLock EXCEPT ![u] = NoCall]

-----------------------------------------------------------------------------
(* Login (authentication.py).                                              *)

\* Fault: the row is read without FOR UPDATE.
EnterLoginUnlocked(r, u, typed) ==
  /\ call[r].phase = "idle"
  /\ call' = [call EXCEPT ![r] = [NoRequest EXCEPT !.phase = "login", !.user = u,
                                                   !.typed = typed, !.row = account[u]]]
  /\ UNCHANGED <<account, session, rowLock>>

EnterLogin(r, u, typed) ==
  /\ call[r].phase = "idle" /\ account[u].exists /\ rowLock[u] = NoCall
  /\ call' = [call EXCEPT ![r] = [NoRequest EXCEPT !.phase = "login", !.user = u,
                                                   !.typed = typed, !.row = account[u]]]
  /\ rowLock' = [rowLock EXCEPT ![u] = r]
  /\ UNCHANGED <<account, session>>

\* create_for_locked_user, or the failure that LoginLimit counts.
FinishLogin(r) ==
  LET u == call[r].user IN
  /\ call[r].phase = "login"
  /\ IF call[r].row.active /\ call[r].typed = call[r].row.password
       THEN /\ CanOpen
            /\ session' = Append(Revoke(Excess(u)), Opened(u, call[r].typed))
       ELSE UNCHANGED session
  /\ Returns(r) /\ Unlock(u)
  /\ UNCHANGED account

-----------------------------------------------------------------------------
(* Validation (user_sessions.validate, dependencies.py).                   *)

Present(r, token) ==
  /\ call[r].phase = "idle" /\ session[token].live
  /\ call' = [call EXCEPT ![r] = [NoRequest EXCEPT !.phase = "validate", !.token = token,
       !.user = session[token].user, !.age = session[token].age,
       !.row = account[session[token].user]]]
  /\ UNCHANGED <<account, session, rowLock>>

\* By what was read: the time is up, the session was idle, the account is disabled.
Refuse(r) ==
  /\ call[r].phase = "validate"
  /\ call[r].age = 2 \/ ~call[r].row.active
  /\ session' = Revoke({call[r].token})
  /\ Returns(r)
  /\ UNCHANGED <<account, rowLock>>

\* touch_active writes only if the session is still live and its absolute end is ahead
\* (otherwise the request is refused: Leave); it does not look at the idle time again.
\* A session seen lately is not written and not read again.
Accept(r) ==
  LET token == call[r].token
      touched == [session EXCEPT ![token].age = 0]
  IN
  /\ call[r].phase = "validate" /\ call[r].age < 2 /\ call[r].row.active
  /\ session' \in IF call[r].age = 0 THEN {session}
                   ELSE IF session[token].live THEN {touched} ELSE {}
  /\ call' = [call EXCEPT ![r] = [@ EXCEPT !.phase = "ready", !.age = 0]]
  /\ UNCHANGED <<account, rowLock>>

\* Any other endpoint, a touch that came too late, or the client is gone.
Leave(r) ==
  /\ call[r].phase \in {"validate", "ready"} /\ Returns(r)
  /\ UNCHANGED <<account, session, rowLock>>

Logout(r) ==
  /\ call[r].phase = "ready"
  /\ session' = Revoke({call[r].token})
  /\ Returns(r) /\ UNCHANGED <<account, rowLock>>

LogoutAll(r) ==
  /\ call[r].phase = "ready"
  /\ session' = RevokeAll(call[r].user)
  /\ Returns(r) /\ UNCHANGED <<account, rowLock>>

-----------------------------------------------------------------------------
(* Change of one's password (password_change.py).                          *)

\* Fault: the row loaded with the session is not read again.
EnterChangeStale(r, typed) ==
  /\ call[r].phase = "ready" /\ rowLock[call[r].user] = NoCall
  /\ call' = [call EXCEPT ![r] = [@ EXCEPT !.phase = "change", !.typed = typed]]
  /\ rowLock' = [rowLock EXCEPT ![call[r].user] = r]
  /\ UNCHANGED <<account, session>>

EnterChange(r, typed) ==
  /\ call[r].phase = "ready" /\ rowLock[call[r].user] = NoCall
  /\ call' = [call EXCEPT ![r] = [@ EXCEPT !.phase = "change", !.typed = typed, !.token = 0,
                                          !.row = account[call[r].user]]]
  /\ rowLock' = [rowLock EXCEPT ![call[r].user] = r]
  /\ UNCHANGED <<account, session>>

\* One transaction: the new hash, all sessions revoked, a new one opened.
ChangePassword(r, new) ==
  LET u == call[r].user IN
  /\ call[r].phase = "change" /\ CanOpen
  /\ call[r].row.active /\ call[r].typed = call[r].row.password /\ new # call[r].typed
  /\ account' = [account EXCEPT ![u].password = new, ![u].must = FALSE]
  /\ session' = ReplaceSessions(u, new)
  /\ Returns(r) /\ Unlock(u)

\* The account is disabled, the current password wrong or the new one refused.
RefuseChange(r) ==
  /\ call[r].phase = "change"
  /\ Returns(r) /\ Unlock(call[r].user)
  /\ UNCHANGED <<account, session>>

-----------------------------------------------------------------------------
(* Administration of users (users.py, admin_users.py).                     *)

\* require_permission, by the account as it was when the session was validated.
Manages(r, u) ==
  /\ call[r].phase = "ready" /\ call[r].row.admin /\ ~call[r].row.must
  /\ call[r].user # u /\ rowLock[u] = NoCall
  /\ Returns(r) /\ UNCHANGED rowLock

CreateUser(r, u, admin, password) ==
  /\ Manages(r, u) /\ ~account[u].exists
  /\ account' = [account EXCEPT ![u] = [exists |-> TRUE, active |-> TRUE, admin |-> admin,
                                        must |-> TRUE, password |-> password]]
  /\ UNCHANGED session

\* Fault: the sessions of a disabled account are left to validation.
UpdateUserOnly(r, u, active, admin) ==
  /\ Manages(r, u) /\ account[u].exists
  /\ account' = [account EXCEPT ![u].active = active, ![u].admin = admin]
  /\ UNCHANGED session

UpdateUser(r, u, active, admin) ==
  /\ Manages(r, u) /\ account[u].exists
  /\ account' = [account EXCEPT ![u].active = active, ![u].admin = admin]
  /\ session' = IF active THEN session ELSE RevokeAll(u)

ResetPassword(r, u, password) ==
  /\ Manages(r, u) /\ account[u].exists
  /\ account' = [account EXCEPT ![u].password = password, ![u].must = TRUE]
  /\ session' = RevokeAll(u)

RevokeSessions(r, u) ==
  /\ Manages(r, u) /\ account[u].exists
  /\ session' = RevokeAll(u) /\ UNCHANGED account

\* Time passes.
Ages(i, age) ==
  /\ session[i].live /\ session[i].age < age
  /\ session' = [session EXCEPT ![i].age = age]
  /\ UNCHANGED <<account, call, rowLock>>

-----------------------------------------------------------------------------
Request(r) ==
  \/ \E u \in Users, p \in Passwords : EnterLogin(r, u, p)
  \/ FinishLogin(r)
  \/ \E i \in DOMAIN session : Present(r, i)
  \/ Refuse(r) \/ Accept(r) \/ Leave(r) \/ Logout(r) \/ LogoutAll(r)
  \/ RefuseChange(r)
  \/ \E p \in Passwords : EnterChange(r, p) \/ ChangePassword(r, p)

Administer(r, u) ==
  \/ \E admin \in BOOLEAN, p \in Passwords : CreateUser(r, u, admin, p)
  \/ \E active, admin \in BOOLEAN : UpdateUser(r, u, active, admin)
  \/ \E p \in Passwords : ResetPassword(r, u, p)
  \/ RevokeSessions(r, u)

AccountsNext ==
  \/ \E r \in Calls : Request(r) \/ \E u \in Users : Administer(r, u)
  \/ \E i \in DOMAIN session, age \in 1..2 : Ages(i, age)

AccountsSpec == AccountsInit /\ [][AccountsNext]_accountVars

-----------------------------------------------------------------------------
(* Properties.                                                             *)

\* Rows and requests have their types, and a row is held by a request that verifies
\* a password of it.
AccountsTypeOK ==
  /\ account \in [Users -> Account]
  /\ session \in Seq(Session) /\ Len(session) <= MaxCreated
  /\ \A r \in Calls :
       /\ call[r].phase \in {"idle", "login", "validate", "ready", "change"}
       /\ call[r].user \in Users /\ call[r].row \in Account /\ call[r].typed \in Passwords
  /\ rowLock \in [Users -> Calls \cup {NoCall}]
  /\ \A r \in Calls : call[r].phase \in {"login", "change"} <=> rowLock[call[r].user] = r

\* A disabled account has no live session, even if it was disabled while a login or a
\* change of its password was under way (users.py, user_sessions.py).
DisabledHasNoSession ==
  \A i \in DOMAIN session : session[i].live => account[session[i].user].active

\* A session lives no longer than the password it was opened with: neither a login with
\* the old password nor a request under way survives its change (password_change.py).
SessionsFollowPassword ==
  \A i \in DOMAIN session : session[i].live => session[i].password = account[session[i].user].password

KnewPassword ==
  \A r \in Calls, u \in Users :
    call[r].phase = "change" /\ call'[r].phase = "idle" /\ call[r].user = u
      => account'[u] = account[u] \/ call[r].typed = account[u].password

\* Whoever changes a password knew the one it replaces: a change under way never undoes
\* a reset by an administrator (password_change.py).
ResetStands == [][KnewPassword]_accountVars
=============================================================================
