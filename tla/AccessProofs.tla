---------------------------- MODULE AccessProofs ----------------------------
(***************************************************************************)
(* Theorems about Accounts, for every set of users and requests and every  *)
(* limit of sessions, and LoginLimit, for all thresholds, windows, blocks  *)
(* and waits.                                                              *)
(*                                                                         *)
(* That no session outlives its password or its account is inductive only  *)
(* together with what the row lock gives: while a login or a change of     *)
(* password verifies, the row it has read is the row as it is.             *)
(*                                                                         *)
(* The limit of guesses rests on what each failure was admitted by         *)
(* (Unblocked): the newest failures before it, as many as the threshold,   *)
(* did not block it. Any as many failures compare with the newest ones     *)
(* (NewestLead), which exist (NewestExist) and are out of order by no more *)
(* than the longest wait.                                                  *)
(***************************************************************************)
EXTENDS Accounts, LoginLimit, Extrema, SequenceTheorems, FiniteSetTheorems, TLAPS

-----------------------------------------------------------------------------
(* Accounts.                                                               *)

Call == [phase : {"idle", "login", "validate", "ready", "change"}, user : Users,
         typed : Passwords, token : Nat, row : Account, age : 0..2]

Holding(r) == call[r].phase \in {"login", "change"}

\* A live session belongs to an active account with the password it was opened with.
Backed(s, rows) ==
  \A i \in DOMAIN s : s[i].live =>
    /\ rows[s[i].user].exists /\ rows[s[i].user].active
    /\ rows[s[i].user].password = s[i].password

Sessions(s, rows) == s \in Seq(Session) /\ Len(s) <= MaxCreated /\ Backed(s, rows)

\* Requests are of accounts and sessions that exist.
CallsOK ==
  \A r \in Calls :
    /\ call[r].phase \in {"validate", "ready"} => call[r].token \in DOMAIN session
    /\ call[r].phase # "idle" => account[call[r].user].exists

\* A row is held by the one request that verifies a password of it, which knows the row.
LocksOK ==
  /\ \A r \in Calls : Holding(r) => rowLock[call[r].user] = r /\ call[r].row = account[call[r].user]
  /\ \A u \in Users : rowLock[u] # NoCall => Holding(rowLock[u]) /\ call[rowLock[u]].user = u

AccountsTyped ==
  /\ account \in [Users -> Account]
  /\ call \in [Calls -> Call]
  /\ rowLock \in [Users -> Calls \cup {NoCall}]

AccountsInv == AccountsTyped /\ Sessions(session, account) /\ CallsOK /\ LocksOK

-----------------------------------------------------------------------------
(* Lemmas about sessions.                                                  *)

LEMMA One == 1 \in Passwords
BY AccountsAssumption DEF Passwords

\* Revoking keeps everything but the revoked sessions, which are no longer live.
LEMMA Revoking ==
  ASSUME session \in Seq(Session), NEW I
  PROVE  /\ Revoke(I) \in Seq(Session)
         /\ Len(Revoke(I)) = Len(session) /\ DOMAIN Revoke(I) = DOMAIN session
         /\ \A i \in DOMAIN session :
              /\ Revoke(I)[i].user = session[i].user
              /\ i \in I => ~Revoke(I)[i].live
              /\ i \notin I => Revoke(I)[i] = session[i]
<1>1. DOMAIN session = 1..Len(session) /\ Len(session) \in Nat
  BY LenProperties
<1>2. \A i \in DOMAIN session : session[i] \in Session
  BY ElementOfSeq, <1>1
<1>3. \A i \in DOMAIN session :
        (IF i \in I THEN [user |-> session[i].user, password |-> 1, live |-> FALSE, age |-> 0]
                    ELSE session[i]) \in Session
  BY <1>2, One DEF Session
<1>4. Revoke(I) \in [1..Len(session) -> Session]
  BY <1>1, <1>3 DEF Revoke
<1>5. Revoke(I) \in Seq(Session)
  BY <1>1, <1>4
<1>6. Len(Revoke(I)) = Len(session)
  BY <1>1, <1>4, <1>5, LenProperties
<1>7. \A i \in DOMAIN session :
        /\ Revoke(I)[i].user = session[i].user
        /\ i \in I => ~Revoke(I)[i].live
        /\ i \notin I => Revoke(I)[i] = session[i]
  BY <1>2 DEF Revoke, Session
<1> QED BY <1>1, <1>4, <1>5, <1>6, <1>7

LEMMA RevokeBacked ==
  ASSUME Sessions(session, account), NEW I
  PROVE  Sessions(Revoke(I), account)
<1>1. session \in Seq(Session) BY DEF Sessions
<1>2. \A i \in DOMAIN session : Revoke(I)[i].live => Revoke(I)[i] = session[i]
  BY <1>1, Revoking
<1> QED BY <1>1, <1>2, Revoking DEF Sessions, Backed

\* When an account changes, its sessions are revoked.
LEMMA RevokeAllBacked ==
  ASSUME Sessions(session, account), NEW u \in Users, NEW rows,
         \A v \in Users \ {u} : rows[v] = account[v]
  PROVE  Sessions(RevokeAll(u), rows)
<1>1. session \in Seq(Session) BY DEF Sessions
<1>2. \A i \in DOMAIN session : session[i].user \in Users
  <2>1. \A i \in DOMAIN session : session[i] \in Session
    BY <1>1, ElementOfSeq, LenProperties
  <2> QED BY <2>1 DEF Session
<1>3. \A i \in DOMAIN session : RevokeAll(u)[i].live =>
        RevokeAll(u)[i] = session[i] /\ session[i].user # u
  BY <1>1, Revoking DEF RevokeAll
<1> QED BY <1>1, <1>2, <1>3, Revoking DEF Sessions, Backed, RevokeAll

LEMMA OpenBacked ==
  ASSUME NEW rows, NEW s, Sessions(s, rows), Len(s) < MaxCreated, NEW u \in Users, NEW p \in Passwords,
         rows[u].exists, rows[u].active, rows[u].password = p
  PROVE  Sessions(Append(s, Opened(u, p)), rows)
<1>1. s \in Seq(Session) /\ Len(s) \in Nat /\ DOMAIN s = 1..Len(s)
  BY LenProperties DEF Sessions
<1>2. Opened(u, p) \in Session BY DEF Opened, Session
<1> DEFINE t == Append(s, Opened(u, p))
<1>3. /\ t \in Seq(Session) /\ Len(t) = Len(s) + 1 /\ DOMAIN t = 1..(Len(s) + 1)
      /\ \A i \in 1..Len(s) : t[i] = s[i]
      /\ t[Len(s) + 1] = Opened(u, p)
  BY <1>1, <1>2, AppendProperties
<1>4. Len(t) <= MaxCreated
  BY <1>1, <1>3, AccountsAssumption
<1>5. Backed(t, rows)
  <2> SUFFICES ASSUME NEW i \in DOMAIN t, t[i].live
               PROVE  /\ rows[t[i].user].exists /\ rows[t[i].user].active
                      /\ rows[t[i].user].password = t[i].password
    BY DEF Backed
  <2>1. CASE i \in 1..Len(s) BY <1>1, <1>3, <2>1 DEF Sessions, Backed
  <2>2. CASE i = Len(s) + 1 BY <1>3, <2>2 DEF Opened
  <2> QED BY <1>1, <1>3, <2>1, <2>2
<1> QED BY <1>3, <1>4, <1>5 DEF Sessions

-----------------------------------------------------------------------------
(* Lemmas about requests.                                                  *)

LEMMA NoRequestTyped == NoRequest \in Call
BY AccountsAssumption, One DEF NoRequest, Call, NoAccount, Account

LEMMA EnterLoginTyped ==
  ASSUME AccountsTyped, NEW u \in Users, NEW p \in Passwords
  PROVE  [NoRequest EXCEPT !.phase = "login", !.user = u, !.typed = p, !.row = account[u]] \in Call
BY NoRequestTyped DEF Call, AccountsTyped

LEMMA PresentTyped ==
  ASSUME AccountsTyped, Sessions(session, account), NEW i \in DOMAIN session
  PROVE  [NoRequest EXCEPT !.phase = "validate", !.token = i, !.user = session[i].user,
            !.age = session[i].age, !.row = account[session[i].user]] \in Call
<1>1. session[i] \in Session /\ i \in Nat
  BY ElementOfSeq, LenProperties DEF Sessions
<1> QED BY <1>1, NoRequestTyped DEF Call, AccountsTyped, Session

LEMMA AcceptTyped ==
  ASSUME AccountsTyped, NEW r \in Calls
  PROVE  [call[r] EXCEPT !.phase = "ready", !.age = 0] \in Call
<1>1. \A c \in Call : [c EXCEPT !.phase = "ready"] \in Call BY DEF Call
<1>2. \A c \in Call : [c EXCEPT !.age = 0] \in Call BY DEF Call
<1>3. [[call[r] EXCEPT !.phase = "ready"] EXCEPT !.age = 0] \in Call BY <1>1, <1>2 DEF AccountsTyped
<1> QED BY <1>3

LEMMA EnterChangeTyped ==
  ASSUME AccountsTyped, NEW r \in Calls, NEW p \in Passwords
  PROVE  [call[r] EXCEPT !.phase = "change", !.typed = p, !.token = 0,
                          !.row = account[call[r].user]] \in Call
BY DEF Call, AccountsTyped

\* What may change while requests come and go: no session number and no account
\* disappears, and the row of an account stays as its holder has read it.
Grows(S) ==
  /\ DOMAIN session \subseteq DOMAIN session'
  /\ \A v \in Users : account[v].exists => account'[v].exists
  /\ \A v \in Users \ S : rowLock[v] # NoCall => account'[v] = account[v]

\* A request that holds no row ends.
LEMMA Returning ==
  ASSUME AccountsInv, NEW r \in Calls, ~Holding(r), Returns(r), UNCHANGED rowLock, Grows({})
  PROVE  call' \in [Calls -> Call] /\ CallsOK' /\ LocksOK'
<1>1. call' \in [Calls -> Call] /\ call'[r] = NoRequest /\ \A q \in Calls \ {r} : call'[q] = call[q]
  BY NoRequestTyped DEF AccountsInv, AccountsTyped, Returns
<1>2. CallsOK'
  BY <1>1 DEF AccountsInv, CallsOK, Grows, NoRequest, AccountsTyped, Call
<1>3. LocksOK'
  BY <1>1, AccountsAssumption DEF AccountsInv, LocksOK, Holding, Grows, NoRequest, AccountsTyped, Call
<1> QED BY <1>1, <1>2, <1>3

\* A request that holds a row ends and gives it back.
LEMMA Releasing ==
  ASSUME AccountsInv, NEW r \in Calls, Holding(r), Returns(r), Unlock(call[r].user),
         Grows({call[r].user})
  PROVE  /\ call' \in [Calls -> Call] /\ rowLock' \in [Users -> Calls \cup {NoCall}]
         /\ CallsOK' /\ LocksOK'
<1> DEFINE u == call[r].user
<1>1. call' \in [Calls -> Call] /\ call'[r] = NoRequest /\ \A q \in Calls \ {r} : call'[q] = call[q]
  BY NoRequestTyped DEF AccountsInv, AccountsTyped, Returns
<1>2. u \in Users /\ rowLock[u] = r
  BY DEF AccountsInv, AccountsTyped, LocksOK, Call
<1>3. /\ rowLock' \in [Users -> Calls \cup {NoCall}] /\ rowLock'[u] = NoCall
      /\ \A v \in Users \ {u} : rowLock'[v] = rowLock[v]
  BY <1>2 DEF AccountsInv, AccountsTyped, Unlock
<1>4. CallsOK'
  BY <1>1 DEF AccountsInv, CallsOK, Grows, NoRequest, AccountsTyped, Call
<1>5. \A q \in Calls \ {r} : Holding(q) => call[q].user # u
  BY <1>2 DEF AccountsInv, LocksOK
<1>6. \A q \in Calls : Holding(q)' => q # r /\ Holding(q)
  BY <1>1 DEF Holding, NoRequest
<1>7. \A q \in Calls : Holding(q)' => rowLock'[call'[q].user] = q /\ call'[q].row = account'[call'[q].user]
  BY <1>1, <1>3, <1>5, <1>6, AccountsAssumption DEF AccountsInv, LocksOK, Grows, AccountsTyped, Call
<1>8. \A v \in Users : rowLock'[v] # NoCall => call'[rowLock'[v]].phase \in {"login", "change"} /\ call'[rowLock'[v]].user = v
  <2> SUFFICES ASSUME NEW v \in Users, rowLock'[v] # NoCall
               PROVE  call'[rowLock'[v]].phase \in {"login", "change"} /\ call'[rowLock'[v]].user = v
    OBVIOUS
  <2>1. v # u /\ rowLock'[v] = rowLock[v] /\ rowLock[v] \in Calls
    BY <1>3 DEF AccountsInv, AccountsTyped
  <2>2. Holding(rowLock[v]) /\ call[rowLock[v]].user = v
    BY <2>1 DEF AccountsInv, LocksOK
  <2>3. rowLock[v] # r
    BY <2>1, <2>2
  <2> QED BY <1>1, <2>1, <2>2, <2>3 DEF Holding
<1> QED BY <1>1, <1>3, <1>4, <1>7, <1>8 DEF LocksOK, Holding

-----------------------------------------------------------------------------
(* The invariant is inductive.                                             *)

LEMMA AccountsInitially == AccountsInit => AccountsInv
<1> SUFFICES ASSUME AccountsInit PROVE AccountsInv
  OBVIOUS
<1>1. AccountsTyped
  <2>1. NoAccount \in Account BY One DEF NoAccount, Account
  <2>2. [exists |-> TRUE, active |-> TRUE, admin |-> TRUE, must |-> FALSE, password |-> 1] \in Account
    BY One DEF Account
  <2> QED BY <2>1, <2>2, NoRequestTyped DEF AccountsInit, AccountsTyped
<1>2. Sessions(session, account)
  <2>1. session = <<>> /\ session \in Seq(Session) /\ Len(session) = 0 /\ DOMAIN session = {}
    BY EmptySeq DEF AccountsInit
  <2> QED BY <2>1, AccountsAssumption DEF Sessions, Backed
<1>3. \A r \in Calls : call[r].phase = "idle"
  BY DEF AccountsInit, NoRequest
<1>4. CallsOK
  BY <1>3 DEF CallsOK
<1>5. LocksOK
  BY <1>3 DEF AccountsInit, LocksOK, Holding
<1> QED BY <1>1, <1>2, <1>4, <1>5 DEF AccountsInv

LEMMA FinishLoginStep == ASSUME AccountsInv, NEW r \in Calls, FinishLogin(r) PROVE AccountsInv'
<1> DEFINE u == call[r].user
<1>1. Holding(r) /\ u \in Users /\ call[r].typed \in Passwords /\ rowLock[u] = r
      /\ call[r].row = account[u] /\ account[u].exists /\ session \in Seq(Session)
  BY DEF FinishLogin, Holding, AccountsInv, AccountsTyped, Call, LocksOK, CallsOK, Sessions
<1>2. Sessions(session', account) /\ DOMAIN session \subseteq DOMAIN session'
  <2>1. CASE call[r].row.active /\ call[r].typed = call[r].row.password
    <3>1. /\ session' = Append(Revoke(Excess(u)), Opened(u, call[r].typed))
          /\ Len(session) < MaxCreated
      BY <2>1 DEF FinishLogin, CanOpen
    <3>2. Sessions(Revoke(Excess(u)), account) BY RevokeBacked DEF AccountsInv
    <3>3. Len(Revoke(Excess(u))) < MaxCreated /\ DOMAIN Revoke(Excess(u)) = DOMAIN session
      BY <1>1, <3>1, Revoking
    <3>4. Sessions(session', account) BY <1>1, <2>1, <3>1, <3>2, <3>3, OpenBacked
    <3>5. DOMAIN session \subseteq DOMAIN session'
      BY <1>1, <3>1, <3>2, <3>3, <3>4, AppendProperties, LenProperties DEF Sessions, Opened, Session
    <3> QED BY <3>4, <3>5
  <2>2. CASE ~(call[r].row.active /\ call[r].typed = call[r].row.password)
    BY <2>2 DEF FinishLogin, AccountsInv
  <2> QED BY <2>1, <2>2
<1>3. Grows({u}) /\ account' = account
  BY <1>2 DEF FinishLogin, Grows
<1>4. /\ call' \in [Calls -> Call] /\ rowLock' \in [Users -> Calls \cup {NoCall}]
      /\ CallsOK' /\ LocksOK'
  BY <1>1, <1>3, Releasing DEF FinishLogin
<1> QED BY <1>2, <1>3, <1>4 DEF AccountsInv, AccountsTyped, Sessions, Backed

LEMMA EnterLoginStep ==
  ASSUME AccountsInv, NEW r \in Calls, NEW u \in Users, NEW p \in Passwords, EnterLogin(r, u, p)
  PROVE  AccountsInv'
<1> DEFINE c == [NoRequest EXCEPT !.phase = "login", !.user = u, !.typed = p, !.row = account[u]]
<1>1. c \in Call /\ c.phase = "login" /\ c.user = u /\ c.row = account[u]
  BY EnterLoginTyped, NoRequestTyped DEF AccountsInv, Call
<1>2. /\ call' \in [Calls -> Call] /\ call'[r] = c /\ \A q \in Calls \ {r} : call'[q] = call[q]
      /\ rowLock' \in [Users -> Calls \cup {NoCall}]
      /\ rowLock'[u] = r /\ \A v \in Users \ {u} : rowLock'[v] = rowLock[v]
      /\ UNCHANGED <<account, session>> /\ account[u].exists /\ rowLock[u] = NoCall
      /\ ~Holding(r)
  BY <1>1 DEF EnterLogin, AccountsInv, AccountsTyped, Holding
<1> HIDE DEF c
<1>3. CallsOK'
  BY <1>1, <1>2 DEF AccountsInv, CallsOK
<1>4. LocksOK'
  BY <1>1, <1>2, AccountsAssumption DEF AccountsInv, LocksOK, Holding, AccountsTyped, Call
<1> QED BY <1>2, <1>3, <1>4 DEF AccountsInv, AccountsTyped, Sessions, Backed

LEMMA EnterChangeStep ==
  ASSUME AccountsInv, NEW r \in Calls, NEW p \in Passwords, EnterChange(r, p)
  PROVE  AccountsInv'
<1> DEFINE u == call[r].user
           c == [call[r] EXCEPT !.phase = "change", !.typed = p, !.token = 0, !.row = account[u]]
<1>1. c \in Call /\ c.phase = "change" /\ c.user = u /\ c.row = account[u] /\ u \in Users
  BY EnterChangeTyped DEF AccountsInv, AccountsTyped, Call
<1>2. /\ call' \in [Calls -> Call] /\ call'[r] = c /\ \A q \in Calls \ {r} : call'[q] = call[q]
      /\ rowLock' \in [Users -> Calls \cup {NoCall}]
      /\ rowLock'[u] = r /\ \A v \in Users \ {u} : rowLock'[v] = rowLock[v]
      /\ UNCHANGED <<account, session>> /\ account[u].exists /\ rowLock[u] = NoCall
      /\ ~Holding(r)
  BY <1>1 DEF EnterChange, AccountsInv, AccountsTyped, Holding, CallsOK
<1> HIDE DEF c, u
<1>3. CallsOK'
  BY <1>1, <1>2 DEF AccountsInv, CallsOK
<1>4. LocksOK'
  BY <1>1, <1>2, AccountsAssumption DEF AccountsInv, LocksOK, Holding, AccountsTyped, Call
<1> QED BY <1>2, <1>3, <1>4 DEF AccountsInv, AccountsTyped, Sessions, Backed

LEMMA PresentStep ==
  ASSUME AccountsInv, NEW r \in Calls, NEW i \in DOMAIN session, Present(r, i)
  PROVE  AccountsInv'
<1> DEFINE c == [NoRequest EXCEPT !.phase = "validate", !.token = i, !.user = session[i].user,
                   !.age = session[i].age, !.row = account[session[i].user]]
<1>1. c \in Call /\ c.phase = "validate" /\ c.token = i /\ c.user = session[i].user
  BY PresentTyped, NoRequestTyped DEF AccountsInv, Call
<1>2. /\ call' \in [Calls -> Call] /\ call'[r] = c /\ \A q \in Calls \ {r} : call'[q] = call[q]
      /\ UNCHANGED <<account, session, rowLock>> /\ ~Holding(r)
      /\ account[session[i].user].exists
  BY <1>1 DEF Present, AccountsInv, AccountsTyped, Holding, Sessions, Backed
<1> HIDE DEF c
<1>3. CallsOK'
  BY <1>1, <1>2 DEF AccountsInv, CallsOK
<1>4. LocksOK'
  BY <1>1, <1>2, AccountsAssumption DEF AccountsInv, LocksOK, Holding, AccountsTyped, Call
<1> QED BY <1>2, <1>3, <1>4 DEF AccountsInv, AccountsTyped, Sessions, Backed

\* Only the time of a session changes.
LEMMA Seen ==
  ASSUME Sessions(session, account), NEW i \in DOMAIN session, NEW a \in 0..2
  PROVE  /\ Sessions([session EXCEPT ![i].age = a], account)
         /\ DOMAIN [session EXCEPT ![i].age = a] = DOMAIN session
<1> DEFINE s == [session EXCEPT ![i].age = a]
<1>1. /\ session \in Seq(Session) /\ Len(session) \in Nat /\ DOMAIN session = 1..Len(session)
      /\ session[i] \in Session
  BY LenProperties, ElementOfSeq DEF Sessions
<1>2. [session[i] EXCEPT !.age = a] \in Session
  BY <1>1 DEF Session
<1>3. s \in Seq(Session) /\ Len(s) = Len(session) /\ DOMAIN s = DOMAIN session
  BY <1>1, <1>2, ExceptSeq
<1>4. \A j \in DOMAIN session : /\ s[j].live = session[j].live /\ s[j].user = session[j].user
                                /\ s[j].password = session[j].password
  BY <1>1, <1>2 DEF Session
<1> QED BY <1>3, <1>4 DEF Sessions, Backed

LEMMA AcceptStep == ASSUME AccountsInv, NEW r \in Calls, Accept(r) PROVE AccountsInv'
<1> DEFINE c == [call[r] EXCEPT !.phase = "ready", !.age = 0]
<1>1. c \in Call /\ c.phase = "ready" /\ c.token = call[r].token /\ c.user = call[r].user
  BY AcceptTyped DEF AccountsInv, AccountsTyped, Call
<1>2. /\ call' \in [Calls -> Call] /\ call'[r] = c /\ \A q \in Calls \ {r} : call'[q] = call[q]
      /\ UNCHANGED <<account, rowLock>> /\ ~Holding(r)
      /\ account[call[r].user].exists /\ call[r].token \in DOMAIN session
  BY <1>1 DEF Accept, AccountsInv, AccountsTyped, Holding, CallsOK
<1>3. \/ session' = session
      \/ session' = [session EXCEPT ![call[r].token].age = 0]
  BY DEF Accept
<1>4. Sessions(session', account) /\ DOMAIN session' = DOMAIN session
  <2>1. CASE session' = session BY <2>1 DEF AccountsInv
  <2>2. CASE session' = [session EXCEPT ![call[r].token].age = 0]
    <3>1. 0 \in 0..2 OBVIOUS
    <3>2. /\ Sessions([session EXCEPT ![call[r].token].age = 0], account)
          /\ DOMAIN [session EXCEPT ![call[r].token].age = 0] = DOMAIN session
      BY <1>2, <3>1, Seen DEF AccountsInv
    <3> QED BY <2>2, <3>2
  <2> QED BY <1>3, <2>1, <2>2
<1> HIDE DEF c
<1>5. CallsOK'
  BY <1>1, <1>2, <1>4 DEF AccountsInv, CallsOK
<1>6. LocksOK'
  BY <1>1, <1>2, AccountsAssumption DEF AccountsInv, LocksOK, Holding, AccountsTyped, Call
<1> QED BY <1>2, <1>4, <1>5, <1>6 DEF AccountsInv, AccountsTyped, Sessions, Backed

LEMMA AgesStep ==
  ASSUME AccountsInv, NEW i \in DOMAIN session, NEW a \in 1..2, Ages(i, a) PROVE AccountsInv'
<1>1. /\ session' = [session EXCEPT ![i].age = a] /\ a \in 0..2
      /\ UNCHANGED <<account, call, rowLock>>
  BY DEF Ages
<1>2. Sessions(session', account) /\ DOMAIN session' = DOMAIN session
  BY <1>1, Seen DEF AccountsInv
<1> QED BY <1>1, <1>2 DEF AccountsInv, AccountsTyped, Sessions, Backed, CallsOK, LocksOK, Holding

\* Validation refuses, the user logs out, or nothing is written.
LEMMA RequestEndsStep ==
  ASSUME AccountsInv, NEW r \in Calls, Refuse(r) \/ Leave(r) \/ Logout(r) \/ LogoutAll(r)
  PROVE  AccountsInv'
<1>1. ~Holding(r) /\ Returns(r) /\ UNCHANGED <<account, rowLock>>
  BY DEF Refuse, Leave, Logout, LogoutAll, Holding
<1>2. session' = session \/ \E I : session' = Revoke(I)
  BY DEF Refuse, Leave, Logout, LogoutAll, RevokeAll
<1>3. Sessions(session', account) /\ DOMAIN session' = DOMAIN session
  BY <1>2, RevokeBacked, Revoking DEF AccountsInv, Sessions
<1>4. call' \in [Calls -> Call] /\ CallsOK' /\ LocksOK'
  BY <1>1, <1>3, Returning DEF Grows
<1> QED BY <1>1, <1>3, <1>4 DEF AccountsInv, AccountsTyped, Sessions, Backed

LEMMA RefuseChangeStep == ASSUME AccountsInv, NEW r \in Calls, RefuseChange(r) PROVE AccountsInv'
<1>1. /\ Holding(r) /\ Returns(r) /\ Unlock(call[r].user) /\ UNCHANGED <<account, session>>
      /\ Grows({call[r].user})
  BY DEF RefuseChange, Holding, Grows
<1>2. /\ call' \in [Calls -> Call] /\ rowLock' \in [Users -> Calls \cup {NoCall}]
      /\ CallsOK' /\ LocksOK'
  BY <1>1, Releasing
<1> QED BY <1>1, <1>2 DEF AccountsInv, AccountsTyped, Sessions, Backed

LEMMA ChangePasswordStep ==
  ASSUME AccountsInv, NEW r \in Calls, NEW new \in Passwords, ChangePassword(r, new)
  PROVE  AccountsInv'
<1> DEFINE u == call[r].user
<1>1. /\ Holding(r) /\ u \in Users /\ rowLock[u] = r
      /\ call[r].row = account[u] /\ account[u].exists /\ account[u].active /\ account[u] \in Account
      /\ session \in Seq(Session) /\ Len(session) < MaxCreated
  BY DEF ChangePassword, CanOpen, Holding, AccountsInv, AccountsTyped, Call, LocksOK, CallsOK, Sessions
<1>2. /\ account' \in [Users -> Account] /\ \A v \in Users \ {u} : account'[v] = account[v]
      /\ account'[u].exists /\ account'[u].active /\ account'[u].password = new
  <2>1. account' = [account EXCEPT ![u] = [account[u] EXCEPT !.password = new, !.must = FALSE]]
    BY DEF ChangePassword
  <2>2. \A a \in Account : [a EXCEPT !.password = new] \in Account BY DEF Account
  <2>3. \A a \in Account : [a EXCEPT !.must = FALSE] \in Account BY DEF Account
  <2>4. [[account[u] EXCEPT !.password = new] EXCEPT !.must = FALSE] \in Account
    BY <1>1, <2>2, <2>3
  <2>5. [account[u] EXCEPT !.password = new, !.must = FALSE] \in Account BY <2>4
  <2> QED BY <1>1, <2>1, <2>5 DEF AccountsInv, AccountsTyped, Account
<1>3. Sessions(RevokeAll(u), account') /\ Len(RevokeAll(u)) = Len(session)
      /\ DOMAIN RevokeAll(u) = DOMAIN session
  BY <1>1, <1>2, RevokeAllBacked, Revoking DEF AccountsInv, RevokeAll
<1>4. Sessions(session', account') /\ DOMAIN session \subseteq DOMAIN session'
  <2>1. session' = Append(RevokeAll(u), Opened(u, new)) BY DEF ChangePassword, ReplaceSessions
  <2>2. Sessions(session', account') BY <1>1, <1>2, <1>3, <2>1, OpenBacked
  <2>3. Opened(u, new) \in Session BY <1>1 DEF Opened, Session
  <2>4. DOMAIN RevokeAll(u) \subseteq DOMAIN session'
    BY <1>3, <2>1, <2>3, AppendProperties, LenProperties DEF Sessions
  <2> QED BY <1>3, <2>2, <2>4
<1>5. Grows({u})
  BY <1>2, <1>4 DEF Grows
<1>6. /\ call' \in [Calls -> Call] /\ rowLock' \in [Users -> Calls \cup {NoCall}]
      /\ CallsOK' /\ LocksOK'
  BY <1>1, <1>5, Releasing DEF ChangePassword
<1> QED BY <1>2, <1>4, <1>6 DEF AccountsInv, AccountsTyped, Sessions, Backed

\* An administrator writes an account nobody holds: its sessions are revoked, or what
\* they rest on stays.
LEMMA Managing ==
  ASSUME AccountsInv, NEW r \in Calls, NEW u \in Users, Manages(r, u),
         account' \in [Users -> Account],
         \A v \in Users \ {u} : account'[v] = account[v],
         account[u].exists => account'[u].exists,
         Sessions(session', account'), DOMAIN session' = DOMAIN session
  PROVE  AccountsInv'
<1>1. ~Holding(r) /\ Returns(r) /\ UNCHANGED rowLock /\ rowLock[u] = NoCall
  BY DEF Manages, Holding
<1>2. Grows({})
  BY <1>1 DEF Grows
<1>3. call' \in [Calls -> Call] /\ CallsOK' /\ LocksOK'
  BY <1>1, <1>2, Returning
<1> QED BY <1>1, <1>3 DEF AccountsInv, AccountsTyped, Sessions, Backed

LEMMA CreateUserStep ==
  ASSUME AccountsInv, NEW r \in Calls, NEW u \in Users, NEW admin \in BOOLEAN, NEW p \in Passwords,
         CreateUser(r, u, admin, p)
  PROVE  AccountsInv'
<1> DEFINE a == [exists |-> TRUE, active |-> TRUE, admin |-> admin, must |-> TRUE, password |-> p]
<1>1. /\ Manages(r, u) /\ ~account[u].exists /\ session' = session
      /\ account' = [account EXCEPT ![u] = a] /\ a \in Account
  BY DEF CreateUser, Account
<1>2. /\ account' \in [Users -> Account] /\ \A v \in Users \ {u} : account'[v] = account[v]
  BY <1>1 DEF AccountsInv, AccountsTyped
<1>3. \A i \in DOMAIN session : session[i].user \in Users
  <2>1. \A i \in DOMAIN session : session[i] \in Session
    BY ElementOfSeq, LenProperties DEF AccountsInv, Sessions
  <2> QED BY <2>1 DEF Session
<1>4. Sessions(session', account')
  BY <1>1, <1>2, <1>3 DEF AccountsInv, Sessions, Backed
<1> QED BY <1>1, <1>2, <1>4, Managing

LEMMA UpdateUserStep ==
  ASSUME AccountsInv, NEW r \in Calls, NEW u \in Users, NEW active \in BOOLEAN, NEW admin \in BOOLEAN,
         UpdateUser(r, u, active, admin)
  PROVE  AccountsInv'
<1>1. /\ Manages(r, u) /\ account[u].exists /\ account[u] \in Account
      /\ account' = [account EXCEPT ![u] = [account[u] EXCEPT !.active = active, !.admin = admin]]
      /\ session' = IF active THEN session ELSE RevokeAll(u)
  BY DEF UpdateUser, AccountsInv, AccountsTyped
<1>2. /\ account' \in [Users -> Account] /\ \A v \in Users \ {u} : account'[v] = account[v]
      /\ account'[u].exists /\ account'[u].active = active
      /\ account'[u].password = account[u].password
  <2>1. [account[u] EXCEPT !.active = active, !.admin = admin] \in Account
    BY <1>1 DEF Account
  <2> QED BY <1>1, <2>1 DEF AccountsInv, AccountsTyped, Account
<1>3. \A i \in DOMAIN session : session[i].user \in Users
  <2>1. \A i \in DOMAIN session : session[i] \in Session
    BY ElementOfSeq, LenProperties DEF AccountsInv, Sessions
  <2> QED BY <2>1 DEF Session
<1>4. Sessions(session', account') /\ DOMAIN session' = DOMAIN session
  <2>1. CASE active
    BY <1>1, <1>2, <1>3, <2>1 DEF AccountsInv, Sessions, Backed
  <2>2. CASE ~active
    BY <1>1, <1>2, <2>2, RevokeAllBacked, Revoking DEF AccountsInv, RevokeAll, Sessions
  <2> QED BY <2>1, <2>2
<1> QED BY <1>1, <1>2, <1>4, Managing

LEMMA ResetPasswordStep ==
  ASSUME AccountsInv, NEW r \in Calls, NEW u \in Users, NEW p \in Passwords, ResetPassword(r, u, p)
  PROVE  AccountsInv'
<1>1. /\ Manages(r, u) /\ account[u].exists /\ account[u] \in Account
      /\ account' = [account EXCEPT ![u] = [account[u] EXCEPT !.password = p, !.must = TRUE]]
      /\ session' = RevokeAll(u)
  BY DEF ResetPassword, AccountsInv, AccountsTyped
<1>2. [account[u] EXCEPT !.password = p, !.must = TRUE] \in Account
  <2>1. \A a \in Account : [a EXCEPT !.password = p] \in Account BY DEF Account
  <2>2. \A a \in Account : [a EXCEPT !.must = TRUE] \in Account BY DEF Account
  <2>3. [[account[u] EXCEPT !.password = p] EXCEPT !.must = TRUE] \in Account
    BY <1>1, <2>1, <2>2
  <2> QED BY <2>3
<1>3. /\ account' \in [Users -> Account] /\ \A v \in Users \ {u} : account'[v] = account[v]
      /\ account'[u].exists
  BY <1>1, <1>2 DEF AccountsInv, AccountsTyped, Account
<1>4. Sessions(session', account') /\ DOMAIN session' = DOMAIN session
  BY <1>1, <1>3, RevokeAllBacked, Revoking DEF AccountsInv, RevokeAll, Sessions
<1> QED BY <1>1, <1>3, <1>4, Managing

LEMMA RevokeSessionsStep ==
  ASSUME AccountsInv, NEW r \in Calls, NEW u \in Users, RevokeSessions(r, u) PROVE AccountsInv'
<1>1. Manages(r, u) /\ account' = account /\ session' = RevokeAll(u)
  BY DEF RevokeSessions
<1>2. Sessions(session', account') /\ DOMAIN session' = DOMAIN session
  BY <1>1, RevokeBacked, Revoking DEF AccountsInv, RevokeAll, Sessions
<1> QED BY <1>1, <1>2, Managing DEF AccountsInv, AccountsTyped

\* Every step of requests, administrators and time keeps the invariant.
LEMMA AccountsInductive == AccountsInv /\ [AccountsNext]_accountVars => AccountsInv'
<1> SUFFICES ASSUME AccountsInv, [AccountsNext]_accountVars PROVE AccountsInv'
  OBVIOUS
<1>1. ASSUME NEW r \in Calls, Request(r) PROVE AccountsInv'
  <2>1. CASE \E u \in Users, p \in Passwords : EnterLogin(r, u, p)
    BY <2>1, EnterLoginStep
  <2>2. CASE FinishLogin(r) BY <2>2, FinishLoginStep
  <2>3. CASE \E i \in DOMAIN session : Present(r, i) BY <2>3, PresentStep
  <2>4. CASE Refuse(r) \/ Leave(r) \/ Logout(r) \/ LogoutAll(r)
    BY <2>4, RequestEndsStep
  <2>5. CASE Accept(r) BY <2>5, AcceptStep
  <2>6. CASE RefuseChange(r) BY <2>6, RefuseChangeStep
  <2>7. CASE \E p \in Passwords : EnterChange(r, p) \/ ChangePassword(r, p)
    BY <2>7, EnterChangeStep, ChangePasswordStep
  <2> QED BY <1>1, <2>1, <2>2, <2>3, <2>4, <2>5, <2>6, <2>7 DEF Request
<1>2. ASSUME NEW r \in Calls, NEW u \in Users, Administer(r, u) PROVE AccountsInv'
  BY <1>2, CreateUserStep, UpdateUserStep, ResetPasswordStep, RevokeSessionsStep DEF Administer
<1>3. ASSUME NEW i \in DOMAIN session, NEW a \in 1..2, Ages(i, a) PROVE AccountsInv'
  BY <1>3, AgesStep
<1>4. CASE UNCHANGED accountVars
  BY <1>4 DEF accountVars, AccountsInv, AccountsTyped, Sessions, Backed, CallsOK, LocksOK, Holding
<1> QED BY <1>1, <1>2, <1>3, <1>4 DEF AccountsNext

-----------------------------------------------------------------------------
(* Theorems.                                                               *)

\* The inductive invariant holds in every reachable state.
THEOREM AccountsInvariance == AccountsSpec => []AccountsInv
<1> QED BY AccountsInitially, AccountsInductive, PTL DEF AccountsSpec

\* Rows and requests have their types, and a row is held by a request that verifies a
\* password of it.
THEOREM AccountsTypeCorrect == AccountsSpec => []AccountsTypeOK
<1>1. AccountsInv => AccountsTypeOK
  <2> SUFFICES ASSUME AccountsInv PROVE AccountsTypeOK
    OBVIOUS
  <2>1. \A r \in Calls : Holding(r) <=> rowLock[call[r].user] = r
    BY AccountsAssumption DEF AccountsInv, AccountsTyped, LocksOK, Call
  <2>2. \A r \in Calls :
          /\ call[r].phase \in {"idle", "login", "validate", "ready", "change"}
          /\ call[r].user \in Users /\ call[r].row \in Account /\ call[r].typed \in Passwords
    BY DEF AccountsInv, AccountsTyped, Call
  <2> QED BY <2>1, <2>2 DEF AccountsInv, AccountsTyped, Sessions, Holding, AccountsTypeOK
<1> QED BY <1>1, AccountsInvariance, PTL

\* A disabled account has no live session, whatever was under way (users.py).
THEOREM DisabledLoggedOut == AccountsSpec => []DisabledHasNoSession
<1>1. AccountsInv => DisabledHasNoSession
  BY DEF AccountsInv, Sessions, Backed, DisabledHasNoSession
<1> QED BY <1>1, AccountsInvariance, PTL

\* No session outlives the password it was opened with (password_change.py).
THEOREM SessionsKeepUp == AccountsSpec => []SessionsFollowPassword
<1>1. AccountsInv => SessionsFollowPassword
  BY DEF AccountsInv, Sessions, Backed, SessionsFollowPassword
<1> QED BY <1>1, AccountsInvariance, PTL

\* A change of one's password under way never undoes a reset (password_change.py).
THEOREM ResetsStand == AccountsSpec => ResetStands
<1>1. AccountsInv /\ AccountsNext => KnewPassword
  <2> SUFFICES ASSUME AccountsInv, AccountsNext, NEW r \in Calls, NEW u \in Users,
                      call[r].phase = "change", call'[r].phase = "idle", call[r].user = u
               PROVE  account'[u] = account[u] \/ call[r].typed = account[u].password
    BY DEF KnewPassword
  <2>1. call[r].row = account[u] BY DEF AccountsInv, LocksOK, Holding
  <2>2. ASSUME NEW q \in Calls, Request(q)
        PROVE  account'[u] = account[u] \/ call[r].typed = account[u].password
    <3>1. CASE \E p \in Passwords : ChangePassword(q, p)
      <4>1. PICK p \in Passwords : ChangePassword(q, p) BY <3>1
      <4>2. CASE q = r BY <2>1, <4>1, <4>2 DEF ChangePassword
      <4>3. CASE q # r BY <4>1, <4>3 DEF ChangePassword, Returns, AccountsInv, AccountsTyped
      <4> QED BY <4>2, <4>3
    <3>2. CASE ~\E p \in Passwords : ChangePassword(q, p)
      BY <2>2, <3>2 DEF Request, EnterLogin, FinishLogin, Present, Refuse, Accept, Leave, Logout,
                        LogoutAll, RefuseChange, EnterChange
    <3> QED BY <3>1, <3>2
  <2>3. ASSUME NEW q \in Calls, NEW v \in Users, Administer(q, v)
        PROVE  FALSE
    <3>1. call[q].phase = "ready" /\ call' = [call EXCEPT ![q] = NoRequest]
      BY <2>3 DEF Administer, CreateUser, UpdateUser, ResetPassword, RevokeSessions, Manages, Returns
    <3> QED BY <3>1 DEF AccountsInv, AccountsTyped
  <2>4. ASSUME NEW i \in DOMAIN session, NEW a \in 1..2, Ages(i, a)
        PROVE  account'[u] = account[u]
    BY <2>4 DEF Ages
  <2> QED BY <2>2, <2>3, <2>4 DEF AccountsNext
<1>2. AccountsInv /\ [AccountsNext]_accountVars => [KnewPassword]_accountVars
  BY <1>1
<1> QED BY <1>2, AccountsInvariance, PTL DEF AccountsSpec, ResetStands

-----------------------------------------------------------------------------
(* LoginLimit.                                                             *)

Keys == Names \cup Addresses
Failure == [keys : SUBSET Keys, time : Nat]
Login == [phase : {"idle", "waiting", "verifying"}, keys : SUBSET Keys, now : Nat]

LimitTyped ==
  /\ clock \in Nat /\ failures \in Seq(Failure)
  /\ login \in [Logins -> Login] /\ keyLock \in [Keys -> Logins \cup {Free}]

\* Nobody waits longer than MaxWait, so the failures are that far out of order at most.
Timely ==
  /\ \A r \in Logins : login[r].phase # "idle" =>
       login[r].now <= clock /\ clock <= login[r].now + MaxWait
  /\ \A i \in DOMAIN failures : failures[i].time <= clock
  /\ \A i, j \in DOMAIN failures : i < j => failures[i].time <= failures[j].time + MaxWait

\* A request that verifies holds its locks, and what it was admitted by still stands.
Admitted ==
  \A r \in Logins : login[r].phase = "verifying" =>
    \A k \in login[r].keys : keyLock[k] = r /\ ~Blocked(k, login[r].now)

Newest(I, S) == \A i \in I, j \in S \ I : failures[j].time <= failures[i].time
Earlier(k, j) == {i \in FailuresOf(k) : i < j}

\* No failure was recorded by a request that those before it should have blocked.
Unblocked ==
  \A j \in DOMAIN failures : \A k \in failures[j].keys :
    \A I \in kSubset(Threshold(k), Earlier(k, j)) :
      Newest(I, Earlier(k, j)) /\ Span(I) <= Window => failures[j].time >= Max(Times(I)) + Block

LimitInv == LimitTyped /\ Timely /\ Admitted /\ Unblocked

-----------------------------------------------------------------------------
(* From the invariant to the bound.                                        *)

LEMMA FailuresTyped ==
  ASSUME LimitTyped
  PROVE  /\ Len(failures) \in Nat /\ DOMAIN failures = 1..Len(failures)
         /\ \A i \in DOMAIN failures : failures[i].time \in Nat /\ failures[i].keys \in SUBSET Keys
<1>1. Len(failures) \in Nat /\ DOMAIN failures = 1..Len(failures)
  BY LenProperties DEF LimitTyped
<1>2. \A i \in DOMAIN failures : failures[i] \in Failure
  BY <1>1, ElementOfSeq DEF LimitTyped
<1> QED
  BY <1>1, <1>2 DEF Failure

\* As many failures as wanted, none of the others newer.
LEMMA NewestExist ==
  ASSUME NEW S, IsFiniteSet(S), NEW t \in [S -> Nat], NEW b \in Nat, \A x \in S : t[x] <= b,
         NEW n \in Nat, n <= Cardinality(S)
  PROVE  \E I \in SUBSET S : Cardinality(I) = n /\ \A i \in I, j \in S \ I : t[j] <= t[i]
<1> DEFINE Good(m) == \E I \in SUBSET S : Cardinality(I) = m /\ \A i \in I, j \in S \ I : t[j] <= t[i]
           Bad == {m \in Nat : m <= Cardinality(S) /\ ~Good(m)}
<1>1. Cardinality(S) \in Nat
  BY FS_CardinalityType
<1>2. SUFFICES ASSUME Bad # {} PROVE FALSE
  OBVIOUS
<1>3. PICK m \in Bad : \A y \in Bad : m <= y
  <2>1. Bad \in SUBSET Nat
    OBVIOUS
  <2> HIDE DEF Bad
  <2> QED
    BY <1>2, <2>1, LeastExists
<1>4. m # 0
  <2>1. Cardinality({}) = 0
    BY FS_EmptySet
  <2>2. Good(0)
    BY <2>1
  <2> QED
    BY <1>3, <2>2
<1>5. m - 1 \in Nat /\ m - 1 < m
  BY <1>3, <1>4
<1>6. Good(m - 1)
  BY <1>1, <1>3, <1>5
<1>7. PICK I \in SUBSET S : Cardinality(I) = m - 1 /\ \A i \in I, j \in S \ I : t[j] <= t[i]
  BY <1>6
<1>8. IsFiniteSet(I)
  BY FS_Subset
<1>9. S \ I # {}
  <2>1. I # S
    BY <1>1, <1>3, <1>5, <1>7
  <2> QED
    BY <2>1
<1> DEFINE T == {t[x] : x \in S \ I}
<1>10. PICK x \in S \ I : \A y \in S \ I : t[y] <= t[x]
  <2>1. T \in SUBSET Nat /\ T # {} /\ \A y \in T : y <= b
    BY <1>9
  <2>2. PICK u \in T : \A y \in T : y <= u
    BY <2>1, GreatestExists
  <2> QED
    BY <2>2
<1>11. Cardinality(I \cup {x}) = m
  <2>1. Cardinality(I \cup {x}) = Cardinality(I) + 1
    BY <1>8, <1>10, FS_AddElement
  <2>2. m \in Nat
    BY <1>3
  <2> QED
    BY <2>1, <2>2, <1>7
<1>12. \A i \in I \cup {x}, j \in S \ (I \cup {x}) : t[j] <= t[i]
  BY <1>7, <1>10
<1>13. Good(m)
  BY <1>11, <1>12
<1> QED
  BY <1>3, <1>13

LEMMA TimesOf ==
  ASSUME LimitTyped, Timely, NEW I, I \subseteq DOMAIN failures, I # {}
  PROVE  /\ Max(Times(I)) \in Nat /\ Min(Times(I)) \in Nat
         /\ \E i \in I : failures[i].time = Max(Times(I))
         /\ \E i \in I : failures[i].time = Min(Times(I))
         /\ \A i \in I : Min(Times(I)) <= failures[i].time /\ failures[i].time <= Max(Times(I))
<1>1. Times(I) \in SUBSET Nat /\ Times(I) # {}
  BY FailuresTyped DEF Times
<1>2. clock \in Nat /\ \A x \in Times(I) : x <= clock
  BY DEF LimitTyped, Timely, Times
<1>3. Max(Times(I)) \in Times(I) /\ \A x \in Times(I) : x <= Max(Times(I))
  BY <1>1, <1>2, MaxOfBounded
<1>4. Min(Times(I)) \in Times(I) /\ \A x \in Times(I) : Min(Times(I)) <= x
  BY <1>1, MinOf
<1> HIDE DEF Max, Min
<1>5. \A i \in I : failures[i].time \in Times(I)
  BY DEF Times
<1>6. \A x \in Times(I) : \E i \in I : failures[i].time = x
  BY DEF Times
<1> QED
  BY <1>1, <1>3, <1>4, <1>5, <1>6

\* The newest failures compare with any as many others.
LEMMA NewestLead ==
  ASSUME LimitTyped, Timely, NEW S, S \subseteq DOMAIN failures,
         NEW I \in SUBSET S, NEW J \in SUBSET S, IsFiniteSet(S),
         Cardinality(I) = Cardinality(J), I # {}, Newest(J, S)
  PROVE  J # {} /\ Max(Times(J)) >= Max(Times(I)) /\ Min(Times(J)) >= Min(Times(I))
<1>1. IsFiniteSet(I) /\ IsFiniteSet(J)
  BY FS_Subset
<1>2. J # {}
  BY <1>1, FS_EmptySet
<1>3. I \subseteq DOMAIN failures /\ J \subseteq DOMAIN failures
  OBVIOUS
<1>4. /\ \A i \in I : Min(Times(I)) <= failures[i].time
      /\ \A j \in J : failures[j].time <= Max(Times(J))
      /\ {Max(Times(J)), Min(Times(J)), Max(Times(I)), Min(Times(I))} \subseteq Nat
  BY <1>2, <1>3, TimesOf
<1>5. PICK i \in I : failures[i].time = Max(Times(I))
  BY <1>3, TimesOf
<1>6. PICK j \in J : failures[j].time = Min(Times(J))
  BY <1>2, <1>3, TimesOf
<1>7. \A x \in DOMAIN failures : failures[x].time \in Nat
  BY FailuresTyped
<1>8. Max(Times(J)) >= Max(Times(I))
  <2>1. CASE i \in J
    BY <2>1, <1>4, <1>5
  <2>2. CASE i \notin J
    <3>1. failures[i].time <= failures[j].time
      BY <2>2 DEF Newest
    <3>2. failures[j].time <= Max(Times(J))
      BY <1>4
    <3> QED
      BY <3>1, <3>2, <1>3, <1>4, <1>5, <1>7
  <2> QED
    BY <2>1, <2>2
<1>9. Min(Times(J)) >= Min(Times(I))
  <2>1. CASE j \in I
    BY <2>1, <1>4, <1>6
  <2>2. CASE j \notin I
    <3>1. ~(I \subseteq J)
      BY <2>2, <1>1, FS_Subset
    <3>2. PICK x \in I : x \notin J
      BY <3>1
    <3>3. failures[x].time <= failures[j].time
      BY <3>2 DEF Newest
    <3>4. Min(Times(I)) <= failures[x].time
      BY <1>4
    <3> QED
      BY <3>3, <3>4, <1>3, <1>4, <1>6, <1>7
  <2> QED
    BY <2>1, <2>2
<1> QED
  BY <1>2, <1>8, <1>9

LEMMA BoundFollows == ASSUME LimitTyped, Timely, Unblocked PROVE GuessesAreBounded
<1> SUFFICES ASSUME NEW k \in Keys,
                    NEW I \in kSubset(Threshold(k), FailuresOf(k)), NEW j \in FailuresOf(k),
                    \A i \in I : i < j, Span(I) + MaxWait <= Window
             PROVE  failures[j].time + MaxWait >= Max(Times(I)) + Block
  BY DEF GuessesAreBounded, Keys
<1>0. /\ Threshold(k) \in Nat \ {0} /\ {MaxWait, Window, Block} \subseteq Nat
  BY LimitAssumption DEF Threshold
<1>1. /\ DOMAIN failures \subseteq Nat
      /\ \A i \in DOMAIN failures : failures[i].time \in Nat /\ failures[i].keys \in SUBSET Keys
  BY FailuresTyped
<1>2. FailuresOf(k) \subseteq DOMAIN failures /\ I \subseteq FailuresOf(k)
  BY DEF FailuresOf, kSubset
<1>3. Cardinality(I) = Threshold(k)
  BY DEF kSubset
<1>4. I # {}
  BY <1>0, <1>3, FS_EmptySet
\* The first failure after them.
<1> DEFINE After == {x \in FailuresOf(k) : \A i \in I : i < x}
<1>5. PICK m \in After : \A x \in After : m <= x
  <2>1. After \in SUBSET Nat /\ j \in After
    BY <1>1, <1>2
  <2> HIDE DEF After
  <2> QED
    BY <2>1, LeastExists
<1>6. m \in FailuresOf(k) /\ m \in DOMAIN failures /\ k \in failures[m].keys /\ m <= j
  BY <1>5, <1>2 DEF FailuresOf
<1> DEFINE E == Earlier(k, m)
<1>7. E \subseteq DOMAIN failures /\ IsFiniteSet(E) /\ I \subseteq E
  <2>1. E \subseteq DOMAIN failures /\ I \subseteq E
    BY <1>2, <1>5 DEF Earlier
  <2>2. IsFiniteSet(1..Len(failures))
    <3>1. 0 \in Int /\ 1 \in Int /\ Len(failures) \in Int
      BY FailuresTyped
    <3> QED
      BY <3>1, FS_Interval
  <2> QED
    BY <2>1, <2>2, FailuresTyped, FS_Subset
<1>8. PICK J \in SUBSET E : Cardinality(J) = Threshold(k) /\ Newest(J, E)
  <2> DEFINE t == [x \in E |-> failures[x].time]
  <2>1. t \in [E -> Nat]
    BY <1>1, <1>7
  <2>2. clock \in Nat /\ \A x \in E : t[x] <= clock
    BY <1>7 DEF LimitTyped, Timely
  <2>3. Threshold(k) <= Cardinality(E)
    BY <1>3, <1>7, FS_Subset
  <2>4. \E J \in SUBSET E : Cardinality(J) = Threshold(k) /\ \A i \in J, x \in E \ J : t[x] <= t[i]
    <3> HIDE DEF t, E
    <3> QED
      BY <2>1, <2>2, <2>3, <1>0, <1>7, NewestExist
  <2> QED
    BY <2>4 DEF Newest
<1>9. J # {} /\ Max(Times(J)) >= Max(Times(I)) /\ Min(Times(J)) >= Min(Times(I))
  <2> HIDE DEF E
  <2> QED
    BY <1>3, <1>4, <1>7, <1>8, NewestLead
<1>10. /\ {Max(Times(J)), Min(Times(J)), Max(Times(I)), Min(Times(I))} \subseteq Nat
       /\ \A i \in I : failures[i].time <= Max(Times(I))
  BY <1>4, <1>7, <1>9, TimesOf
<1>11. Max(Times(J)) <= Max(Times(I)) + MaxWait
  <2>1. PICK x \in J : failures[x].time = Max(Times(J))
    BY <1>7, <1>9, TimesOf
  <2>2. x \in FailuresOf(k) /\ x < m
    BY <1>8 DEF Earlier
  <2>3. ~(m <= x)
    BY <2>2, <1>1, <1>2, <1>6
  <2>4. PICK i \in I : ~(i < x)
    BY <2>2, <2>3, <1>5
  <2>5. i \in DOMAIN failures /\ x \in DOMAIN failures /\ (x < i \/ x = i)
    BY <2>2, <2>4, <1>1, <1>2
  <2>6. failures[x].time <= failures[i].time + MaxWait
    BY <2>5, <1>0, <1>1 DEF Timely
  <2> QED
    BY <2>1, <2>5, <2>6, <1>0, <1>1, <1>10
<1>12. Span(J) <= Window
  BY <1>0, <1>9, <1>10, <1>11 DEF Span
<1>13. J \in kSubset(Threshold(k), E)
  BY <1>8 DEF kSubset
<1>14. failures[m].time >= Max(Times(J)) + Block
  BY <1>6, <1>8, <1>12, <1>13 DEF Unblocked
<1>15. failures[m].time <= failures[j].time + MaxWait
  BY <1>0, <1>1, <1>2, <1>6 DEF Timely
<1> QED
  BY <1>0, <1>1, <1>2, <1>6, <1>9, <1>10, <1>14, <1>15

-----------------------------------------------------------------------------
(* The steps.                                                              *)

LEMMA LimitInitially == LimitInit => LimitInv
<1> SUFFICES ASSUME LimitInit PROVE LimitInv
  OBVIOUS
<1>1. LimitTyped
  BY DEF LimitInit, LimitTyped, NoLogin, Login, Keys
<1>2. DOMAIN failures = {}
  BY DEF LimitInit
<1>3. Timely /\ Admitted /\ Unblocked
  BY <1>2 DEF Timely, Admitted, Unblocked, LimitInit, NoLogin
<1> QED
  BY <1>1, <1>3 DEF LimitInv

\* What concerns the failures only.
LEMMA SameFailures ==
  ASSUME UNCHANGED failures
  PROVE  /\ \A k, now : Blocked(k, now)' <=> Blocked(k, now)
         /\ Unblocked' <=> Unblocked
BY DEF Blocked, Unblocked, Earlier, Newest, FailuresOf, Span, Times, Max, Min

LEMMA TickStep == ASSUME LimitInv, TickLimit PROVE LimitInv'
<1>1. LimitTyped'
  BY DEF LimitInv, LimitTyped, TickLimit
<1>2. Timely'
  BY FailuresTyped, LimitAssumption DEF LimitInv, LimitTyped, Login, Timely, TickLimit
<1>3. Admitted' /\ Unblocked'
  BY SameFailures DEF LimitInv, Admitted, TickLimit
<1> QED
  BY <1>1, <1>2, <1>3 DEF LimitInv

LEMMA ArriveStep == ASSUME LimitInv, NEW r \in Logins, NEW keys \in Origins, Arrive(r, keys) PROVE LimitInv'
<1>1. LimitTyped'
  BY LimitAssumption DEF LimitInv, LimitTyped, Arrive, Login, Keys
<1>2. Timely'
  BY LimitAssumption DEF LimitInv, LimitTyped, Login, Timely, Arrive
<1>3. Admitted'
  BY SameFailures DEF LimitInv, LimitTyped, Admitted, Arrive
<1>4. Unblocked'
  BY SameFailures DEF LimitInv, Arrive
<1> QED
  BY <1>1, <1>2, <1>3, <1>4 DEF LimitInv

LEMMA AdmitStep == ASSUME LimitInv, NEW r \in Logins, Admit(r) PROVE LimitInv'
<1>1. LimitTyped'
  BY DEF LimitInv, LimitTyped, Admit, Login
<1>2. Timely'
  BY DEF LimitInv, LimitTyped, Login, Timely, Admit
<1>3. Admitted'
  <2> SUFFICES ASSUME NEW q \in Logins, login'[q].phase = "verifying",
                      NEW k \in login'[q].keys, NEW now, now = login'[q].now
               PROVE  keyLock'[k] = q /\ ~Blocked(k, now)'
    BY DEF Admitted, Blocked
  <2>1. k \in Keys /\ login'[q].keys = login[q].keys /\ login'[q].now = login[q].now
    BY DEF LimitInv, LimitTyped, Login, Admit
  <2>2. Blocked(k, now)' <=> Blocked(k, login[q].now)
    BY <2>1, SameFailures DEF Admit
  <2>3. CASE q = r
    BY <2>1, <2>2, <2>3 DEF LimitInv, LimitTyped, Admit
  <2>4. CASE q # r
    <3>1. keyLock[k] = q /\ ~Blocked(k, login[q].now)
      BY <2>1, <2>4 DEF LimitInv, LimitTyped, Admitted, Admit
    <3>2. k \notin login[r].keys
      BY <3>1, LimitAssumption DEF Admit, Locked
    <3> QED
      BY <2>1, <2>2, <3>1, <3>2 DEF LimitInv, LimitTyped, Admit
  <2> QED
    BY <2>3, <2>4
<1>4. Unblocked'
  BY SameFailures DEF LimitInv, Admit
<1> QED
  BY <1>1, <1>2, <1>3, <1>4 DEF LimitInv

\* The end of a request takes nothing from the others.
LEMMA Ending ==
  ASSUME LimitInv, NEW r \in Logins, Done(r)
  PROVE  /\ clock' = clock /\ login' \in [Logins -> Login] /\ keyLock' \in [Keys -> Logins \cup {Free}]
         /\ login'[r].phase = "idle"
         /\ \A q \in Logins \ {r} : login'[q] = login[q]
         /\ \A q \in Logins \ {r}, k \in Keys : keyLock[k] = q => keyLock'[k] = q
<1>1. NoLogin \in Login /\ NoLogin.phase = "idle"
  BY DEF NoLogin, Login
<1> QED
  BY <1>1 DEF LimitInv, LimitTyped, Done

LEMMA QuietStep == ASSUME LimitInv, NEW r \in Logins, Done(r), UNCHANGED failures PROVE LimitInv'
<1>1. LimitTyped' /\ Timely'
  BY Ending DEF LimitInv, LimitTyped, Timely
<1>2. Admitted'
  <2> SUFFICES ASSUME NEW q \in Logins, login'[q].phase = "verifying",
                      NEW k \in login'[q].keys, NEW now, now = login'[q].now
               PROVE  keyLock'[k] = q /\ ~Blocked(k, now)'
    BY DEF Admitted, Blocked
  <2>1. q # r /\ login'[q] = login[q] /\ k \in Keys
    BY Ending DEF LimitInv, LimitTyped, Login
  <2>2. keyLock[k] = q /\ ~Blocked(k, now)
    BY <2>1 DEF LimitInv, Admitted
  <2> QED
    BY <2>1, <2>2, Ending, SameFailures
<1>3. Unblocked'
  BY SameFailures DEF LimitInv
<1> QED
  BY <1>1, <1>2, <1>3 DEF LimitInv

LEMMA TimesKept ==
  ASSUME NEW I, \A i \in I : failures'[i] = failures[i]
  PROVE  Times(I)' = Times(I) /\ Span(I)' = Span(I)
<1>1. Times(I)' = Times(I)
  BY DEF Times
<1> QED
  BY <1>1 DEF Span

LEMMA FailLoginStep == ASSUME LimitInv, NEW r \in Logins, FailLogin(r) PROVE LimitInv'
<1> DEFINE new == [keys |-> login[r].keys, time |-> login[r].now]
           n == Len(failures)
<1>1. new \in Failure /\ new.keys = login[r].keys /\ new.time = login[r].now
  BY DEF LimitInv, LimitTyped, Login, Failure
<1>2. /\ failures' \in Seq(Failure) /\ DOMAIN failures' = DOMAIN failures \cup {n + 1}
      /\ \A i \in DOMAIN failures : failures'[i] = failures[i] /\ i < n + 1
      /\ failures'[n + 1] = new /\ n + 1 \notin DOMAIN failures /\ n \in Nat
      /\ DOMAIN failures \subseteq Nat
  <2>1. failures' = Append(failures, new) /\ failures \in Seq(Failure)
    BY DEF FailLogin, LimitInv, LimitTyped
  <2>2. /\ failures' \in Seq(Failure) /\ Len(failures') = n + 1
        /\ \A i \in 1..n : failures'[i] = failures[i]
        /\ failures'[n + 1] = new
    BY <1>1, <2>1, AppendProperties
  <2>3. n \in Nat /\ DOMAIN failures = 1..n /\ DOMAIN failures' = 1..(n + 1)
    BY <2>1, <2>2, LenProperties
  <2> HIDE DEF new, n
  <2> QED
    BY <2>2, <2>3
<1>3. Done(r) /\ login[r].phase = "verifying"
  BY DEF FailLogin
<1> HIDE DEF new, n
<1>4. LimitTyped'
  BY <1>2, <1>3, Ending DEF LimitInv, LimitTyped
<1>5. Timely'
  <2>1. login[r].now <= clock /\ clock <= login[r].now + MaxWait
    BY <1>3 DEF LimitInv, Timely
  <2>2. clock \in Nat /\ login[r].now \in Nat /\ MaxWait \in Nat
    BY LimitAssumption DEF LimitInv, LimitTyped, Login
  <2>3. \A i \in DOMAIN failures' : failures'[i].time <= clock'
    BY <1>1, <1>2, <1>3, <2>1, Ending DEF LimitInv, Timely
  <2>4. \A i, j \in DOMAIN failures' : i < j => failures'[i].time <= failures'[j].time + MaxWait
    <3> SUFFICES ASSUME NEW i \in DOMAIN failures', NEW j \in DOMAIN failures', i < j
                 PROVE  failures'[i].time <= failures'[j].time + MaxWait
      OBVIOUS
    <3>1. i \in DOMAIN failures
      BY <1>2
    <3>2. failures[i].time \in Nat /\ failures[i].time <= clock
      BY <3>1, FailuresTyped DEF LimitInv, Timely
    <3>3. CASE j = n + 1
      BY <1>1, <1>2, <2>1, <2>2, <3>1, <3>2, <3>3
    <3>4. CASE j # n + 1
      BY <1>2, <3>1, <3>4 DEF LimitInv, Timely
    <3> QED
      BY <3>3, <3>4
  <2>5. \A q \in Logins : login'[q].phase # "idle" =>
          login'[q].now <= clock' /\ clock' <= login'[q].now + MaxWait
    BY <1>3, Ending DEF LimitInv, Timely
  <2> QED
    BY <2>3, <2>4, <2>5 DEF Timely
<1>6. Admitted'
  <2> SUFFICES ASSUME NEW q \in Logins, login'[q].phase = "verifying",
                      NEW k \in login'[q].keys, NEW now, now = login'[q].now
               PROVE  keyLock'[k] = q /\ ~Blocked(k, now)'
    BY DEF Admitted, Blocked
  <2>1. q # r /\ login'[q] = login[q] /\ k \in Keys
    BY <1>3, Ending DEF LimitInv, LimitTyped, Login
  <2>2. keyLock[k] = q /\ ~Blocked(k, login[q].now)
    BY <2>1 DEF LimitInv, Admitted
  <2>3. k \notin login[r].keys
    BY <1>3, <2>1, <2>2 DEF LimitInv, Admitted
  <2>4. FailuresOf(k)' = FailuresOf(k) /\ \A i \in FailuresOf(k) : failures'[i] = failures[i]
    BY <1>1, <1>2, <2>3 DEF FailuresOf
  <2>5. ASSUME NEW I \in kSubset(Threshold(k), FailuresOf(k))
        PROVE  Times(I)' = Times(I) /\ Span(I)' = Span(I)
    BY <2>4, TimesKept DEF kSubset
  <2>6. ~Blocked(k, now)'
    <3>1. Blocked(k, now)' => Blocked(k, now)
      BY <2>4, <2>5 DEF Blocked, kSubset
    <3> QED
      BY <2>1, <2>2, <3>1
  <2> QED
    BY <1>3, <2>1, <2>2, <2>6, Ending
<1>7. Unblocked'
  <2> SUFFICES ASSUME NEW j \in DOMAIN failures', NEW k \in failures'[j].keys,
                      NEW I \in kSubset(Threshold(k), Earlier(k, j)'),
                      Newest(I, Earlier(k, j))', Span(I)' <= Window
               PROVE  failures'[j].time >= Max(Times(I)') + Block
    BY DEF Unblocked
  <2>1. Earlier(k, j)' = {i \in FailuresOf(k) : i < j}
    <3>1. \A i \in DOMAIN failures' : i < j => i \in DOMAIN failures
      BY <1>2
    <3> QED
      BY <1>2, <3>1 DEF Earlier, FailuresOf
  <2>2. \A i \in Earlier(k, j)' : i \in DOMAIN failures /\ failures'[i] = failures[i]
    BY <1>2, <2>1 DEF FailuresOf
  <2>3. I \subseteq Earlier(k, j)'
    BY DEF kSubset
  <2>4. Times(I)' = Times(I) /\ Span(I)' = Span(I)
    BY <2>2, <2>3, TimesKept
  <2>5. Newest(I, Earlier(k, j)')
    BY <2>2, <2>3 DEF Newest
  <2>6. CASE j \in DOMAIN failures
    <3>1. k \in failures[j].keys /\ failures'[j] = failures[j] /\ Earlier(k, j)' = Earlier(k, j)
      BY <1>2, <2>1, <2>6 DEF Earlier
    <3> QED
      BY <2>4, <2>5, <2>6, <3>1 DEF LimitInv, Unblocked
  <2>7. CASE j = n + 1
    <3>1. k \in login[r].keys /\ failures'[j].time = login[r].now
      BY <1>1, <1>2, <2>7
    <3>2. Earlier(k, j)' = FailuresOf(k)
      BY <1>2, <2>1, <2>7 DEF FailuresOf
    <3>3. ~Blocked(k, login[r].now)
      BY <1>3, <3>1 DEF LimitInv, Admitted
    <3>4. ~(login[r].now < Max(Times(I)) + Block)
      BY <2>4, <2>5, <3>2, <3>3 DEF Blocked, Newest
    <3>5. Max(Times(I)) \in Nat /\ Block \in Nat /\ login[r].now \in Nat
      <4>1. I \subseteq DOMAIN failures
        BY <2>2, <2>3
      <4>2. I # {}
        <5>1. Cardinality(I) = Threshold(k) /\ Threshold(k) \in Nat \ {0}
          BY LimitAssumption DEF kSubset, Threshold
        <5> QED
          BY <5>1, FS_EmptySet
      <4> QED
        BY <4>1, <4>2, TimesOf, LimitAssumption DEF LimitInv, LimitTyped, Login
    <3> QED
      BY <2>4, <3>1, <3>4, <3>5
  <2> QED
    BY <1>2, <2>6, <2>7
<1> QED
  BY <1>4, <1>5, <1>6, <1>7 DEF LimitInv

LEMMA LimitInductive == LimitInv /\ [LimitNext]_limitVars => LimitInv'
<1> SUFFICES ASSUME LimitInv, [LimitNext]_limitVars PROVE LimitInv'
  OBVIOUS
<1>1. CASE TickLimit
  BY <1>1, TickStep
<1>2. ASSUME NEW r \in Logins, NEW keys \in Origins, Arrive(r, keys) PROVE LimitInv'
  BY <1>2, ArriveStep
<1>3. ASSUME NEW r \in Logins, Admit(r) PROVE LimitInv'
  BY <1>3, AdmitStep
<1>4. ASSUME NEW r \in Logins, Limit(r) \/ EndLogin(r) PROVE LimitInv'
  BY <1>4, QuietStep DEF Limit, EndLogin
<1>5. ASSUME NEW r \in Logins, FailLogin(r) PROVE LimitInv'
  BY <1>5, FailLoginStep
<1>6. CASE UNCHANGED limitVars
  <2>1. LimitTyped' /\ Timely'
    BY <1>6 DEF LimitInv, LimitTyped, Timely, limitVars
  <2>2. Admitted' /\ Unblocked'
    BY <1>6, SameFailures DEF LimitInv, Admitted, limitVars
  <2> QED
    BY <2>1, <2>2 DEF LimitInv
<1> QED
  BY <1>1, <1>2, <1>3, <1>4, <1>5, <1>6 DEF LimitNext

\* The invariant of the rate limit: the locks, the order of the times, and that every
\* failure was admitted by those recorded before it (AuthenticationService.authenticate).
THEOREM LimitInvariance == LimitSpec => []LimitInv
<1>1. LimitInit => LimitInv
  BY LimitInitially
<1>2. LimitInv /\ [LimitNext]_limitVars => LimitInv'
  BY LimitInductive
<1> QED
  BY <1>1, <1>2, PTL DEF LimitSpec

\* However many requests overlap, and however long each waits up to MaxWait, a name or an
\* address that has failed too often fails again only a block later, up to that wait
\* (_retry_after_seconds).
THEOREM GuessingIsBounded == LimitSpec => []GuessesAreBounded
<1>1. LimitInv => GuessesAreBounded
  BY BoundFollows DEF LimitInv
<1> QED
  BY <1>1, LimitInvariance, PTL
=============================================================================
