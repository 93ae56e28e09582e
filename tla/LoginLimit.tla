------------------------------ MODULE LoginLimit ------------------------------
(***************************************************************************)
(* The rate limit of logins: failures counted by name and by address.      *)
(*                                                                         *)
(* A request notes the time before it waits for the advisory locks of its  *)
(* name and its address, which it then holds until it has recorded the     *)
(* outcome.  Time is in units of the window and the block.                 *)
(***************************************************************************)
EXTENDS Naturals, Sequences, FiniteSets, FiniteSetsExt

CONSTANTS
  Names, Addresses,    \* what is locked and counted
  Origins,             \* for each request its name and, if that is known, its address
  Logins,              \* requests in progress
  Free,                \* not a request
  NameThreshold,       \* auth_login_max_attempts_per_username
  AddressThreshold,    \* auth_login_max_attempts_per_ip
  Window, Block,       \* auth_login_attempt_window_minutes, auth_login_block_minutes
  MaxWait,             \* the longest a request waits for its locks
  MaxClock, MaxFailures \* bounds

ASSUME LimitAssumption ==
  /\ Names \cap Addresses = {} /\ Origins \subseteq SUBSET (Names \cup Addresses) /\ Free \notin Logins
  /\ {NameThreshold, AddressThreshold, Window, Block} \subseteq Nat \ {0}
  /\ {MaxWait, MaxClock, MaxFailures} \subseteq Nat

VARIABLES
  clock,
  failures,   \* login_attempts that were not successful, in the order of their commits
  login,      \* what each request knows
  keyLock     \* the request that holds the advisory lock of each name and address

limitVars == <<clock, failures, login, keyLock>>

-----------------------------------------------------------------------------
NoLogin == [phase |-> "idle", keys |-> {}, now |-> 0]

LimitInit ==
  /\ clock = 0 /\ failures = <<>>
  /\ login = [r \in Logins |-> NoLogin]
  /\ keyLock = [k \in Names \cup Addresses |-> Free]

Threshold(k) == IF k \in Names THEN NameThreshold ELSE AddressThreshold
FailuresOf(k) == {i \in DOMAIN failures : k \in failures[i].keys}
Times(I) == {failures[i].time : i \in I}
Span(I) == Max(Times(I)) - Min(Times(I))

\* _retry_after_seconds of the newest failures, as many as the threshold.
Blocked(k, now) ==
  \E I \in kSubset(Threshold(k), FailuresOf(k)) :
    /\ \A i \in I, j \in FailuresOf(k) \ I : failures[j].time <= failures[i].time
    /\ Span(I) <= Window /\ now < Max(Times(I)) + Block

-----------------------------------------------------------------------------
Arrive(r, keys) ==
  /\ login[r].phase = "idle"
  /\ login' = [login EXCEPT ![r] = [phase |-> "waiting", keys |-> keys, now |-> clock]]
  /\ UNCHANGED <<clock, failures, keyLock>>

Done(r) ==
  /\ login' = [login EXCEPT ![r] = NoLogin]
  /\ keyLock' = [k \in DOMAIN keyLock |-> IF keyLock[k] = r THEN Free ELSE keyLock[k]]
  /\ UNCHANGED clock

\* Fault: only the name is locked.
LockedName(r) == \A k \in login[r].keys \cap Names : keyLock[k] = Free

\* Both locks; they are taken in the order of their keys, so nobody waits in a circle.
Locked(r) == \A k \in login[r].keys : keyLock[k] = Free

Admit(r) ==
  /\ login[r].phase = "waiting" /\ Locked(r)
  /\ \A k \in login[r].keys : ~Blocked(k, login[r].now)
  /\ login' = [login EXCEPT ![r].phase = "verifying"]
  /\ keyLock' = [k \in DOMAIN keyLock |-> IF k \in login[r].keys THEN r ELSE keyLock[k]]
  /\ UNCHANGED <<clock, failures>>

\* A blocked request leaves no trace.
Limit(r) ==
  /\ login[r].phase = "waiting" /\ Locked(r)
  /\ \E k \in login[r].keys : Blocked(k, login[r].now)
  /\ Done(r) /\ UNCHANGED failures

FailLogin(r) ==
  /\ login[r].phase = "verifying" /\ Len(failures) < MaxFailures
  /\ failures' = Append(failures, [keys |-> login[r].keys, time |-> login[r].now])
  /\ Done(r)

\* Recorded as well, but never counted; or the request dies.
EndLogin(r) ==
  /\ login[r].phase = "verifying"
  /\ Done(r) /\ UNCHANGED failures

TickLimit ==
  /\ clock < MaxClock
  /\ \A r \in Logins : login[r].phase = "idle" \/ clock < login[r].now + MaxWait
  /\ clock' = clock + 1
  /\ UNCHANGED <<failures, login, keyLock>>

LimitNext ==
  \/ TickLimit
  \/ \E r \in Logins :
       \/ \E keys \in Origins : Arrive(r, keys)
       \/ Admit(r) \/ Limit(r) \/ FailLogin(r) \/ EndLogin(r)

LimitSpec == LimitInit /\ [][LimitNext]_limitVars

-----------------------------------------------------------------------------
(* Property.                                                               *)

\* Once a name or an address has seen its threshold of failures within the window, the
\* ones that follow are a block later (authentication.py).  A request notes the time
\* before it waits for its locks, so failures are committed out of their order by as much
\* as the longest wait, and it costs the window and the block that much: the newest
\* failures, which the code compares, may span more than those of the guesser.
GuessesAreBounded ==
  \A k \in Names \cup Addresses :
    \A I \in kSubset(Threshold(k), FailuresOf(k)), j \in FailuresOf(k) :
      (\A i \in I : i < j) /\ Span(I) + MaxWait <= Window
        => failures[j].time + MaxWait >= Max(Times(I)) + Block
=============================================================================
