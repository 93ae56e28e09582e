--------------------------- MODULE MCAdministration ---------------------------
(* Small instances of Accounts, LoginLimit, Avatars and Schedule in one    *)
(* run.  They share no state, so one of them, chosen at the start, moves   *)
(* and the others rest.                                                    *)
EXTENDS Accounts, LoginLimit, Avatars, Schedule, TLC
VARIABLE moving
MCDaily(on, interval, start, end) ==
  [enabled |-> on, interval |-> interval, start |-> start, end |-> end]
MCSchedules ==
  {MCDaily(TRUE, 3, 1, 8), MCDaily(TRUE, 3, 7, 4), MCDaily(TRUE, 4, 0, 9), MCDaily(FALSE, 3, 1, 8)}
MCInit ==
  /\ AccountsInit /\ LimitInit /\ AvatarsInit /\ ScheduleInit
  /\ moving \in {"accounts", "limit", "avatars", "schedule"}
  /\ moving # "schedule" => settings = MCDaily(FALSE, 3, 1, 8)
MCNext ==
  /\ moving = "accounts" => AccountsNext
  /\ moving = "limit" => LimitNext
  /\ moving = "avatars" => AvatarsNext
  /\ moving = "schedule" => ScheduleNext
  /\ moving # "accounts" => UNCHANGED accountVars
  /\ moving # "limit" => UNCHANGED limitVars
  /\ moving # "avatars" => UNCHANGED avatarVars
  /\ moving # "schedule" => UNCHANGED scheduleVars
  /\ UNCHANGED moving
MCSpec == MCInit /\ [][MCNext]_<<accountVars, limitVars, avatarVars, scheduleVars, moving>>
MCSymmetry == {c @@ l : c \in Permutations(Calls), l \in Permutations(Logins)}
=============================================================================
