-------------------------------- MODULE Schedule -------------------------------
(***************************************************************************)
(* The collection schedule: when the next collection is due, the loop that *)
(* waits for it while administrators change the settings, and the key of   *)
(* the task it asks for.                                                   *)
(*                                                                         *)
(* Time is counted in steps of a local clock without changes of the zone.  *)
(* The scheduler is a process of its own, so it sees new settings only     *)
(* when it reads them.  Settings are [enabled, interval, start, end].      *)
(***************************************************************************)
EXTENDS Naturals

CONSTANTS
  Day,        \* steps of a day
  Schedules,  \* settings an administrator may save
  Poll,       \* SETTINGS_POLL_SECONDS
  Retry,      \* the minute after an error
  LastTime,   \* bound
  MaxChanges, MaxErrors  \* bounds

ASSUME ScheduleAssumption ==
  /\ {Day, Poll, Retry} \subseteq Nat \ {0} /\ {LastTime, MaxChanges, MaxErrors} \subseteq Nat
  /\ Schedules \subseteq [enabled : BOOLEAN, interval : Nat \ {0},
                          start : 0..(Day - 1), end : 0..(Day - 1)]
  /\ \A s \in Schedules : s.start # s.end

VARIABLES
  time,
  settings,  \* the row of collection_settings
  changed,   \* when it was saved, and how often
  waker,     \* the loop
  asked,     \* since then, when the loop has asked for a collection
  missed,    \* times an error or a running collection has cost
  started,   \* collection tasks created: when, and the interval in their key
  errors     \* and collisions with a running collection

scheduleVars == <<time, settings, changed, waker, asked, missed, started, errors>>

-----------------------------------------------------------------------------
Start(s, day) == day * Day + s.start
End(s, day) == day * Day + s.end

\* Fault: after midnight the window of yesterday is forgotten.
WindowDayToday(now, s) ==
  IF s.start < s.end /\ now >= End(s, now \div Day) THEN now \div Day + 1 ELSE now \div Day

\* The day of the window that is open or comes next.
WindowDay(now, s) ==
  LET today == now \div Day
      clock == now % Day
  IN  CASE s.start < s.end                      -> IF now < End(s, today) THEN today ELSE today + 1
        [] s.start > s.end /\ clock < s.end     -> today - 1
        [] OTHER                                -> today

WindowEnd(s, day) == IF s.start < s.end THEN End(s, day) ELSE End(s, day + 1)

Steps(elapsed, interval) == (elapsed + interval - 1) \div interval

\* next_run_at
NextRun(now, s) ==
  LET day == WindowDay(now, s)
      start == Start(s, day)
      candidate == start + Steps(now - start, s.interval) * s.interval
  IN  IF now <= start THEN start
      ELSE IF candidate < WindowEnd(s, day) THEN candidate ELSE Start(s, day + 1)

-----------------------------------------------------------------------------
ScheduleInit ==
  /\ time = Day /\ settings \in Schedules /\ changed = [at |-> Day, times |-> 0]
  /\ waker = [phase |-> "awake", wake |-> 0, due |-> FALSE]
  /\ asked = {} /\ missed = {} /\ started = {} /\ errors = 0

\* update_collection_settings
SaveSettings(s) ==
  /\ changed.times < MaxChanges /\ s # settings
  /\ settings' = s /\ changed' = [at |-> time, times |-> changed.times + 1]
  /\ asked' = {}
  /\ UNCHANGED <<time, waker, missed, started, errors>>

\* load_collection_schedule, next_run_at and the wait, never longer than Poll.
PlanWait ==
  /\ waker.phase = "awake"
  /\ LET remaining == NextRun(time, settings) - time
         due == settings.enabled /\ remaining <= Poll
     IN  waker' = [phase |-> "asleep", due |-> due,
                   wake |-> time + (IF due THEN remaining ELSE Poll)]
  /\ UNCHANGED <<time, settings, changed, asked, missed, started, errors>>

WakeUp ==
  /\ waker.phase = "asleep" /\ time = waker.wake
  /\ waker' = [waker EXCEPT !.phase = IF waker.due THEN "asking" ELSE "awake"]
  /\ UNCHANGED <<time, settings, changed, asked, missed, started, errors>>

Slot(t, interval) == t \div interval

\* run_once, which reads the settings again for the key of the task, but not whether
\* they are still enabled.
RunOnce ==
  /\ waker.phase = "asking"
  /\ asked' = asked \cup {time}
  /\ LET i == settings.interval
         known == \E task \in started :
                    task.interval = i /\ Slot(task.time, i) = Slot(time, i)
     IN  started' = IF known THEN started ELSE started \cup {[time |-> time, interval |-> i]}
  /\ time' = time + 1
  /\ waker' = [waker EXCEPT !.phase = "awake"]
  /\ UNCHANGED <<settings, changed, missed, errors>>

\* ActiveTaskConflict: the collection asked for before has not ended.
RunConflicts ==
  /\ waker.phase = "asking" /\ started # {} /\ errors < MaxErrors
  /\ errors' = errors + 1
  /\ asked' = asked \cup {time} /\ missed' = missed \cup {time}
  /\ time' = time + 1
  /\ waker' = [waker EXCEPT !.phase = "awake"]
  /\ UNCHANGED <<settings, changed, started>>

\* The database cannot be reached, for the settings or for the task: what is due within
\* the minute is given up, not tried again.
RunFails ==
  /\ waker.phase # "asleep" /\ errors < MaxErrors
  /\ errors' = errors + 1
  /\ missed' = missed \cup time..(time + Retry)
  /\ time' = time + 1
  /\ waker' = [phase |-> "asleep", wake |-> time + Retry, due |-> FALSE]
  /\ UNCHANGED <<settings, changed, asked, started>>

PassTime ==
  /\ waker.phase = "asleep" /\ time < waker.wake /\ time < LastTime
  /\ time' = time + 1
  /\ UNCHANGED <<settings, changed, waker, asked, missed, started, errors>>

ScheduleNext ==
  \/ \E s \in Schedules : SaveSettings(s)
  \/ PlanWait \/ WakeUp \/ RunOnce \/ RunConflicts \/ RunFails \/ PassTime

ScheduleSpec == ScheduleInit /\ [][ScheduleNext]_scheduleVars

-----------------------------------------------------------------------------
(* Property.                                                               *)

\* What the settings mean: every `interval` from the start of each day's window, until
\* before its end, which is on the next day if it is not after the start.
Moment(t, s) ==
  \E day \in 0..(t \div Day) :
     LET open == day * Day + s.start
         close == day * Day + s.end + (IF s.end < s.start THEN Day ELSE 0)
     IN  t >= open /\ t < close /\ (t - open) % s.interval = 0

Settled(t) == t > changed.at + Poll

\* Once the loop has seen the settings, it asks for a collection at every moment they
\* name and at no other time, unless it failed to ask; and what it asks for is started
\* unless another is running or was started less than an interval before (scheduler.py).
AsksAtEveryMoment ==
  /\ settings.enabled =>
       \A t \in 0..(time - 1) : Moment(t, settings) /\ Settled(t) => t \in asked \cup missed
  /\ \A t \in asked : Settled(t) => settings.enabled /\ Moment(t, settings)
  /\ \A t \in asked \ missed : Settled(t) =>
       \E task \in started : task.interval = settings.interval /\ task.time <= t
                             /\ t < task.time + settings.interval
=============================================================================
