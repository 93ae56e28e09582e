----------------------------- MODULE Publication -----------------------------
(***************************************************************************)
(* How one editorial material reaches a MAX channel: its queue_items row,  *)
(* its publications and publication_attempts rows, its publication task,   *)
(* and the processes that change them: workers running the publication     *)
(* handler, requests of editors (synchronous publishing, checking the      *)
(* channel, editorial moves) and the publication scheduler.                *)
(*                                                                         *)
(* A request loads the rows in its own session, decides, and writes later. *)
(* SELECT ... FOR UPDATE does not refresh an object the session already    *)
(* holds, and an UPDATE carries only the columns whose value differs from  *)
(* the loaded one.  OpenWindows names the operations whose load and write  *)
(* other steps may separate; the other operations are one step.            *)
(***************************************************************************)
EXTENDS Naturals, Sequences, FiniteSets

CONSTANTS
  Actors,       \* workers and requests that can be in the middle of something
  NoActor,      \* the holder of a task nobody may finish
  OpenWindows,  \* operations whose load and write are separate steps
  MaxAttempts,  \* POLICIES[publication].max_attempts
  MaxSends      \* bound: publication_attempts rows of this material

SyncModes == {"now", "retry"}
Operations == {"approve", "reopen", "schedule", "delete", "check", "mark", "return"}
                \cup SyncModes

ASSUME PublicationAssumption ==
  /\ NoActor \notin Actors /\ IsFiniteSet(Actors)
  /\ OpenWindows \subseteq Operations
  /\ MaxAttempts \in Nat \ {0} /\ MaxSends \in Nat \ {0}

VARIABLES
  item,      \* queue_items.status; "in_work" is every status before approval
  used,      \* scheduled_at is in the snapshot of some task (FALSE if not scheduled)
  pub,       \* publications.status, "none" without a row
  attempts,  \* publication_attempts in the order of attempt_number
  task,      \* the latest publication task of this material
  actor,     \* what each process holds in memory
  stray,     \* requests to MAX whose sender has gone
  posted,    \* messages of this material in the channel
  licence,   \* messages the editors have agreed to: one, and one more for every
             \* decision taken while an earlier message may be in the channel
  lapses     \* ghost: what has happened that properties make an exception for

rows == <<item, used, pub, attempts>>
vars == <<item, used, pub, attempts, task, actor, stray, posted, licence, lapses>>

-----------------------------------------------------------------------------
ItemStatus == {"in_work", "approved", "scheduled", "failed", "published",
               "publication_unknown", "deleted"}
PubStatus == {"none", "publishing", "published", "failed", "unknown"}
AttemptRow == [status : {"sending", "confirmed", "failed", "unknown"},
               checked : BOOLEAN]

\* holder: the worker whose token and lease are valid; latest: the number of the
\* attempt last reserved for this task, 0 if none; about: ghost, the attempt whose risk
\* of a duplicate the editor accepted with a retry task.
Active == {"pending", "running", "retry_wait"}
TaskRow == [state : Active \cup {"succeeded", "failed", "cancelled", "needs_review"},
            retry : BOOLEAN, tries : 0..MaxAttempts,
            holder : Actors \cup {NoActor}, latest : 0..MaxSends, about : 0..MaxSends]

\* opened: rows loaded; claimed: a task is taken; sending: the reservation is
\* committed; awaiting: the request is out; landed: MAX posted the message;
\* raised: the failure is committed and the task is still to be finished.
\* item, pub: the statuses the session loaded; mine: the attempt it works on.
Process == [phase : {"idle", "opened", "claimed", "sending", "awaiting", "landed", "raised"},
            op : Operations \cup {"task", "due", "none"},
            item : ItemStatus, pub : PubStatus, mine : 0..MaxSends,
            retryable : BOOLEAN]

Idle == [phase |-> "idle", op |-> "none", item |-> "in_work", pub |-> "none",
         mine |-> 0, retryable |-> FALSE]
NoTask == [state |-> "cancelled", retry |-> FALSE, tries |-> 0,
           holder |-> NoActor, latest |-> 0, about |-> 0]

Init ==
  /\ item = "in_work" /\ used = FALSE /\ pub = "none"
  /\ attempts = <<>>
  /\ task = NoTask
  /\ actor = [a \in Actors |-> Idle]
  /\ stray = 0 /\ posted = 0 /\ licence = 1 /\ lapses = {}

\* Messages that are, or may still get, in the channel.
Sent == posted + stray
          + Cardinality({a \in Actors : actor[a].phase \in {"sending", "awaiting"}})

-----------------------------------------------------------------------------
(* What an operation requires of the rows it loads.                        *)

\* attempt_history is ordered by attempt_number, latest first.
FirstUnknown ==
  LET I == {i \in DOMAIN attempts : attempts[i].status = "unknown"}
  IN  IF I = {} THEN 0 ELSE CHOOSE i \in I : \A j \in I : j <= i

Recoverable == item = "publication_unknown" /\ pub = "unknown" /\ FirstUnknown > 0

\* Fault: a publication that is being sent is no obstacle.
PublishableBusy(retry) ==
  /\ item \in {"approved", "failed", "scheduled"}
                \cup (IF retry THEN {"publication_unknown"} ELSE {})
  /\ pub # "published"
  /\ pub = "unknown" => retry

\* Fault: only the status of the material is looked at.
PublishableByItem(retry) ==
  item \in {"approved", "failed", "scheduled"}
             \cup (IF retry THEN {"publication_unknown"} ELSE {})

\* publish_queue_item, before the reservation.
Publishable(retry) ==
  /\ item \in {"approved", "failed", "scheduled"}
                \cup (IF retry THEN {"publication_unknown"} ELSE {})
  /\ pub \notin {"published", "publishing"}
  /\ pub = "unknown" => retry

Allowed(op) ==
  CASE op = "approve"  -> item = "in_work"
    [] op = "reopen"   -> item \in {"in_work", "approved", "scheduled"}
    [] op = "schedule" -> item = "approved"
    [] op = "delete"   -> item \notin {"publication_unknown", "deleted"}
    [] op \in {"check", "mark"} -> Recoverable
    [] op = "return"   -> Recoverable /\ attempts[FirstUnknown].checked
    [] op = "now"      -> Publishable(FALSE)
    [] op = "retry"    -> Recoverable /\ attempts[FirstUnknown].checked

\* What the write of the operation uses of the loaded rows.
Remembered(op) ==
  IF op \in SyncModes THEN [Idle EXCEPT !.item = item, !.pub = pub]
  ELSE IF op \in {"check", "mark", "return"} THEN [Idle EXCEPT !.mine = FirstUnknown]
  ELSE Idle

Open(a, op) ==
  /\ actor[a].phase = "idle" /\ op \in OpenWindows /\ Allowed(op)
  /\ actor' = [actor EXCEPT ![a] = [Remembered(op) EXCEPT !.phase = "opened", !.op = op]]
  /\ UNCHANGED <<rows, task, stray, posted, licence, lapses>>

\* The request ends without a write: an error, or its client is gone.
Close(a) ==
  /\ actor[a].phase = "opened"
  /\ actor' = [actor EXCEPT ![a] = Idle]
  /\ UNCHANGED <<rows, task, stray, posted, licence, lapses>>

\* Ghost: an operation that has loaded attempt i may write what the rows no longer allow.
Lapse(op, i) == IF Allowed(op) /\ i = Remembered(op).mine THEN {} ELSE {"outdated"}

\* An operation that has loaded attempt i writes now.
Writes(op, i) ==
  /\ item # "deleted"     \* an UPDATE of a deleted row raises
  /\ \/ /\ op \notin OpenWindows /\ Allowed(op) /\ i = Remembered(op).mine
        /\ UNCHANGED actor
     \/ \E a \in Actors :
          /\ actor[a].phase = "opened" /\ actor[a].op = op /\ actor[a].mine = i
          /\ actor' = [actor EXCEPT ![a] = Idle]

-----------------------------------------------------------------------------
(* Editorial operations (queue.py).                                        *)

SetStatus(op, new) ==
  /\ \E i \in 0..MaxSends : Writes(op, i)
  /\ item' = new /\ used' = FALSE
  /\ UNCHANGED <<pub, attempts, task, stray, posted, licence, lapses>>

Approve  == SetStatus("approve", "approved")
\* Also submit and reject, which move a material among the statuses before approval.
Reopen   == SetStatus("reopen", "in_work")
Schedule == SetStatus("schedule", "scheduled")   \* always a new time

\* The delete cascades to the publication and its attempts.
Delete ==
  /\ \E i \in 0..MaxSends : Writes("delete", i)
  /\ item' = "deleted" /\ used' = FALSE /\ pub' = "none" /\ attempts' = <<>>
  /\ UNCHANGED <<task, stray, posted, licence, lapses>>

-----------------------------------------------------------------------------
(* Recovery of an unknown outcome (queue_publish.py).                      *)

\* Fault: the attempt keeps its outcome.
PublishUnconfirmed(i) ==
  /\ pub' = "published" /\ item' = "published" /\ used' = FALSE
  /\ attempts' = attempts

Publish(i) ==
  /\ attempts' = [attempts EXCEPT ![i].status = "confirmed"]
  /\ pub' = "published" /\ item' = "published" /\ used' = FALSE

\* MAX is asked between load and write; only one exact match confirms.
CheckPublication ==
  /\ \E i \in 1..MaxSends :
       /\ Writes("check", i)
       /\ \/ posted > 0 /\ Publish(i)
          \/ /\ attempts' = [attempts EXCEPT ![i].checked = TRUE]
             /\ UNCHANGED <<pub, item, used>>
       /\ lapses' = lapses \cup Lapse("check", i)
  /\ UNCHANGED <<task, stray, posted, licence>>

MarkPublished ==
  /\ \E i \in 1..MaxSends :
       Writes("mark", i) /\ Publish(i) /\ lapses' = lapses \cup Lapse("mark", i)
  /\ UNCHANGED <<task, stray, posted, licence>>

ReturnToWork ==
  /\ \E i \in 1..MaxSends :
       Writes("return", i) /\ lapses' = lapses \cup Lapse("return", i)
  /\ pub' = "failed" /\ item' = "in_work" /\ used' = FALSE
  /\ licence' = Sent + 1
  /\ UNCHANGED <<attempts, task, stray, posted>>

-----------------------------------------------------------------------------
(* Tasks: submission, scheduling, cancelling (one transaction each).       *)

NewTask(retry) ==
  /\ task.state \notin Active
  /\ task' = [state |-> "pending", retry |-> retry, tries |-> 0, holder |-> NoActor,
              latest |-> 0, about |-> IF retry THEN Len(attempts) ELSE 0]
  /\ used' = (item = "scheduled")
  /\ UNCHANGED <<item, pub, attempts, actor, stray, posted>>

\* submit_material for publish-task; the snapshot takes scheduled_at along.
SubmitPublication ==
  /\ item \in {"approved", "failed", "scheduled"}
  /\ NewTask(FALSE)
  /\ UNCHANGED <<licence, lapses>>

LatestChecked == LET n == Len(attempts)
                 IN n > 0 /\ attempts[n].status = "unknown" /\ attempts[n].checked

\* retry_publication_task: the editor accepts the risk of a duplicate.
SubmitRetry ==
  /\ item = "publication_unknown" /\ pub = "unknown" /\ LatestChecked
  /\ NewTask(TRUE)
  /\ licence' = Sent + 1
  /\ UNCHANGED lapses

\* enqueue_due_publications: one task per slot, whatever became of it.
EnqueueDue ==
  /\ item = "scheduled" /\ ~used
  /\ NewTask(FALSE)
  /\ UNCHANGED <<licence, lapses>>

CancelTask ==
  /\ task.state \in {"pending", "retry_wait"}
  /\ task' = [task EXCEPT !.state = "cancelled"]
  /\ UNCHANGED <<rows, actor, stray, posted, licence, lapses>>

-----------------------------------------------------------------------------
(* The task table as TaskStore has it, for this one material.              *)

Claim(a) ==
  /\ actor[a].phase = "idle" /\ task.state \in {"pending", "retry_wait"}
  /\ task' = [state |-> "running", retry |-> task.retry, tries |-> task.tries + 1,
              holder |-> a, latest |-> task.latest, about |-> task.about]
  /\ actor' = [actor EXCEPT ![a] = [Idle EXCEPT !.phase = "claimed", !.op = "task"]]
  /\ UNCHANGED <<rows, stray, posted, licence, lapses>>

LeaseEnds ==
  /\ task.state = "running" /\ task.holder # NoActor
  /\ task' = [task EXCEPT !.holder = NoActor]
  /\ UNCHANGED <<rows, actor, stray, posted, licence, lapses>>

TaskEnds(state) == task' = [task EXCEPT !.state = state, !.holder = NoActor]

\* Fault: the last allowed execution is followed by another one.
RetryOnceMore == IF task.tries > MaxAttempts THEN "failed" ELSE "retry_wait"

RetryOrFail == IF task.tries >= MaxAttempts THEN "failed" ELSE "retry_wait"

\* What latest_publication_attempt finds.
Reached == IF task.latest \in DOMAIN attempts THEN attempts[task.latest].status
                                              ELSE "none"

\* mark_publication_unknown
MarkUnknown ==
  IF Reached = "sending"
    THEN /\ attempts' = [attempts EXCEPT ![task.latest].status = "unknown"]
         /\ pub' = IF pub = "publishing" THEN "unknown" ELSE pub
         /\ item' = IF item = "published" THEN item ELSE "publication_unknown"
         /\ used' = FALSE
    ELSE UNCHANGED rows

RecoverExpired ==
  /\ task.state = "running" /\ task.holder = NoActor
  /\ TaskEnds(CASE Reached = "none"      -> RetryOrFail
                [] Reached = "confirmed" -> "succeeded"
                [] Reached = "failed"    -> "failed"
                [] OTHER                 -> "needs_review")
  /\ MarkUnknown
  /\ UNCHANGED <<actor, stray, posted, licence, lapses>>

-----------------------------------------------------------------------------
(* publish_queue_item.                                                     *)

\* The committed reservation: publication `publishing`, a new attempt `sending`.
Reserve(a, op, seenItem) ==
  /\ Len(attempts) < MaxSends
  /\ pub' = "publishing"
  /\ attempts' = Append(attempts, [status |-> "sending", checked |-> FALSE])
  /\ actor' = [actor EXCEPT ![a] = [phase |-> "sending", op |-> op, item |-> seenItem,
                                      pub |-> "none", mine |-> Len(attempts) + 1,
                                      retryable |-> FALSE]]
  /\ UNCHANGED <<item, used, stray, posted>>

\* publish_now and retry_publication check the statuses they loaded before they
\* took the row lock; the unique index refuses a second publications row.
SyncReserve(a, mode) ==
  /\ item # "deleted"
  /\ \/ /\ actor[a].phase = "idle" /\ mode \notin OpenWindows /\ Allowed(mode)
        /\ Reserve(a, mode, item)
     \/ /\ actor[a].phase = "opened" /\ actor[a].op = mode
        /\ actor[a].pub = "none" => pub = "none"
        /\ Reserve(a, mode, actor[a].item)
  /\ licence' = IF mode = "retry" THEN Sent + 1 ELSE licence
  /\ lapses' = IF Allowed(mode) THEN lapses ELSE lapses \cup {"outdated"}
  /\ UNCHANGED task

\* publish_due_items takes the row lock before it has loaded anything.  A material that
\* has been approved or has failed since the scan found it scheduled is sent as by "now".
DueReserve(a) ==
  /\ actor[a].phase = "idle"
  /\ item = "scheduled" /\ Publishable(FALSE)
  /\ Reserve(a, "due", item)
  /\ UNCHANGED <<task, licence, lapses>>

Claimed(a) == actor[a].phase = "claimed" /\ task.holder = a

\* The publication handler up to the reservation is one transaction that holds
\* the task and the item row.
TaskReserve(a) ==
  /\ Claimed(a)
  /\ Publishable(task.retry)
  /\ pub = "unknown" => item = "publication_unknown" /\ LatestChecked
  /\ Reserve(a, "task", item)
  /\ task' = [task EXCEPT !.latest = Len(attempts) + 1]
  /\ lapses' = IF pub = "unknown" /\ task.about # Len(attempts) THEN lapses \cup {"overtaken"}
                                                                ELSE lapses
  /\ UNCHANGED licence

\* The handler refuses before it has written anything: rights, which come first, the
\* snapshot, the target or the statuses, and an outcome in doubt; or it times out.
TaskRefuses(a) ==
  /\ Claimed(a)
  /\ actor' = [actor EXCEPT ![a] = Idle]
  /\ \/ TaskEnds("needs_review") /\ MarkUnknown
     \/ TaskEnds("failed") /\ UNCHANGED rows
  /\ UNCHANGED <<stray, posted, licence, lapses>>

AlreadyPublished(a) ==
  /\ Claimed(a) /\ pub = "published"
  /\ TaskEnds("succeeded")
  /\ actor' = [actor EXCEPT ![a] = Idle]
  /\ UNCHANGED <<rows, stray, posted, licence, lapses>>

SendOut(a) ==
  /\ actor[a].phase = "sending"
  /\ actor' = [actor EXCEPT ![a].phase = "awaiting"]
  /\ UNCHANGED <<rows, task, stray, posted, licence, lapses>>

Lands(a) ==
  /\ actor[a].phase = "awaiting"
  /\ actor' = [actor EXCEPT ![a].phase = "landed"]
  /\ posted' = posted + 1
  /\ UNCHANGED <<rows, task, stray, licence, lapses>>

StrayLands ==
  /\ stray > 0 /\ stray' = stray - 1 /\ posted' = posted + 1
  /\ UNCHANGED <<rows, task, actor, licence, lapses>>

IsTask(a) == actor[a].op = "task"

\* The except branch: written without asking whether the task is still held.  A
\* worker then still has to finish its task.
WriteFailure(a, status, retryable) ==
  LET new == IF status = "unknown" THEN "publication_unknown" ELSE "failed"
  IN  /\ IF item = "deleted" THEN UNCHANGED rows
         ELSE /\ pub' = status
              /\ attempts' = [attempts EXCEPT ![actor[a].mine].status = status]
              /\ item' = IF new = actor[a].item THEN item ELSE new
              /\ used' = (used /\ item' = "scheduled")
      /\ actor' = [actor EXCEPT ![a] =
                     IF IsTask(a)
                       THEN [phase |-> "raised", op |-> "task", item |-> "in_work",
                             pub |-> IF item = "deleted" THEN "unknown" ELSE status,
                             mine |-> 0, retryable |-> retryable]
                       ELSE Idle]
      /\ lapses' = IF IsTask(a) /\ task.holder # a THEN lapses \cup {"late"} ELSE lapses
      /\ UNCHANGED <<task, posted, licence>>

\* An upload failed before the message, or MAX answered 4xx.
Rejected(a) ==
  /\ actor[a].phase \in {"sending", "awaiting"}
  /\ \E retryable \in BOOLEAN : WriteFailure(a, "failed", retryable /\ IsTask(a))
  /\ UNCHANGED stray

\* Fault: no answer counts as a failure.
UncertainAsFailed(a) ==
  /\ actor[a].phase \in {"awaiting", "landed"}
  /\ WriteFailure(a, "failed", FALSE)
  /\ stray' = IF actor[a].phase = "awaiting" THEN stray + 1 ELSE stray

\* The answer was lost, unreadable or a 5xx.
Uncertain(a) ==
  /\ actor[a].phase \in {"awaiting", "landed"}
  /\ WriteFailure(a, "unknown", FALSE)
  /\ stray' = IF actor[a].phase = "awaiting" THEN stray + 1 ELSE stray

\* run_once writes the end of a failed execution, if it still owns the task.
FinishTask(a) ==
  /\ actor[a].phase = "raised"
  /\ actor' = [actor EXCEPT ![a] = Idle]
  /\ IF task.holder # a THEN UNCHANGED <<task, rows>>
     ELSE IF actor[a].pub = "unknown" THEN TaskEnds("needs_review") /\ MarkUnknown
     ELSE /\ TaskEnds(IF actor[a].retryable THEN RetryOrFail ELSE "failed")
          /\ UNCHANGED rows
  /\ UNCHANGED <<stray, posted, licence, lapses>>

\* Success: one transaction with the audit event and, for a task, finish().  A
\* lost lease or a deleted row rolls it back.
Confirm(a) ==
  /\ actor[a].phase = "landed"
  /\ actor' = [actor EXCEPT ![a] = Idle]
  /\ IF IsTask(a) /\ task.holder # a THEN UNCHANGED <<rows, task>>
     ELSE IF item = "deleted"
       THEN /\ IF IsTask(a) THEN TaskEnds("needs_review") ELSE task' = task
            /\ UNCHANGED rows
       ELSE /\ Publish(actor[a].mine)
            /\ IF IsTask(a) THEN TaskEnds("succeeded") ELSE task' = task
  /\ UNCHANGED <<stray, posted, licence, lapses>>

\* A crash or a cancelled execution at any point, or the timeout of a task, after
\* which the worker still finishes what it owns.
Leave(a) ==
  /\ actor[a].phase \notin {"idle", "opened"}
  /\ stray' = IF actor[a].phase = "awaiting" THEN stray + 1 ELSE stray
  /\ actor' = [actor EXCEPT ![a] = Idle]
  /\ \/ UNCHANGED <<rows, task>>
     \/ /\ task.holder = a /\ actor[a].phase # "raised"
        /\ TaskEnds("needs_review") /\ MarkUnknown
  /\ UNCHANGED <<posted, licence, lapses>>

-----------------------------------------------------------------------------
Next ==
  \/ Approve \/ Reopen \/ Schedule \/ Delete
  \/ CheckPublication \/ MarkPublished \/ ReturnToWork
  \/ SubmitPublication \/ SubmitRetry \/ EnqueueDue \/ CancelTask
  \/ LeaseEnds \/ RecoverExpired \/ StrayLands
  \/ \E a \in Actors :
       \/ \E op \in Operations : Open(a, op)
       \/ Close(a)
       \/ \E mode \in SyncModes : SyncReserve(a, mode)
       \/ Claim(a) \/ TaskReserve(a) \/ TaskRefuses(a) \/ AlreadyPublished(a)
       \/ DueReserve(a) \/ SendOut(a) \/ Lands(a) \/ Rejected(a) \/ Uncertain(a)
       \/ FinishTask(a) \/ Confirm(a) \/ Leave(a)

Spec == Init /\ [][Next]_vars

-----------------------------------------------------------------------------
\* late: a worker has written a failure after its lease had ended; overtaken: a retry
\* task has sent after another sending; outdated: an outcome or a sending was decided
\* by rows that no longer were so.
Lapses == {"late", "overtaken", "outdated"}

TypeOK ==
  /\ item \in ItemStatus /\ used \in BOOLEAN /\ pub \in PubStatus
  /\ attempts \in Seq(AttemptRow) /\ Len(attempts) <= MaxSends
  /\ task \in TaskRow
  /\ actor \in [Actors -> Process]
  /\ stray \in Nat /\ posted \in Nat /\ licence \in Nat /\ lapses \subseteq Lapses

\* One material is sent once, and once more for every decision an editor took
\* about a message that may be in the channel, whichever of the synchronous
\* requests, tasks and schedulers publish it, and whatever they lose.  The exception
\* is a retry task overtaken by another sending while it waited: handlers.publication
\* does not ask which unknown attempt it was accepted for.
NoUnintendedDuplicate == "overtaken" \notin lapses => Sent <= licence

\* A message in the channel is on record: some attempt is confirmed, in doubt or
\* still being sent.
MessageIsRecorded ==
  posted + stray > 0 /\ item # "deleted" =>
    \E i \in DOMAIN attempts : attempts[i].status # "failed"

\* A material known to be in the channel is never sent again and never becomes
\* unpublished, as long as no worker has written a failure after its lease had
\* ended, which is the finding of the run late_sender, and no request has written an
\* outcome or reserved a sending by rows another one has changed since.
PublishedIsFinal ==
  [][pub = "published" /\ {"late", "outdated"} \cap lapses' = {} /\ item' # "deleted" =>
       pub' = "published" /\ Len(attempts') = Len(attempts)]_vars

\* A published material has a published publication and a confirmed attempt, with the
\* exceptions of PublishedIsFinal.
PublishedAgree ==
  item = "published" /\ {"late", "outdated"} \cap lapses = {} =>
    pub = "published" /\ \E i \in DOMAIN attempts : attempts[i].status = "confirmed"

\* A worker that has lost its lease writes nothing about the material.
LostLeaseWritesNothing ==
  [][\A a \in Actors : IsTask(a) /\ task.holder # a /\ actor'[a] # actor[a]
       => UNCHANGED <<item, pub, attempts>>]_vars

\* A task is recovered as one that reserved no sending only if it reserved none.
RecoveredUnreserved ==
  [][task.state = "running" /\ task.holder = NoActor /\ Reached = "none"
       /\ task'.state \in {"retry_wait", "failed"} => task.latest = 0]_vars
=============================================================================
