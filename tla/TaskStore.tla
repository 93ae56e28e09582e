------------------------------ MODULE TaskStore ------------------------------
(***************************************************************************)
(* The background-task runtime: the background_tasks rows in PostgreSQL    *)
(* (background/store.py), the workers that execute them                    *)
(* (background/worker.py), the publication handler's sending reservation   *)
(* (background/handlers.py, services/publisher.py) and the cancel endpoint *)
(* (api/v1/background_tasks.py).  One action is one database transaction   *)
(* or one event outside the database.                                      *)
(*                                                                         *)
(* Time is discrete.  A lease and a retry delay are counted in ticks that  *)
(* Tick takes away; any number of steps may fall between two ticks, and a  *)
(* worker that takes no step for a while is a paused process.              *)
(***************************************************************************)
EXTENDS Naturals, FiniteSets

CONSTANTS
  Keys,         \* idempotency keys; the unique index makes them the tasks' identity
  NoKey,        \* the key of an idle worker
  QueueOf,      \* QueueOf[k]: the queue of the request that key k stands for
  SubjectOf,    \* SubjectOf[k]: the subject_id of that request
  Subjects,
  Workers,
  Serves,       \* Serves[w]: the queues whose processes worker slot w stands for
  MaxAttempts,  \* MaxAttempts[q]: POLICIES[q].max_attempts
  Lease,        \* background_task_lease_seconds, in ticks
  Backoff       \* longest retry delay, in ticks

Queues == {"rewrite", "collection", "publication", "maintenance"}

ASSUME ConstantsAssumption ==
  /\ NoKey \notin Keys
  /\ QueueOf \in [Keys -> Queues]
  /\ SubjectOf \in [Keys -> Subjects]
  /\ Serves \in [Workers -> SUBSET Queues]
  /\ MaxAttempts \in [Queues -> Nat \ {0}]
  /\ Lease \in Nat \ {0}
  /\ Backoff \in Nat \ {0}

VARIABLES
  row,      \* row[k]: the background_tasks row
  attempt,  \* attempt[k]: the latest publication_attempts row of task k
  worker,   \* worker[w]: what worker process w has in memory
  issued,   \* issued[k]: lease tokens drawn for k.  A token is only ever compared
            \* within its task, so uuid4() is the task's next unused number
  inflight, \* inflight[k]: requests to post k's message MAX has not decided on
  posted,   \* posted[k]: messages of k in the channel
  applied   \* applied[k]: results recorded by finish(SUCCEEDED)

vars == <<row, attempt, worker, issued, inflight, posted, applied>>

-----------------------------------------------------------------------------
Waiting  == {"pending", "retry_wait"}
Active   == Waiting \cup {"running"}
Terminal == {"succeeded", "failed", "cancelled", "needs_review"}
Verdicts == {"review", "retryable", "permanent"}

Row == [state : Active \cup Terminal \cup {"absent"},
        attempts : Nat, token : Nat, lease : 0..Lease, wait : 0..Backoff]

Attempt == [status : {"none", "sending", "confirmed", "failed", "unknown"},
            by : Nat]

\* executing: inside the handler; reserved: `sending` is committed;
\* awaiting: the request to MAX is out; settled: the failure is committed.
Busy == {"executing", "reserved", "awaiting", "settled"}

WorkerState == [phase : Busy \cup {"idle"}, key : Keys \cup {NoKey},
                token : Nat, verdict : Verdicts \cup {"none"}]

Idle == [phase |-> "idle", key |-> NoKey, token |-> 0, verdict |-> "none"]

IsPublication(k) == QueueOf[k] = "publication"

\* Fault: the last allowed execution is followed by another one.
ExhaustedLate(k) == row[k].attempts > MaxAttempts[QueueOf[k]]

Exhausted(k) == row[k].attempts >= MaxAttempts[QueueOf[k]]

\* Fault: a lost lease is not noticed while the task runs for somebody else.
OwnedByState(w) == row[worker[w].key].state = "running"

\* Fault: finish does not ask for the lease at all.
OwnedUnchecked(w) == worker[w].phase \in Busy

\* store.owned: the row is running under this worker's token and lease.
Owned(w) == LET r == row[worker[w].key]
            IN  r.state = "running" /\ r.token = worker[w].token /\ r.lease > 0

-----------------------------------------------------------------------------
Init ==
  /\ row = [k \in Keys |-> [state |-> "absent", attempts |-> 0, token |-> 0,
                            lease |-> 0, wait |-> 0]]
  /\ attempt = [k \in Keys |-> [status |-> "none", by |-> 0]]
  /\ worker = [w \in Workers |-> Idle]
  /\ issued = [k \in Keys |-> 0]
  /\ inflight = [k \in Keys |-> 0]
  /\ posted = [k \in Keys |-> 0]
  /\ applied = [k \in Keys |-> 0]

\* Fault: enqueue without the check of the active subject.
EnqueueUnchecked(k) ==
  /\ row[k].state = "absent"
  /\ row' = [row EXCEPT ![k].state = "pending"]
  /\ UNCHANGED <<attempt, worker, issued, inflight, posted, applied>>

\* A known key returns its task and a conflicting subject raises: both leave
\* the tables alone, so only the insert is a step.
Enqueue(k) ==
  /\ row[k].state = "absent"
  /\ \A j \in Keys : ~ /\ row[j].state \in Active
                       /\ QueueOf[j] = QueueOf[k]
                       /\ SubjectOf[j] = SubjectOf[k]
  /\ row' = [row EXCEPT ![k].state = "pending"]
  /\ UNCHANGED <<attempt, worker, issued, inflight, posted, applied>>

\* Fault: a running task can be cancelled.
CancelActive(k) ==
  /\ row[k].state \in Active
  /\ row' = [row EXCEPT ![k].state = "cancelled", ![k].wait = 0]
  /\ UNCHANGED <<attempt, worker, issued, inflight, posted, applied>>

Cancel(k) ==
  /\ row[k].state \in Waiting
  /\ row' = [row EXCEPT ![k].state = "cancelled", ![k].wait = 0]
  /\ UNCHANGED <<attempt, worker, issued, inflight, posted, applied>>

-----------------------------------------------------------------------------
(* recover_expired, run by every worker before it claims.                  *)

\* Fault: publications are left to the editors.
ExpiredSafe == {k \in Keys : /\ row[k].state = "running" /\ row[k].lease = 0
                             /\ ~IsPublication(k)}

Expired == {k \in Keys : row[k].state = "running" /\ row[k].lease = 0}

Unleased(r, state) == [r EXCEPT !.state = state, !.token = 0, !.lease = 0]

RetryOrFail(k) == IF Exhausted(k) THEN "failed" ELSE "retry_wait"

\* Fault: every expired task is simply executed again.
RecoveredByRetry(k) == RetryOrFail(k)

\* A publication is judged by what its latest attempt had reached.
RecoveredState(k) ==
  IF ~IsPublication(k) THEN RetryOrFail(k)
  ELSE CASE attempt[k].status = "none"      -> RetryOrFail(k)
         [] attempt[k].status = "confirmed" -> "succeeded"
         [] attempt[k].status = "failed"    -> "failed"
         [] OTHER                           -> "needs_review"

\* Fault: the delay grows with the attempts and is not capped.
RecoveredUncapped(k, delay) ==
  LET r == Unleased(row[k], RecoveredState(k))
  IN  IF r.state = "retry_wait" THEN [r EXCEPT !.wait = delay + row[k].attempts] ELSE r

RecoveredRow(k, delay) ==
  LET r == Unleased(row[k], RecoveredState(k))
  IN  IF r.state = "retry_wait" THEN [r EXCEPT !.wait = delay] ELSE r

\* mark_publication_unknown
MarkUnknown(a) == IF a.status = "sending" THEN [a EXCEPT !.status = "unknown"] ELSE a

\* SKIP LOCKED and LIMIT make the recovered set any subset of the expired rows.
RecoverRows(R, delay) ==
  [k \in Keys |-> IF k \in R THEN RecoveredRow(k, delay[k]) ELSE row[k]]

RecoverAttempts(R) ==
  [k \in Keys |-> IF k \in R /\ IsPublication(k) THEN MarkUnknown(attempt[k])
                  ELSE attempt[k]]

Claimable(k) == row[k].state \in Waiting /\ row[k].wait = 0

Claimed(k) == [row[k] EXCEPT !.state = "running", !.attempts = @ + 1,
                             !.token = issued[k] + 1, !.lease = Lease]

\* The first transaction of run_once that finds a task: recovery and claim.
RunOnce(w, k) ==
  /\ worker[w].phase = "idle"
  /\ Claimable(k) /\ QueueOf[k] \in Serves[w]
  /\ \E R \in SUBSET Expired, delay \in [Keys -> 1..Backoff] :
       /\ row' = [RecoverRows(R, delay) EXCEPT ![k] = Claimed(k)]
       /\ attempt' = RecoverAttempts(R)
  /\ issued' = [issued EXCEPT ![k] = @ + 1]
  /\ worker' = [worker EXCEPT ![w] = [phase |-> "executing", key |-> k,
                                      token |-> issued'[k], verdict |-> "none"]]
  /\ UNCHANGED <<inflight, posted, applied>>

\* The same transaction when nothing can be claimed; also `worker --recover`.
RecoverOnly ==
  /\ \E R \in SUBSET Expired \ {{}}, delay \in [Keys -> 1..Backoff] :
       /\ row' = RecoverRows(R, delay)
       /\ attempt' = RecoverAttempts(R)
  /\ UNCHANGED <<worker, issued, inflight, posted, applied>>

-----------------------------------------------------------------------------
(* Leases and the end of an execution.                                     *)

Heartbeat(w) ==
  /\ worker[w].phase \in Busy
  /\ Owned(w)
  /\ row' = [row EXCEPT ![worker[w].key].lease = Lease]
  /\ UNCHANGED <<attempt, worker, issued, inflight, posted, applied>>

\* A crash, a shutdown, or a failed heartbeat that cancels the execution: the
\* row stays running until recovery.
Abandon(w) ==
  /\ worker[w].phase \in Busy
  /\ worker' = [worker EXCEPT ![w] = Idle]
  /\ UNCHANGED <<row, attempt, issued, inflight, posted, applied>>

\* The execution of w ends; finish commits `finished` if w still owns the row,
\* and raises LostLease otherwise.
Finish(w, finished) ==
  LET k == worker[w].key
  IN  /\ worker' = [worker EXCEPT ![w] = Idle]
      /\ row' = IF Owned(w) THEN [row EXCEPT ![k] = finished] ELSE row

\* The handler of a safe queue returned, or found the material published already.
FinishSucceeded(w) ==
  LET k == worker[w].key
  IN  /\ worker[w].phase = "executing"
      /\ Finish(w, Unleased(row[k], "succeeded"))
      /\ applied' = IF Owned(w) /\ ~IsPublication(k)
                      THEN [applied EXCEPT ![k] = @ + 1] ELSE applied
      /\ UNCHANGED <<attempt, issued, inflight, posted>>

\* Fault: the timeout of a publication counts as a failure that may be retried.
RaisedTimeout(w) ==
  CASE worker[w].phase \in {"executing", "reserved", "awaiting"} -> {"retryable", "permanent"}
    [] worker[w].phase = "settled" -> {worker[w].verdict}
    [] OTHER -> {}

\* classify_error: what the exception that left the handler can be.
Raised(w) ==
  CASE worker[w].phase = "executing" ->
         IF IsPublication(worker[w].key) THEN {"review", "permanent"}
                                         ELSE {"retryable", "permanent"}
    [] worker[w].phase \in {"reserved", "awaiting"} -> {"review"}  \* timeout
    [] worker[w].phase = "settled" -> {worker[w].verdict}
    [] OTHER -> {}

ErrorState(k, verdict) ==
  CASE verdict = "review"                      -> "needs_review"
    [] verdict = "retryable" /\ ~Exhausted(k)  -> "retry_wait"
    [] OTHER                                   -> "failed"

FinishError(w) ==
  LET k == worker[w].key
  IN  /\ \E verdict \in Raised(w), delay \in 1..Backoff :
           LET s == ErrorState(k, verdict)
           IN  /\ Finish(w, [Unleased(row[k], s) EXCEPT
                               !.wait = IF s = "retry_wait" THEN delay ELSE 0])
               /\ attempt' = IF Owned(w) /\ IsPublication(k) /\ s = "needs_review"
                               THEN [attempt EXCEPT ![k] = MarkUnknown(@)]
                               ELSE attempt
      /\ UNCHANGED <<issued, inflight, posted, applied>>

-----------------------------------------------------------------------------
(* The publication handler.                                                *)

\* owned, the checks and the `sending` row are one transaction; whether the
\* checks pass is the item's business, and failing them is FinishError.
Reserve(w) ==
  LET k == worker[w].key
  IN  /\ worker[w].phase = "executing" /\ IsPublication(k)
      /\ IF Owned(w)
           THEN /\ attempt' = [attempt EXCEPT ![k] = [status |-> "sending",
                                                      by |-> worker[w].token]]
                /\ worker' = [worker EXCEPT ![w].phase = "reserved"]
           ELSE /\ attempt' = attempt
                /\ worker' = [worker EXCEPT ![w] = Idle]
      /\ UNCHANGED <<row, issued, inflight, posted, applied>>

Send(w) ==
  LET k == worker[w].key
  IN  /\ worker[w].phase = "reserved"
      /\ inflight' = [inflight EXCEPT ![k] = @ + 1]
      /\ worker' = [worker EXCEPT ![w].phase = "awaiting"]
      /\ UNCHANGED <<row, attempt, issued, posted, applied>>

\* The sender writes the attempt row it created, even if a later one exists.
OwnAttempt(w, status) ==
  [k \in Keys |-> IF k = worker[w].key /\ attempt[k].by = worker[w].token
                   THEN [attempt[k] EXCEPT !.status = status] ELSE attempt[k]]

\* The except branch of publish_queue_item commits without looking at the lease.
Settle(w, status, verdict) ==
  /\ attempt' = OwnAttempt(w, status)
  /\ worker' = [worker EXCEPT ![w].phase = "settled", ![w].verdict = verdict]

\* A media upload fails before the message is sent.
UploadFails(w) ==
  /\ worker[w].phase = "reserved"
  /\ \E verdict \in {"retryable", "permanent"} : Settle(w, "failed", verdict)
  /\ UNCHANGED <<row, issued, inflight, posted, applied>>

\* MAX is still processing the media: the request was refused and is sent again.
NotReady(w) ==
  LET k == worker[w].key
  IN  /\ worker[w].phase = "awaiting" /\ inflight[k] > 0
      /\ inflight' = [inflight EXCEPT ![k] = @ - 1]
      /\ worker' = [worker EXCEPT ![w].phase = "reserved"]
      /\ UNCHANGED <<row, attempt, issued, posted, applied>>

\* MAX answers 4xx: the message is certainly not in the channel.
Rejected(w) ==
  LET k == worker[w].key
  IN  /\ worker[w].phase = "awaiting" /\ inflight[k] > 0
      /\ inflight' = [inflight EXCEPT ![k] = @ - 1]
      /\ \E verdict \in {"retryable", "permanent"} : Settle(w, "failed", verdict)
      /\ UNCHANGED <<row, issued, posted, applied>>

\* No answer, an unreadable one, or a 5xx: the message may be in the channel.
Uncertain(w) ==
  /\ worker[w].phase = "awaiting"
  /\ Settle(w, "unknown", "review")
  /\ UNCHANGED <<row, issued, inflight, posted, applied>>

\* MAX puts the message into the channel, perhaps long after the sender left.
Accepted(k) ==
  /\ inflight[k] > 0
  /\ inflight' = [inflight EXCEPT ![k] = @ - 1]
  /\ posted' = [posted EXCEPT ![k] = @ + 1]
  /\ UNCHANGED <<row, attempt, worker, issued, applied>>

\* Fault: the task is finished and its attempt forgotten.
ConfirmTaskOnly(w) ==
  LET k == worker[w].key
  IN  /\ worker[w].phase = "awaiting" /\ inflight[k] = 0 /\ posted[k] > 0
      /\ Finish(w, Unleased(row[k], "succeeded"))
      /\ UNCHANGED <<attempt, issued, inflight, posted, applied>>

\* The answer arrives; attempt and task are confirmed in one transaction, which
\* rolls back when the lease is lost.
Confirm(w) ==
  LET k == worker[w].key
  IN  /\ worker[w].phase = "awaiting" /\ inflight[k] = 0 /\ posted[k] > 0
      /\ Finish(w, Unleased(row[k], "succeeded"))
      /\ attempt' = IF Owned(w) THEN OwnAttempt(w, "confirmed") ELSE attempt
      /\ UNCHANGED <<issued, inflight, posted, applied>>

\* check-publication found the message, or an editor marked it published.
Reconcile(k) ==
  /\ attempt[k].status = "unknown"
  /\ attempt' = [attempt EXCEPT ![k].status = "confirmed"]
  /\ UNCHANGED <<row, worker, issued, inflight, posted, applied>>

-----------------------------------------------------------------------------
Less(n) == IF n = 0 THEN 0 ELSE n - 1

\* lease_until and available_at, one tick later.
AgedRows == [k \in Keys |-> [row[k] EXCEPT !.lease = Less(@), !.wait = Less(@)]]

Tick ==
  /\ row' = AgedRows /\ row' # row
  /\ UNCHANGED <<attempt, worker, issued, inflight, posted, applied>>

WorkerStep(w) ==
  \/ \E k \in Keys : RunOnce(w, k)
  \/ Heartbeat(w) \/ Abandon(w)
  \/ FinishSucceeded(w) \/ FinishError(w)
  \/ Reserve(w) \/ Send(w) \/ UploadFails(w) \/ NotReady(w) \/ Rejected(w)
  \/ Uncertain(w) \/ Confirm(w)

Next ==
  \/ \E k \in Keys : Enqueue(k) \/ Cancel(k) \/ Accepted(k) \/ Reconcile(k)
  \/ \E w \in Workers : WorkerStep(w)
  \/ RecoverOnly
  \/ Tick

Spec == Init /\ [][Next]_vars

-----------------------------------------------------------------------------
TypeOK ==
  /\ row \in [Keys -> Row]
  /\ attempt \in [Keys -> Attempt]
  /\ worker \in [Workers -> WorkerState]
  /\ issued \in [Keys -> Nat]
  /\ inflight \in [Keys -> Nat]
  /\ posted \in [Keys -> Nat]
  /\ applied \in [Keys -> Nat]

\* Executions are bounded by the queue's policy, whatever mix of failures,
\* crashes and recoveries started them: claim never looks at max_attempts, so the
\* bound rests on every way into retry_wait having checked it.
RetryBudget ==
  \A k \in Keys :
    /\ row[k].attempts <= MaxAttempts[QueueOf[k]]
    /\ row[k].state = "retry_wait" => row[k].attempts < MaxAttempts[QueueOf[k]]
    /\ row[k].state \in {"absent", "pending"} => row[k].attempts = 0

\* One task puts at most one message into a channel (counting the request that
\* may still arrive) and records at most one result, although it may be executed
\* several times and its old executions may still be alive.
AtMostOneEffect ==
  \A k \in Keys : inflight[k] + posted[k] + applied[k] <= 1

\* A message that is, or may still get, in the channel is never reported as a
\* failure and never retried: its task is running, done, or left to an editor.
NoFalseFailure ==
  \A k \in Keys :
    inflight[k] + posted[k] > 0 =>
      row[k].state \in {"running", "succeeded", "needs_review"}

\* `succeeded` is honest: a safe task has recorded its result, and a publication
\* has no attempt whose outcome is open.
SuccessIsBacked ==
  \A k \in Keys :
    /\ applied[k] = 1 => row[k].state = "succeeded"
    /\ row[k].state = "succeeded" =>
         IF IsPublication(k) THEN attempt[k].status \notin {"sending", "unknown"}
                             ELSE applied[k] = 1

\* No two active tasks of a queue work on one subject, across retries and recovery.
ActiveSubjectUnique ==
  \A j, k \in Keys :
    /\ j # k /\ QueueOf[j] = QueueOf[k] /\ SubjectOf[j] = SubjectOf[k]
    => ~ (row[j].state \in Active /\ row[k].state \in Active)

\* While a lease lasts only its holder ends the execution, and a terminal row is
\* never touched again.
OwnershipFenced ==
  [][\A k \in Keys :
       /\ row[k].state = "running" /\ row[k].lease > 0 /\ row'[k].state # "running"
            => \E w \in Workers : /\ worker[w].key = k
                                  /\ worker[w].token = row[k].token
                                  /\ worker'[w] = Idle
       /\ row[k].state \in Terminal => row'[k] = row[k]]_vars

\* The task table implements the life cycle promised to the users of the task API.
Lifecycle == INSTANCE TaskLifecycle WITH
  Tasks <- Keys,
  Budget <- [k \in Keys |-> MaxAttempts[QueueOf[k]]],
  phase <- [k \in Keys |-> row[k].state],
  tries <- [k \in Keys |-> row[k].attempts],
  effect <- [k \in Keys |-> posted[k] + applied[k]]

ImplementsLifecycle == Lifecycle!LifecycleSpec
=============================================================================
