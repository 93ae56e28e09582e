--------------------------- MODULE TaskStoreProofs ---------------------------
(***************************************************************************)
(* Theorems about TaskStore, for every set of keys, workers, subjects and  *)
(* every retry policy, lease and delay.                                    *)
(*                                                                         *)
(* The safety properties are not inductive: that a recovered publication   *)
(* is not sent twice rests on what a worker that lost its lease can still  *)
(* do.  IInv says it: a worker beyond its reservation owns the latest      *)
(* attempt, and its task either still runs under its token or has ended in *)
(* a state that starts no further execution.                               *)
(***************************************************************************)
EXTENDS TaskStore, TLAPS

Sent(k) == inflight[k] + posted[k]

\* A row has a lease only while it runs and a delay only while it waits.
RowShape ==
  \A k \in Keys : /\ row[k].state # "running" => row[k].lease = 0
                  /\ row[k].state # "retry_wait" => row[k].wait = 0

\* Tokens of living workers were issued, and no two workers share one.
TokensIssued ==
  \A w \in Workers : worker[w].phase \in Busy =>
    /\ worker[w].key \in Keys
    /\ worker[w].token \in 1..issued[worker[w].key]

TokensDiffer ==
  \A v, w \in Workers :
    /\ v # w /\ worker[v].phase \in Busy /\ worker[w].phase \in Busy
    /\ worker[v].key = worker[w].key
    => worker[v].token # worker[w].token

\* A task of a safe queue sends nothing and is applied when it succeeds.
SafeTask(k) ==
  ~IsPublication(k) =>
    /\ attempt[k].status = "none" /\ inflight[k] = 0 /\ posted[k] = 0
    /\ applied[k] \in {0, 1}
    /\ applied[k] = 1 <=> row[k].state = "succeeded"

\* A publication has at most one message, and none unless its latest attempt may
\* have sent it; it waits or fails only without such an attempt.
PublicationTask(k) ==
  IsPublication(k) =>
    /\ applied[k] = 0
    /\ Sent(k) <= 1
    /\ attempt[k].status \in {"none", "failed"} => Sent(k) = 0
    /\ row[k].state \notin {"running", "succeeded", "needs_review"}
         => attempt[k].status \in {"none", "failed"}
    /\ row[k].state = "succeeded" => attempt[k].status \notin {"sending", "unknown"}

TasksOK == \A k \in Keys : SafeTask(k) /\ PublicationTask(k)

RunsUnder(w) == LET r == row[worker[w].key]
                IN  r.state = "running" /\ r.token = worker[w].token

\* What a worker's phase says about its task and the latest attempt.
ExecutingUnsent(w) ==
  worker[w].phase = "executing" /\ RunsUnder(w)
    => attempt[worker[w].key].status \in {"none", "failed"}

Reserved(w) ==
  LET k == worker[w].key
  IN  /\ IsPublication(k) /\ attempt[k].by = worker[w].token
      /\ \/ RunsUnder(w) /\ attempt[k].status = "sending"
         \/ row[k].state = "needs_review" /\ attempt[k].status \in {"unknown", "confirmed"}

ReservedUnsent(w) ==
  worker[w].phase = "reserved" => Reserved(w) /\ Sent(worker[w].key) = 0

AwaitingReserved(w) == worker[w].phase = "awaiting" => Reserved(w)

SettledWritten(w) ==
  worker[w].phase = "settled" =>
    LET k == worker[w].key
    IN  /\ IsPublication(k) /\ attempt[k].by = worker[w].token
        /\ RunsUnder(w) \/ row[k].state \in {"failed", "succeeded", "needs_review"}
        /\ \/ worker[w].verdict = "review" /\ attempt[k].status \in {"unknown", "confirmed"}
           \/ /\ worker[w].verdict \in {"retryable", "permanent"}
              /\ attempt[k].status = "failed"

WorkerOK(w) ==
  ExecutingUnsent(w) /\ ReservedUnsent(w) /\ AwaitingReserved(w) /\ SettledWritten(w)

WorkersOK == \A w \in Workers : WorkerOK(w)

IInv ==
  /\ TypeOK
  /\ RowShape /\ RetryBudget /\ ActiveSubjectUnique
  /\ TokensIssued /\ TokensDiffer
  /\ TasksOK /\ WorkersOK

-----------------------------------------------------------------------------
\* Empty tables and idle workers are well typed.
LEMMA InitType == Init => TypeOK
BY ConstantsAssumption
DEF Init, TypeOK, Row, Attempt, WorkerState, Idle, Active, Waiting, Terminal, Busy, Verdicts

\* Rows, attempts and workers that differ from good ones in a field.
LEMMA UnleasedType ==
  ASSUME NEW r \in Row, NEW s \in Active \cup Terminal
  PROVE  Unleased(r, s) \in Row
<1>1. 0 \in 0..Lease
  BY ConstantsAssumption
<1> QED
  BY <1>1 DEF Row, Unleased

\* A worker that goes to another busy phase.
LEMMA PhaseType ==
  ASSUME TypeOK, NEW w \in Workers, NEW p \in Busy
  PROVE  [worker EXCEPT ![w].phase = p] \in [Workers -> WorkerState]
<1>1. worker[w] \in WorkerState
  BY DEF TypeOK
<1>2. [worker[w] EXCEPT !.phase = p] \in WorkerState
  BY <1>1 DEF WorkerState
<1> QED
  BY <1>2 DEF TypeOK

\* The attempt row that its creator rewrites.
LEMMA OwnAttemptType ==
  ASSUME TypeOK, NEW w \in Workers,
         NEW status \in {"none", "sending", "confirmed", "failed", "unknown"}
  PROVE  OwnAttempt(w, status) \in [Keys -> Attempt]
<1>1. ASSUME NEW k \in Keys
      PROVE  attempt[k] \in Attempt /\ [attempt[k] EXCEPT !.status = status] \in Attempt
  BY DEF TypeOK, Attempt
<1> QED
  BY <1>1 DEF OwnAttempt

\* The committed failure of a publication and the worker that committed it.
LEMMA SettleType ==
  ASSUME TypeOK, NEW w \in Workers, NEW status \in {"failed", "unknown"},
         NEW verdict \in Verdicts, Settle(w, status, verdict)
  PROVE  /\ attempt' \in [Keys -> Attempt]
         /\ worker' \in [Workers -> WorkerState]
<1>1. worker[w] \in WorkerState
  BY DEF TypeOK
<1>2. [worker[w] EXCEPT !.phase = "settled", !.verdict = verdict] \in WorkerState
  BY <1>1 DEF WorkerState, Busy
<1>3. worker' \in [Workers -> WorkerState]
  BY <1>2 DEF Settle, TypeOK
<1> QED
  BY <1>3, OwnAttemptType DEF Settle

\* Recovery keeps the tables in their types, whichever rows it takes.
LEMMA RecoveryType ==
  ASSUME TypeOK, NEW R \in SUBSET Expired, NEW delay \in [Keys -> 1..Backoff]
  PROVE  /\ RecoverRows(R, delay) \in [Keys -> Row]
         /\ RecoverAttempts(R) \in [Keys -> Attempt]
<1>1. ASSUME NEW k \in Keys PROVE RecoveredRow(k, delay[k]) \in Row
  <2>1. RecoveredState(k) \in Active \cup Terminal
    BY DEF RecoveredState, RetryOrFail, Active, Waiting, Terminal
  <2>2. /\ row[k] \in Row /\ 0 \in 0..Lease /\ delay[k] \in 0..Backoff
    BY ConstantsAssumption DEF TypeOK
  <2> QED
    BY <2>1, <2>2 DEF RecoveredRow, Unleased, Row
<1>2. ASSUME NEW k \in Keys PROVE MarkUnknown(attempt[k]) \in Attempt
  BY DEF MarkUnknown, TypeOK, Attempt
<1> QED
  BY <1>1, <1>2 DEF RecoverRows, RecoverAttempts, TypeOK

\* Ending an execution keeps rows and workers in their types.
LEMMA FinishType ==
  ASSUME TypeOK, NEW w \in Workers, worker[w].phase \in Busy, worker[w].key \in Keys,
         NEW finished \in Row, Finish(w, finished)
  PROVE  row' \in [Keys -> Row] /\ worker' \in [Workers -> WorkerState]
BY DEF Finish, TypeOK, Idle, WorkerState, Busy, Verdicts

\* The end that an error writes is a row.
LEMMA ErrorType ==
  ASSUME TypeOK, NEW k \in Keys, NEW verdict \in Verdicts, NEW delay \in 1..Backoff
  PROVE  /\ ErrorState(k, verdict) \in {"needs_review", "retry_wait", "failed"}
         /\ [Unleased(row[k], ErrorState(k, verdict)) EXCEPT
               !.wait = IF ErrorState(k, verdict) = "retry_wait" THEN delay ELSE 0] \in Row
<1>1. ErrorState(k, verdict) \in {"needs_review", "retry_wait", "failed"}
  BY DEF ErrorState
<1>2. row[k] \in Row /\ 0 \in 0..Lease /\ 0 \in 0..Backoff /\ delay \in 0..Backoff
  BY ConstantsAssumption DEF TypeOK
<1> QED
  BY <1>1, <1>2 DEF Unleased, Row, Active, Waiting, Terminal

-----------------------------------------------------------------------------
\* No transaction and no outside event leaves the types.
LEMMA TypeStep ==
  ASSUME TypeOK, TokensIssued, WorkersOK, [Next]_vars
  PROVE  TypeOK'
<1> USE ConstantsAssumption
<1>1. ASSUME NEW k \in Keys, Enqueue(k) PROVE TypeOK'
  BY <1>1 DEF Enqueue, TypeOK, Row, Active, Waiting
<1>2. ASSUME NEW k \in Keys, Cancel(k) PROVE TypeOK'
  <2>1. row[k] \in Row /\ 0 \in 0..Backoff /\ "cancelled" \in Active \cup Terminal
    BY DEF TypeOK, Terminal
  <2>2. [row[k] EXCEPT !.state = "cancelled", !.wait = 0] \in Row
    BY <2>1 DEF Row
  <2> QED
    BY <1>2, <2>2 DEF Cancel, TypeOK
<1>3. ASSUME NEW k \in Keys, Accepted(k) PROVE TypeOK'
  BY <1>3 DEF Accepted, TypeOK
<1>4. ASSUME NEW k \in Keys, Reconcile(k) PROVE TypeOK'
  BY <1>4 DEF Reconcile, TypeOK, Attempt
<1>5. ASSUME NEW w \in Workers, NEW k \in Keys, RunOnce(w, k) PROVE TypeOK'
  <2>1. PICK R \in SUBSET Expired, delay \in [Keys -> 1..Backoff] :
          /\ row' = [RecoverRows(R, delay) EXCEPT ![k] = Claimed(k)]
          /\ attempt' = RecoverAttempts(R)
    BY <1>5 DEF RunOnce
  <2>2. Claimed(k) \in Row
    <3>1. row[k] \in Row /\ issued[k] + 1 \in Nat /\ Lease \in 0..Lease
      BY DEF TypeOK
    <3>2. row[k].attempts + 1 \in Nat
      BY <3>1 DEF Row
    <3> QED
      BY <3>1, <3>2 DEF Claimed, Row, Active
  <2>3. row' \in [Keys -> Row] /\ attempt' \in [Keys -> Attempt]
    BY <2>1, <2>2, RecoveryType
  <2>4. issued' \in [Keys -> Nat] /\ worker' \in [Workers -> WorkerState]
    BY <1>5 DEF RunOnce, TypeOK, WorkerState, Busy, Verdicts
  <2> QED
    BY <1>5, <2>3, <2>4 DEF RunOnce, TypeOK
<1>6. ASSUME RecoverOnly PROVE TypeOK'
  BY <1>6, RecoveryType DEF RecoverOnly, TypeOK
<1>7. ASSUME NEW w \in Workers, Heartbeat(w) PROVE TypeOK'
  <2>1. worker[w].key \in Keys
    BY <1>7 DEF Heartbeat, TokensIssued
  <2>2. row[worker[w].key] \in Row /\ Lease \in 0..Lease
    BY <2>1 DEF TypeOK
  <2>3. [row[worker[w].key] EXCEPT !.lease = Lease] \in Row
    BY <2>2 DEF Row
  <2> QED
    BY <1>7, <2>1, <2>3 DEF Heartbeat, TypeOK
<1>8. ASSUME NEW w \in Workers, Abandon(w) PROVE TypeOK'
  BY <1>8 DEF Abandon, TypeOK, Idle, WorkerState, Verdicts
<1>9. ASSUME NEW w \in Workers, FinishSucceeded(w) PROVE TypeOK'
  <2>1. worker[w].phase \in Busy /\ worker[w].key \in Keys
    BY <1>9 DEF FinishSucceeded, TokensIssued, Busy
  <2>2. Unleased(row[worker[w].key], "succeeded") \in Row
    <3>1. row[worker[w].key] \in Row /\ "succeeded" \in Active \cup Terminal
      BY <2>1 DEF TypeOK, Terminal
    <3> QED
      BY <3>1, UnleasedType
  <2>3. row' \in [Keys -> Row] /\ worker' \in [Workers -> WorkerState]
    BY <1>9, <2>1, <2>2, FinishType DEF FinishSucceeded
  <2> QED
    BY <1>9, <2>1, <2>3 DEF FinishSucceeded, TypeOK
<1>10. ASSUME NEW w \in Workers, FinishError(w) PROVE TypeOK'
  <2> DEFINE k == worker[w].key
  <2>1. worker[w].phase \in Busy /\ k \in Keys
    BY <1>10 DEF FinishError, Raised, TokensIssued, Busy
  <2>2. Raised(w) \subseteq Verdicts
    BY DEF Raised, Verdicts, WorkersOK, WorkerOK, SettledWritten
  <2>3. PICK verdict \in Raised(w), delay \in 1..Backoff :
          LET s == ErrorState(k, verdict)
          IN  /\ Finish(w, [Unleased(row[k], s) EXCEPT
                              !.wait = IF s = "retry_wait" THEN delay ELSE 0])
              /\ attempt' = IF Owned(w) /\ IsPublication(k) /\ s = "needs_review"
                              THEN [attempt EXCEPT ![k] = MarkUnknown(@)] ELSE attempt
    BY <1>10 DEF FinishError
  <2>4. row' \in [Keys -> Row] /\ worker' \in [Workers -> WorkerState]
    BY <2>1, <2>2, <2>3, ErrorType, FinishType
  <2>5. attempt' \in [Keys -> Attempt]
    BY <2>1, <2>3 DEF MarkUnknown, TypeOK, Attempt
  <2> QED
    BY <1>10, <2>4, <2>5 DEF FinishError, TypeOK
<1>11. ASSUME NEW w \in Workers, Reserve(w) PROVE TypeOK'
  <2>1. worker[w].key \in Keys /\ worker[w].token \in Nat
    BY <1>11 DEF Reserve, TokensIssued, TypeOK, WorkerState, Busy
  <2>2. [status |-> "sending", by |-> worker[w].token] \in Attempt
    BY <2>1 DEF Attempt
  <2>3. worker' \in [Workers -> WorkerState]
    <3>1. "reserved" \in Busy /\ [worker EXCEPT ![w] = Idle] \in [Workers -> WorkerState]
      BY DEF TypeOK, Idle, WorkerState, Busy
    <3> QED
      BY <1>11, <3>1, PhaseType DEF Reserve
  <2> QED
    BY <1>11, <2>2, <2>3 DEF Reserve, TypeOK
<1>12. ASSUME NEW w \in Workers, Send(w) PROVE TypeOK'
  <2>1. worker' \in [Workers -> WorkerState]
    BY <1>12, PhaseType DEF Send, Busy
  <2>2. worker[w].key \in Keys
    BY <1>12 DEF Send, TokensIssued, Busy
  <2> QED
    BY <1>12, <2>1, <2>2 DEF Send, TypeOK
<1>13. ASSUME NEW w \in Workers, UploadFails(w) PROVE TypeOK'
  BY <1>13, SettleType DEF UploadFails, Verdicts, TypeOK
<1>14. ASSUME NEW w \in Workers, NotReady(w) PROVE TypeOK'
  <2>1. worker' \in [Workers -> WorkerState]
    BY <1>14, PhaseType DEF NotReady, Busy
  <2>2. worker[w].key \in Keys
    BY <1>14 DEF NotReady, TokensIssued, Busy
  <2> QED
    BY <1>14, <2>1, <2>2 DEF NotReady, TypeOK
<1>15. ASSUME NEW w \in Workers, Rejected(w) PROVE TypeOK'
  <2>1. worker[w].key \in Keys
    BY <1>15 DEF Rejected, TokensIssued, Busy
  <2>2. inflight' \in [Keys -> Nat]
    BY <1>15, <2>1 DEF Rejected, TypeOK
  <2> QED
    BY <1>15, <2>2, SettleType DEF Rejected, Verdicts, TypeOK
<1>16. ASSUME NEW w \in Workers, Uncertain(w) PROVE TypeOK'
  BY <1>16, SettleType DEF Uncertain, Verdicts, TypeOK
<1>17. ASSUME NEW w \in Workers, Confirm(w) PROVE TypeOK'
  <2>1. worker[w].phase \in Busy /\ worker[w].key \in Keys
    BY <1>17 DEF Confirm, TokensIssued, Busy
  <2>2. Unleased(row[worker[w].key], "succeeded") \in Row
    <3>1. row[worker[w].key] \in Row /\ "succeeded" \in Active \cup Terminal
      BY <2>1 DEF TypeOK, Terminal
    <3> QED
      BY <3>1, UnleasedType
  <2>3. row' \in [Keys -> Row] /\ worker' \in [Workers -> WorkerState]
    BY <1>17, <2>1, <2>2, FinishType DEF Confirm
  <2>4. attempt' \in [Keys -> Attempt]
    BY <1>17, OwnAttemptType DEF Confirm, TypeOK
  <2> QED
    BY <1>17, <2>3, <2>4 DEF Confirm, TypeOK
<1>18. ASSUME Tick PROVE TypeOK'
  <2>1. ASSUME NEW k \in Keys PROVE AgedRows[k] \in Row
    <3>1. row[k] \in Row
      BY DEF TypeOK
    <3>2. Less(row[k].lease) \in 0..Lease /\ Less(row[k].wait) \in 0..Backoff
      BY <3>1 DEF Less, Row
    <3> QED
      BY <3>1, <3>2 DEF AgedRows, Row
  <2> QED
    BY <1>18, <2>1 DEF Tick, AgedRows, TypeOK
<1>19. ASSUME UNCHANGED vars PROVE TypeOK'
  BY <1>19 DEF vars, TypeOK
<1> QED
  BY <1>1, <1>2, <1>3, <1>4, <1>5, <1>6, <1>7, <1>8, <1>9, <1>10, <1>11, <1>12, <1>13,
     <1>14, <1>15, <1>16, <1>17, <1>18, <1>19 DEF Next, WorkerStep

-----------------------------------------------------------------------------
(* The rows.  A step adds one task, or moves rows along RowMove.           *)

RowMove(k) ==
  LET r == row[k]  s == row'[k]
  IN  \/ /\ s.state = r.state /\ s.attempts = r.attempts /\ s.token = r.token
         /\ r.state # "running" => s.lease \in {r.lease, Less(r.lease)}
         /\ s.wait \in {r.wait, Less(r.wait)}
      \/ r.state \in Waiting /\ s = [r EXCEPT !.state = "cancelled", !.wait = 0]
      \/ Claimable(k) /\ s = Claimed(k)
      \/ /\ r.state = "running"
         /\ s.state \in {"retry_wait", "succeeded", "failed", "needs_review"}
         /\ s.attempts = r.attempts /\ s.token = 0 /\ s.lease = 0
         /\ s.state = "retry_wait" => ~Exhausted(k)
         /\ s.state # "retry_wait" => s.wait = 0

\* What recovery does to a task: nothing, or an end its latest attempt allows.
Recovery(k, r, a) ==
  \/ r = row[k] /\ a = attempt[k]
  \/ /\ k \in Expired
     /\ r.attempts = row[k].attempts /\ r.token = 0 /\ r.lease = 0
     /\ r.state = "retry_wait" => ~Exhausted(k)
     /\ r.state # "retry_wait" => r.wait = 0
     /\ \/ /\ ~IsPublication(k) \/ attempt[k].status = "none"
           /\ r.state \in {"retry_wait", "failed"} /\ a = attempt[k]
        \/ /\ IsPublication(k) /\ a = attempt[k]
           /\ \/ attempt[k].status = "confirmed" /\ r.state = "succeeded"
              \/ attempt[k].status = "failed" /\ r.state = "failed"
        \/ /\ IsPublication(k) /\ attempt[k].status \in {"sending", "unknown"}
           /\ r.state = "needs_review"
           /\ a.status = "unknown" /\ a.by = attempt[k].by

\* What recovery does to one row and its attempt, whichever rows it takes.
LEMMA RecoverStep ==
  ASSUME TypeOK, RowShape,
         NEW R \in SUBSET Expired, NEW delay \in [Keys -> 1..Backoff], NEW k \in Keys
  PROVE  Recovery(k, RecoverRows(R, delay)[k], RecoverAttempts(R)[k])
<1> DEFINE r == RecoverRows(R, delay)[k]
           a == RecoverAttempts(R)[k]
<1>1. CASE k \notin R
  BY <1>1 DEF RecoverRows, RecoverAttempts, Recovery
<1>2. CASE k \in R
  <2>1. /\ r = RecoveredRow(k, delay[k]) /\ k \in Expired
        /\ a = IF IsPublication(k) THEN MarkUnknown(attempt[k]) ELSE attempt[k]
    BY <1>2 DEF RecoverRows, RecoverAttempts
  <2>2. /\ r.state = RecoveredState(k) /\ r.attempts = row[k].attempts
        /\ r.token = 0 /\ r.lease = 0
        /\ r.state # "retry_wait" => r.wait = 0
    BY <2>1 DEF RecoveredRow, Unleased, TypeOK, Row, RowShape, Expired
  <2>3. attempt[k] \in Attempt
    BY DEF TypeOK
  <2>4. CASE ~IsPublication(k)
    BY <2>1, <2>2, <2>4 DEF Recovery, RecoveredState, RetryOrFail
  <2>5. CASE IsPublication(k) /\ attempt[k].status \notin {"sending", "unknown"}
    BY <2>1, <2>2, <2>3, <2>5 DEF Recovery, RecoveredState, RetryOrFail, MarkUnknown, Attempt
  <2>6. CASE IsPublication(k) /\ attempt[k].status \in {"sending", "unknown"}
    <3>1. a.status = "unknown" /\ a.by = attempt[k].by
      BY <2>1, <2>3, <2>6 DEF MarkUnknown, Attempt
    <3>2. RecoveredState(k) = "needs_review"
      BY <2>6 DEF RecoveredState
    <3> QED
      BY <2>1, <2>2, <2>6, <3>1, <3>2 DEF Recovery
  <2> QED
    BY <2>4, <2>5, <2>6
<1> QED
  BY <1>1, <1>2

\* Recovery moves only running rows whose lease has ended.
LEMMA RecoveryMoves ==
  ASSUME NEW k \in Keys, Recovery(k, row'[k], attempt'[k])
  PROVE  RowMove(k)
BY DEF Recovery, RowMove, Expired

\* The end of an execution moves the task of its worker, if the worker owns it.
LEMMA FinishMoves ==
  ASSUME TypeOK, NEW w \in Workers, worker[w].key \in Keys, NEW finished, Finish(w, finished),
         finished.state \in {"retry_wait", "succeeded", "failed", "needs_review"},
         finished.attempts = row[worker[w].key].attempts,
         finished.token = 0, finished.lease = 0,
         finished.state = "retry_wait" => ~Exhausted(worker[w].key),
         finished.state # "retry_wait" => finished.wait = 0
  PROVE  \A k \in Keys : RowMove(k)
<1> TAKE k \in Keys
<1>1. CASE Owned(w) /\ k = worker[w].key
  <2>1. row'[k] = finished /\ row[k].state = "running"
    BY <1>1 DEF Finish, Owned, TypeOK
  <2> QED
    BY <1>1, <2>1 DEF RowMove
<1>2. CASE ~ (Owned(w) /\ k = worker[w].key)
  <2>1. row'[k] = row[k]
    BY <1>2 DEF Finish, TypeOK
  <2> QED
    BY <2>1 DEF RowMove
<1> QED
  BY <1>1, <1>2

\* Every step inserts a row or moves each along a transition of RowMove.
LEMMA RowStep ==
  ASSUME TypeOK, RowShape, TokensIssued, WorkersOK, [Next]_vars
  PROVE  (\E k \in Keys : Enqueue(k)) \/ (\A k \in Keys : RowMove(k))
<1> USE ConstantsAssumption
<1>1. ASSUME row' = row PROVE \A k \in Keys : RowMove(k)
  BY <1>1 DEF RowMove
<1>2. ASSUME NEW k \in Keys, Cancel(k) PROVE \A j \in Keys : RowMove(j)
  <2>1. \A j \in Keys : row'[j] = IF j = k THEN [row[k] EXCEPT !.state = "cancelled", !.wait = 0]
                                           ELSE row[j]
    BY <1>2 DEF Cancel, TypeOK
  <2> QED
    BY <1>2, <2>1 DEF Cancel, RowMove
<1>3. ASSUME NEW w \in Workers, NEW k \in Keys, RunOnce(w, k)
      PROVE  \A j \in Keys : RowMove(j)
  <2>1. PICK R \in SUBSET Expired, delay \in [Keys -> 1..Backoff] :
          /\ row' = [RecoverRows(R, delay) EXCEPT ![k] = Claimed(k)]
          /\ attempt' = RecoverAttempts(R)
    BY <1>3 DEF RunOnce
  <2>2. row'[k] = Claimed(k) /\ \A j \in Keys \ {k} : row'[j] = RecoverRows(R, delay)[j]
    BY <2>1 DEF RecoverRows
  <2>3. \A j \in Keys \ {k} : RowMove(j)
    BY <2>1, <2>2, RecoverStep, RecoveryMoves
  <2>4. RowMove(k)
    BY <1>3, <2>2 DEF RunOnce, RowMove
  <2> QED
    BY <2>3, <2>4
<1>4. ASSUME RecoverOnly PROVE \A k \in Keys : RowMove(k)
  <2>1. PICK R \in SUBSET Expired \ {{}}, delay \in [Keys -> 1..Backoff] :
          row' = RecoverRows(R, delay) /\ attempt' = RecoverAttempts(R)
    BY <1>4 DEF RecoverOnly
  <2> QED
    BY <2>1, RecoverStep, RecoveryMoves
<1>5. ASSUME NEW w \in Workers, Heartbeat(w) PROVE \A k \in Keys : RowMove(k)
  <2>1. \A k \in Keys : row'[k] = IF k = worker[w].key THEN [row[k] EXCEPT !.lease = Lease]
                                                      ELSE row[k]
    BY <1>5 DEF Heartbeat, TypeOK
  <2>2. row[worker[w].key].state = "running"
    BY <1>5 DEF Heartbeat, Owned
  <2>3. ASSUME NEW k \in Keys, k = worker[w].key PROVE RowMove(k)
    <3>1. row[k] \in Row /\ row'[k] = [row[k] EXCEPT !.lease = Lease]
      BY <2>1, <2>3 DEF TypeOK
    <3>2. /\ row'[k].state = row[k].state /\ row'[k].attempts = row[k].attempts
          /\ row'[k].token = row[k].token /\ row'[k].wait = row[k].wait
      BY <3>1 DEF Row
    <3> QED
      BY <2>2, <2>3, <3>2 DEF RowMove
  <2>4. ASSUME NEW k \in Keys, k # worker[w].key PROVE RowMove(k)
    BY <2>1, <2>4 DEF RowMove
  <2> QED
    BY <2>3, <2>4
<1>6. ASSUME NEW w \in Workers, FinishSucceeded(w) \/ Confirm(w)
      PROVE  \A k \in Keys : RowMove(k)
  <2>1. worker[w].key \in Keys
    BY <1>6 DEF FinishSucceeded, Confirm, TokensIssued, Busy
  <2>2. row[worker[w].key] \in Row /\ Finish(w, Unleased(row[worker[w].key], "succeeded"))
    BY <1>6, <2>1 DEF FinishSucceeded, Confirm, TypeOK
  <2>3. CASE Owned(w)
    <3>1. row[worker[w].key].wait = 0
      BY <2>1, <2>3 DEF Owned, RowShape
    <3> QED
      BY <2>1, <2>2, <3>1, FinishMoves DEF Unleased, Row
  <2>4. CASE ~Owned(w)
    BY <1>1, <2>2, <2>4 DEF Finish
  <2> QED
    BY <2>3, <2>4
<1>7. ASSUME NEW w \in Workers, FinishError(w) PROVE \A k \in Keys : RowMove(k)
  <2> DEFINE k == worker[w].key
             finished(v, d) == [Unleased(row[k], ErrorState(k, v)) EXCEPT
                                  !.wait = IF ErrorState(k, v) = "retry_wait" THEN d ELSE 0]
  <2>1. k \in Keys
    BY <1>7 DEF FinishError, Raised, TokensIssued, Busy
  <2>2. PICK v \in Raised(w), d \in 1..Backoff : Finish(w, finished(v, d))
    BY <1>7 DEF FinishError
  <2>3. /\ ErrorState(k, v) \in {"needs_review", "retry_wait", "failed"}
        /\ ErrorState(k, v) = "retry_wait" => ~Exhausted(k)
    BY DEF ErrorState
  <2>4. row[k] \in Row
    BY <2>1 DEF TypeOK
  <2>5. /\ finished(v, d).state = ErrorState(k, v)
        /\ finished(v, d).attempts = row[k].attempts
        /\ finished(v, d).token = 0 /\ finished(v, d).lease = 0
        /\ ErrorState(k, v) # "retry_wait" => finished(v, d).wait = 0
    BY <2>4 DEF Unleased, Row
  <2> HIDE DEF finished
  <2> QED
    BY <2>1, <2>2, <2>3, <2>5, FinishMoves
<1>8. ASSUME Tick PROVE \A k \in Keys : RowMove(k)
  <2>1. \A k \in Keys : row'[k] = [row[k] EXCEPT !.lease = Less(@), !.wait = Less(@)]
    BY <1>8 DEF Tick, AgedRows
  <2>2. \A k \in Keys : row[k] \in Row
    BY DEF TypeOK
  <2> QED
    BY <2>1, <2>2 DEF RowMove, Row
<1>9. ASSUME NEW w \in Workers,
             \/ Abandon(w) \/ Reserve(w) \/ Send(w) \/ UploadFails(w)
             \/ NotReady(w) \/ Rejected(w) \/ Uncertain(w)
      PROVE  row' = row
  BY <1>9 DEF Abandon, Reserve, Send, UploadFails, NotReady, Rejected, Uncertain
<1>10. ASSUME NEW k \in Keys, Accepted(k) \/ Reconcile(k) PROVE row' = row
  BY <1>10 DEF Accepted, Reconcile
<1> QED
  BY <1>1, <1>2, <1>3, <1>4, <1>5, <1>6, <1>7, <1>8, <1>9, <1>10 DEF Next, WorkerStep, vars

\* finish and recover_expired clear leases; claim and cancel clear delays.
LEMMA RowShapeStep ==
  ASSUME TypeOK, RowShape, TokensIssued, WorkersOK, [Next]_vars
  PROVE  RowShape'
<1> USE ConstantsAssumption
<1>1. ASSUME NEW k \in Keys, Enqueue(k) PROVE RowShape'
  BY <1>1 DEF Enqueue, RowShape, TypeOK, Row
<1>2. ASSUME \A k \in Keys : RowMove(k) PROVE RowShape'
  <2> SUFFICES ASSUME NEW k \in Keys
               PROVE  /\ row'[k].state # "running" => row'[k].lease = 0
                      /\ row'[k].state # "retry_wait" => row'[k].wait = 0
    BY DEF RowShape
  <2>1. row[k] \in Row /\ Claimed(k).state = "running" /\ Claimed(k).wait = row[k].wait
    BY DEF TypeOK, Row, Claimed
  <2>2. /\ row[k].state # "running" => row[k].lease = 0
        /\ row[k].state # "retry_wait" => row[k].wait = 0
    BY DEF RowShape
  <2> QED
    BY <1>2, <2>1, <2>2 DEF RowMove, Row, Less, Waiting, Claimable
<1> QED
  BY <1>1, <1>2, RowStep

\* Both ways into retry_wait have checked the budget, and only claim spends it.
LEMMA RetryBudgetStep ==
  ASSUME TypeOK, RowShape, RetryBudget, TokensIssued, WorkersOK, [Next]_vars
  PROVE  RetryBudget'
<1> USE ConstantsAssumption
<1>1. ASSUME NEW k \in Keys, Enqueue(k) PROVE RetryBudget'
  BY <1>1 DEF Enqueue, RetryBudget, TypeOK, Row
<1>2. ASSUME \A k \in Keys : RowMove(k) PROVE RetryBudget'
  <2> SUFFICES ASSUME NEW k \in Keys
               PROVE  /\ row'[k].attempts <= MaxAttempts[QueueOf[k]]
                      /\ row'[k].state = "retry_wait" => row'[k].attempts < MaxAttempts[QueueOf[k]]
                      /\ row'[k].state \in {"absent", "pending"} => row'[k].attempts = 0
    BY DEF RetryBudget
  <2>1. /\ row[k] \in Row /\ MaxAttempts[QueueOf[k]] \in Nat \ {0}
        /\ Claimed(k).state = "running" /\ Claimed(k).attempts = row[k].attempts + 1
    BY DEF TypeOK, Row, Claimed
  <2>2. /\ row[k].attempts <= MaxAttempts[QueueOf[k]]
        /\ row[k].state = "retry_wait" => row[k].attempts < MaxAttempts[QueueOf[k]]
        /\ row[k].state \in {"absent", "pending"} => row[k].attempts = 0
    BY DEF RetryBudget
  <2>3. row[k].attempts \in Nat /\ RowMove(k)
    BY <1>2, <2>1 DEF Row
  <2>4. CASE Claimable(k) /\ row'[k] = Claimed(k)
    <3>1. row[k].attempts < MaxAttempts[QueueOf[k]]
      BY <2>1, <2>2, <2>4 DEF Claimable, Waiting
    <3> QED
      BY <2>1, <2>3, <2>4, <3>1
  <2>5. CASE row[k].state = "running" /\ row'[k].attempts = row[k].attempts
             /\ row'[k].state \in {"retry_wait", "succeeded", "failed", "needs_review"}
             /\ (row'[k].state = "retry_wait" => ~Exhausted(k))
    BY <2>1, <2>2, <2>3, <2>5 DEF Exhausted
  <2>6. CASE row'[k].state = row[k].state /\ row'[k].attempts = row[k].attempts
    BY <2>2, <2>6
  <2>7. CASE row'[k] = [row[k] EXCEPT !.state = "cancelled", !.wait = 0]
    <3>1. row'[k].state = "cancelled" /\ row'[k].attempts = row[k].attempts
      BY <2>1, <2>7 DEF Row
    <3> QED
      BY <2>2, <3>1
  <2> QED
    BY <2>3, <2>4, <2>5, <2>6, <2>7 DEF RowMove
<1> QED
  BY <1>1, <1>2, RowStep

\* Only enqueue adds to the active rows, and it looks for a rival first.
LEMMA ActiveSubjectStep ==
  ASSUME TypeOK, RowShape, ActiveSubjectUnique, TokensIssued, WorkersOK, [Next]_vars
  PROVE  ActiveSubjectUnique'
<1>1. ASSUME NEW k \in Keys, Enqueue(k) PROVE ActiveSubjectUnique'
  <2>1. \A j \in Keys : j # k => row'[j] = row[j]
    BY <1>1 DEF Enqueue, TypeOK
  <2> QED
    BY <1>1, <2>1 DEF Enqueue, ActiveSubjectUnique
<1>2. ASSUME \A k \in Keys : RowMove(k) PROVE ActiveSubjectUnique'
  <2>1. ASSUME NEW k \in Keys, row'[k].state \in Active PROVE row[k].state \in Active
    <3>1. row[k] \in Row
      BY DEF TypeOK
    <3> QED
      BY <1>2, <2>1, <3>1 DEF RowMove, Row, Active, Waiting, Claimable
  <2> QED
    BY <2>1 DEF ActiveSubjectUnique
<1> QED
  BY <1>1, <1>2, RowStep
-----------------------------------------------------------------------------
(* The workers.  Only a claim gives a worker a task and a token.           *)

Holds(w) == worker[w].phase \in Busy

KeepsTask(w) == worker'[w].key = worker[w].key /\ worker'[w].token = worker[w].token

\* A busy worker stays on its task and token until it is idle.
LEMMA WorkersKeepTasks ==
  ASSUME TypeOK, [Next]_vars
  PROVE  \/ \E w \in Workers, k \in Keys : RunOnce(w, k)
         \/ issued' = issued /\ \A w \in Workers : Holds(w)' => Holds(w) /\ KeepsTask(w)
<1>1. ASSUME worker' = worker PROVE \A w \in Workers : Holds(w)' => Holds(w) /\ KeepsTask(w)
  BY <1>1 DEF Holds, KeepsTask
<1>2. ASSUME NEW w \in Workers, worker' = [worker EXCEPT ![w] = Idle]
      PROVE  \A v \in Workers : Holds(v)' => Holds(v) /\ KeepsTask(v)
  <2>1. \A v \in Workers : worker'[v] = IF v = w THEN Idle ELSE worker[v]
    BY <1>2 DEF TypeOK
  <2> QED
    BY <2>1 DEF Holds, KeepsTask, Idle, Busy
<1>3. ASSUME NEW w \in Workers, Holds(w), NEW p \in Busy,
             \/ worker' = [worker EXCEPT ![w].phase = p]
             \/ \E verdict \in Verdicts :
                  worker' = [worker EXCEPT ![w].phase = p, ![w].verdict = verdict]
      PROVE  \A v \in Workers : Holds(v)' => Holds(v) /\ KeepsTask(v)
  <2>1. worker[w] \in WorkerState
    BY DEF TypeOK
  <2>2. KeepsTask(w) /\ \A v \in Workers \ {w} : worker'[v] = worker[v]
    BY <1>3, <2>1 DEF TypeOK, WorkerState, KeepsTask
  <2> QED
    BY <1>3, <2>2 DEF Holds, KeepsTask
<1>4. ASSUME NEW w \in Workers,
             \/ Abandon(w) \/ FinishSucceeded(w) \/ FinishError(w) \/ Confirm(w)
      PROVE  worker' = [worker EXCEPT ![w] = Idle] /\ issued' = issued
  BY <1>4 DEF Abandon, FinishSucceeded, FinishError, Confirm, Finish
<1>5. ASSUME NEW w \in Workers, Send(w) \/ NotReady(w)
      PROVE  /\ Holds(w) /\ issued' = issued
             /\ \E p \in Busy : worker' = [worker EXCEPT ![w].phase = p]
  BY <1>5 DEF Send, NotReady, Holds, Busy
<1>6. ASSUME NEW w \in Workers, Reserve(w)
      PROVE  /\ Holds(w) /\ issued' = issued
             /\ \/ worker' = [worker EXCEPT ![w].phase = "reserved"]
                \/ worker' = [worker EXCEPT ![w] = Idle]
  BY <1>6 DEF Reserve, Holds, Busy
<1>7. ASSUME NEW w \in Workers, UploadFails(w) \/ Rejected(w) \/ Uncertain(w)
      PROVE  /\ Holds(w) /\ issued' = issued
             /\ \E verdict \in Verdicts :
                  worker' = [worker EXCEPT ![w].phase = "settled", ![w].verdict = verdict]
  BY <1>7 DEF UploadFails, Rejected, Uncertain, Settle, Holds, Busy, Verdicts
<1>8. ASSUME NEW w \in Workers, Heartbeat(w) PROVE worker' = worker /\ issued' = issued
  BY <1>8 DEF Heartbeat
<1>9. ASSUME NEW k \in Keys, Enqueue(k) \/ Cancel(k) \/ Accepted(k) \/ Reconcile(k)
      PROVE  worker' = worker /\ issued' = issued
  BY <1>9 DEF Enqueue, Cancel, Accepted, Reconcile
<1>10. ASSUME RecoverOnly \/ Tick \/ UNCHANGED vars
       PROVE  worker' = worker /\ issued' = issued
  BY <1>10 DEF RecoverOnly, Tick, vars
<1>11. "reserved" \in Busy /\ "settled" \in Busy
  BY DEF Busy
<1> QED
  BY <1>1, <1>2, <1>3, <1>4, <1>5, <1>6, <1>7, <1>8, <1>9, <1>10, <1>11 DEF Next, WorkerStep

\* What a claim does to the workers.
LEMMA ClaimGives ==
  ASSUME TypeOK, NEW w \in Workers, NEW k \in Keys, RunOnce(w, k)
  PROVE  /\ issued'[k] = issued[k] + 1
         /\ \A j \in Keys \ {k} : issued'[j] = issued[j]
         /\ worker'[w].phase = "executing" /\ worker'[w].key = k
         /\ worker'[w].token = issued[k] + 1
         /\ \A v \in Workers \ {w} : worker'[v] = worker[v]
         /\ ~Holds(w)
BY DEF RunOnce, TypeOK, Holds, Busy

\* A claim draws a token nobody has; no other step makes one.
LEMMA TokensStep ==
  ASSUME TypeOK, TokensIssued, TokensDiffer, [Next]_vars
  PROVE  TokensIssued' /\ TokensDiffer'
<1>1. ASSUME NEW w \in Workers, NEW k \in Keys, RunOnce(w, k)
      PROVE  TokensIssued' /\ TokensDiffer'
  <2>0. /\ issued'[k] = issued[k] + 1
        /\ \A j \in Keys \ {k} : issued'[j] = issued[j]
        /\ worker'[w].key = k /\ worker'[w].token = issued[k] + 1
        /\ \A v \in Workers \ {w} : worker'[v] = worker[v]
    BY <1>1, ClaimGives
  <2>1. issued \in [Keys -> Nat]
    BY DEF TypeOK
  <2>2. \A v \in Workers \ {w} : worker[v].phase \in Busy =>
          worker[v].key \in Keys /\ worker[v].token \in 1..issued[worker[v].key]
    BY DEF TokensIssued
  <2>3. TokensIssued'
    <3> SUFFICES ASSUME NEW v \in Workers, worker'[v].phase \in Busy
                 PROVE  worker'[v].key \in Keys /\ worker'[v].token \in 1..issued'[worker'[v].key]
      BY DEF TokensIssued
    <3>1. CASE v = w
      BY <2>0, <2>1, <3>1
    <3>2. CASE v # w
      <4>1. worker'[v] = worker[v] /\ worker[v].key \in Keys
        BY <2>0, <2>2, <3>2
      <4>2. issued'[worker[v].key] \in {issued[worker[v].key], issued[worker[v].key] + 1}
        BY <2>0, <4>1
      <4> QED
        BY <2>1, <2>2, <3>2, <4>1, <4>2
    <3> QED
      BY <3>1, <3>2
  <2>4. TokensDiffer'
    <3> SUFFICES ASSUME NEW u \in Workers, NEW v \in Workers, u # v,
                        worker'[u].phase \in Busy, worker'[v].phase \in Busy,
                        worker'[u].key = worker'[v].key
                 PROVE  worker'[u].token # worker'[v].token
      BY DEF TokensDiffer
    <3>1. CASE u # w /\ v # w
      BY <2>0, <3>1 DEF TokensDiffer
    <3>2. ASSUME NEW x \in Workers, x # w, worker'[x].phase \in Busy, worker'[x].key = k
          PROVE  worker'[x].token # issued[k] + 1
      BY <2>0, <2>1, <2>2, <3>2
    <3> QED
      BY <2>0, <3>1, <3>2
  <2> QED
    BY <2>3, <2>4
<1>2. ASSUME issued' = issued, \A w \in Workers : Holds(w)' => Holds(w) /\ KeepsTask(w)
      PROVE  TokensIssued' /\ TokensDiffer'
  BY <1>2 DEF TokensIssued, TokensDiffer, Holds, KeepsTask
<1> QED
  BY <1>1, <1>2, WorkersKeepTasks
-----------------------------------------------------------------------------
(* The messages.  A step that leaves a task alone keeps what is known of   *)
(* it; a worker that owns its task, or is past its reservation, meets no   *)
(* other worker there but executions that have lost their lease.           *)

SameTask(k) ==
  /\ row'[k].state = row[k].state /\ row'[k].token = row[k].token
  /\ attempt'[k] = attempt[k]
  /\ inflight'[k] = inflight[k] /\ posted'[k] = posted[k] /\ applied'[k] = applied[k]

TaskOK(k) == SafeTask(k) /\ PublicationTask(k)

\* A task none of whose rows changes stays good.
LEMMA SameTaskOK ==
  ASSUME NEW k \in Keys, TaskOK(k), SameTask(k)
  PROVE  TaskOK(k)'
BY DEF SameTask, TaskOK, SafeTask, PublicationTask, Sent, IsPublication

\* A worker stays good while neither it nor its task changes.
LEMMA SameWorkerOK ==
  ASSUME NEW w \in Workers, WorkerOK(w), worker'[w] = worker[w],
         Holds(w) => SameTask(worker[w].key)
  PROVE  WorkerOK(w)'
<1>1. CASE Holds(w)
  BY <1>1 DEF SameTask, WorkerOK, ExecutingUnsent, ReservedUnsent, AwaitingReserved,
              SettledWritten, Reserved, RunsUnder, Sent, IsPublication
<1>2. CASE ~Holds(w)
  BY <1>2 DEF Holds, Busy, WorkerOK, ExecutingUnsent, ReservedUnsent, AwaitingReserved,
              SettledWritten
<1> QED
  BY <1>1, <1>2

\* Nothing is claimed about an idle worker.
LEMMA IdleWorkerOK ==
  ASSUME NEW w \in Workers, ~Holds(w)'
  PROVE  WorkerOK(w)'
BY DEF Holds, Busy, WorkerOK, ExecutingUnsent, ReservedUnsent, AwaitingReserved, SettledWritten

\* The other workers on w's task are executions that have lost it.
LEMMA Rivals ==
  ASSUME TokensDiffer, WorkersOK,
         NEW w \in Workers, Holds(w), RunsUnder(w) \/ worker[w].phase # "executing",
         NEW v \in Workers, v # w, Holds(v), worker[v].key = worker[w].key
  PROVE  worker[v].phase = "executing" /\ ~RunsUnder(v)
<1>1. worker[v].token # worker[w].token
  BY DEF TokensDiffer, Holds
<1>2. /\ worker[w].phase \in {"reserved", "awaiting", "settled"}
           => attempt[worker[w].key].by = worker[w].token
      /\ worker[v].phase \in {"reserved", "awaiting", "settled"}
           => attempt[worker[v].key].by = worker[v].token
  BY DEF WorkersOK, WorkerOK, ReservedUnsent, AwaitingReserved, SettledWritten, Reserved
<1>3. CASE RunsUnder(w)
  <2>1. ~RunsUnder(v) /\ row[worker[v].key].state = "running"
    BY <1>1, <1>3 DEF RunsUnder
  <2> QED
    BY <2>1 DEF WorkersOK, WorkerOK, ReservedUnsent, AwaitingReserved, SettledWritten,
                Reserved, Holds, Busy
<1>4. CASE ~RunsUnder(w)
  <2>1. worker[v].phase = "executing"
    BY <1>1, <1>2, <1>4 DEF Holds, Busy
  <2>2. row[worker[w].key].state # "running"
    BY <1>4 DEF WorkersOK, WorkerOK, ReservedUnsent, AwaitingReserved, SettledWritten,
                Reserved, Holds, Busy
  <2> QED
    BY <2>1, <2>2 DEF RunsUnder
<1> QED
  BY <1>3, <1>4

\* A step of w on its own task: what has to be shown of the task and of w.
LEMMA OwnerStep ==
  ASSUME TokensDiffer, TasksOK, WorkersOK,
         NEW w \in Workers, Holds(w), RunsUnder(w) \/ worker[w].phase # "executing",
         NEW k \in Keys, worker[w].key = k,
         \A j \in Keys \ {k} : SameTask(j),
         \A v \in Workers \ {w} : worker'[v] = worker[v],
         TokensIssued,
         \/ row'[k].state # "running"
         \/ /\ row'[k].state = row[k].state
            /\ row'[k].token = row[k].token,
         TaskOK(k)', WorkerOK(w)'
  PROVE  TasksOK' /\ WorkersOK'
<1>1. ASSUME NEW j \in Keys PROVE TaskOK(j)'
  <2>1. CASE j = k
    BY <2>1
  <2>2. CASE j # k
    <3>1. TaskOK(j) /\ SameTask(j)
      BY <2>2 DEF TasksOK, TaskOK
    <3> QED
      BY <3>1, SameTaskOK
  <2> QED
    BY <2>1, <2>2
<1>2. ASSUME NEW v \in Workers PROVE WorkerOK(v)'
  <2>1. CASE v = w
    BY <2>1
  <2>2. CASE v # w /\ Holds(v) /\ worker[v].key = k
    <3>1. worker[v].phase = "executing" /\ ~RunsUnder(v)
      BY <2>2, Rivals
    <3>2. worker'[v] = worker[v]
      BY <2>2
    <3>3. ~RunsUnder(v)'
      BY <2>2, <3>1, <3>2 DEF RunsUnder
    <3> QED
      BY <3>1, <3>2, <3>3 DEF WorkerOK, ExecutingUnsent, ReservedUnsent, AwaitingReserved,
                              SettledWritten
  <2>3. CASE v # w /\ ~ (Holds(v) /\ worker[v].key = k)
    <3>1. Holds(v) => worker[v].key \in Keys
      BY DEF TokensIssued, Holds
    <3>2. Holds(v) => SameTask(worker[v].key)
      BY <2>3, <3>1
    <3>3. WorkerOK(v) /\ worker'[v] = worker[v]
      BY <2>3 DEF WorkersOK
    <3> QED
      BY <3>2, <3>3, SameWorkerOK
  <2> QED
    BY <2>1, <2>2, <2>3
<1> QED
  BY <1>1, <1>2 DEF TasksOK, TaskOK, WorkersOK

\* A worker that leaves without writing.
LEMMA LeaverStep ==
  ASSUME TypeOK, TasksOK, WorkersOK, NEW w \in Workers,
         worker' = [worker EXCEPT ![w] = Idle],
         UNCHANGED <<row, attempt, inflight, posted, applied>>
  PROVE  TasksOK' /\ WorkersOK'
<1>1. \A j \in Keys : TaskOK(j)'
  BY SameTaskOK DEF SameTask, TasksOK, TaskOK
<1>2. ASSUME NEW v \in Workers PROVE WorkerOK(v)'
  <2>1. worker'[v] = IF v = w THEN Idle ELSE worker[v]
    BY DEF TypeOK
  <2>2. v = w => ~Holds(v)'
    BY <2>1 DEF Holds, Busy, Idle
  <2>3. SameTask(worker[v].key) /\ WorkerOK(v)
    BY DEF SameTask, WorkersOK
  <2> QED
    BY <2>1, <2>2, <2>3, SameWorkerOK, IdleWorkerOK
<1> QED
  BY <1>1, <1>2 DEF TasksOK, TaskOK, WorkersOK
\* Recovery keeps what is known of a task and of the workers that still hold it.
LEMMA RecoveredTaskOK ==
  ASSUME NEW k \in Keys, TaskOK(k), Recovery(k, row'[k], attempt'[k]),
         inflight'[k] = inflight[k], posted'[k] = posted[k], applied'[k] = applied[k]
  PROVE  TaskOK(k)'
<1>1. CASE row'[k] = row[k] /\ attempt'[k] = attempt[k]
  BY <1>1, SameTaskOK DEF SameTask
<1>2. CASE ~ (row'[k] = row[k] /\ attempt'[k] = attempt[k])
  <2>1. row[k].state = "running"
    BY <1>2 DEF Recovery, Expired
  <2> QED
    BY <1>2, <2>1 DEF Recovery, TaskOK, SafeTask, PublicationTask, Sent, IsPublication
<1> QED
  BY <1>1, <1>2

\* A worker that meets its recovered task finds it as WorkerOK says.
LEMMA RecoveredWorkerOK ==
  ASSUME NEW w \in Workers, WorkerOK(w), worker'[w] = worker[w], Holds(w),
         NEW k \in Keys, worker[w].key = k, Recovery(k, row'[k], attempt'[k]),
         inflight'[k] = inflight[k], posted'[k] = posted[k], applied'[k] = applied[k]
  PROVE  WorkerOK(w)'
<1>1. CASE row'[k] = row[k] /\ attempt'[k] = attempt[k]
  BY <1>1, SameWorkerOK DEF SameTask
<1>2. CASE ~ (row'[k] = row[k] /\ attempt'[k] = attempt[k])
  <2>1. row[k].state = "running"
    BY <1>2 DEF Recovery, Expired
  <2>2. ~RunsUnder(w)'
    BY <1>2 DEF Recovery, RunsUnder
  <2>3. CASE worker[w].phase = "executing"
    BY <2>2, <2>3 DEF WorkerOK, ExecutingUnsent, ReservedUnsent, AwaitingReserved,
                      SettledWritten
  <2>4. CASE worker[w].phase \in {"reserved", "awaiting"}
    <3>1. Reserved(w) /\ attempt[k].status = "sending"
      BY <2>1, <2>4 DEF WorkerOK, ReservedUnsent, AwaitingReserved, Reserved
    <3>2. Reserved(w)'
      BY <1>2, <3>1 DEF Recovery, Reserved, IsPublication
    <3> QED
      BY <2>4, <3>2 DEF WorkerOK, ExecutingUnsent, ReservedUnsent, AwaitingReserved,
                        SettledWritten, Sent
  <2>5. CASE worker[w].phase = "settled"
    <3>1. SettledWritten(w)'
      BY <1>2, <2>1, <2>5 DEF Recovery, WorkerOK, SettledWritten, IsPublication
    <3> QED
      BY <2>5, <3>1 DEF WorkerOK, ExecutingUnsent, ReservedUnsent, AwaitingReserved
  <2> QED
    BY <2>3, <2>4, <2>5 DEF Holds, Busy
<1> QED
  BY <1>1, <1>2

\* Recovery alone keeps what is known of messages.
LEMMA RecoverOnlyMessages ==
  ASSUME IInv, RecoverOnly
  PROVE  TasksOK' /\ WorkersOK'
<1>1. PICK R \in SUBSET Expired \ {{}}, delay \in [Keys -> 1..Backoff] :
        row' = RecoverRows(R, delay) /\ attempt' = RecoverAttempts(R)
  BY DEF RecoverOnly
<1>2. \A k \in Keys : Recovery(k, row'[k], attempt'[k])
  BY <1>1, RecoverStep DEF IInv
<1>3. UNCHANGED <<worker, inflight, posted, applied>>
  BY DEF RecoverOnly
<1>4. \A k \in Keys : TaskOK(k)'
  BY <1>2, <1>3, RecoveredTaskOK DEF IInv, TasksOK, TaskOK
<1>5. ASSUME NEW w \in Workers PROVE WorkerOK(w)'
  <2>1. CASE Holds(w)
    <3>1. worker[w].key \in Keys /\ worker'[w] = worker[w] /\ WorkerOK(w)
      BY <1>3, <2>1 DEF IInv, TokensIssued, Holds, WorkersOK
    <3> QED
      BY <1>2, <1>3, <2>1, <3>1, RecoveredWorkerOK
  <2>2. CASE ~Holds(w)
    BY <1>3, <2>2, IdleWorkerOK DEF Holds
  <2> QED
    BY <2>1, <2>2
<1> QED
  BY <1>4, <1>5 DEF TasksOK, TaskOK, WorkersOK

\* A claim starts an execution only of a task that has sent nothing.
LEMMA RunOnceMessages ==
  ASSUME IInv, NEW w \in Workers, NEW k \in Keys, RunOnce(w, k)
  PROVE  TasksOK' /\ WorkersOK'
<1>1. PICK R \in SUBSET Expired, delay \in [Keys -> 1..Backoff] :
        /\ row' = [RecoverRows(R, delay) EXCEPT ![k] = Claimed(k)]
        /\ attempt' = RecoverAttempts(R)
  BY DEF RunOnce
<1>2. k \notin Expired /\ row[k].state \in Waiting
  BY DEF RunOnce, Claimable, Waiting, Expired
<1>3. /\ row'[k] = Claimed(k) /\ attempt'[k] = attempt[k]
      /\ \A j \in Keys \ {k} : Recovery(j, row'[j], attempt'[j])
  <2>1. row'[k] = Claimed(k) /\ \A j \in Keys \ {k} : row'[j] = RecoverRows(R, delay)[j]
    BY <1>1 DEF RecoverRows
  <2>2. attempt'[k] = attempt[k]
    BY <1>1, <1>2 DEF RecoverAttempts
  <2> QED
    BY <1>1, <2>1, <2>2, RecoverStep DEF IInv
<1>4. /\ UNCHANGED <<inflight, posted, applied>>
      /\ \A v \in Workers \ {w} : worker'[v] = worker[v]
      /\ worker'[w].phase = "executing" /\ worker'[w].key = k
      /\ worker'[w].token = issued[k] + 1
  BY ClaimGives DEF RunOnce, IInv
<1>5. row'[k].state = "running" /\ row'[k].token = issued[k] + 1
  <2>1. row[k] \in Row
    BY DEF IInv, TypeOK
  <2> QED
    BY <1>3, <2>1 DEF Claimed, Row
<1>6. ASSUME NEW j \in Keys PROVE TaskOK(j)'
  <2>1. TaskOK(j)
    BY DEF IInv, TasksOK, TaskOK
  <2>2. CASE j = k
    <3>1. SafeTask(k)' /\ PublicationTask(k)'
      BY <1>2, <1>3, <1>4, <1>5, <2>1, <2>2
         DEF Waiting, TaskOK, SafeTask, PublicationTask, Sent, IsPublication
    <3> QED
      BY <2>2, <3>1 DEF TaskOK
  <2>3. CASE j # k
    BY <1>3, <1>4, <2>1, <2>3, RecoveredTaskOK
  <2> QED
    BY <2>2, <2>3
<1>7. WorkerOK(w)'
  <2>1. attempt[k].status \in {"none", "failed"}
    BY <1>2 DEF IInv, TasksOK, SafeTask, PublicationTask, Waiting
  <2>2. ExecutingUnsent(w)'
    BY <1>3, <1>4, <2>1 DEF ExecutingUnsent
  <2> QED
    BY <1>4, <2>2 DEF WorkerOK, ReservedUnsent, AwaitingReserved, SettledWritten
<1>8. ASSUME NEW v \in Workers, v # w, Holds(v) PROVE WorkerOK(v)'
  <2>1. /\ worker'[v] = worker[v] /\ WorkerOK(v) /\ worker[v].key \in Keys
        /\ worker[v].token \in 1..issued[worker[v].key]
    BY <1>4, <1>8 DEF IInv, WorkersOK, TokensIssued, Holds
  <2>2. CASE worker[v].key = k
    <3>1. worker[v].token # issued[k] + 1
      BY <2>1, <2>2 DEF IInv, TypeOK
    <3>2. ~RunsUnder(v)'
      BY <1>5, <2>1, <2>2, <3>1 DEF RunsUnder
    <3>3. worker[v].phase = "executing"
      BY <1>2, <1>8, <2>1, <2>2
         DEF Waiting, Holds, Busy, WorkerOK, ReservedUnsent, AwaitingReserved,
             SettledWritten, Reserved, RunsUnder
    <3> QED
      BY <2>1, <3>2, <3>3 DEF WorkerOK, ExecutingUnsent, ReservedUnsent,
                              AwaitingReserved, SettledWritten
  <2>3. CASE worker[v].key # k
    BY <1>3, <1>4, <1>8, <2>1, <2>3, RecoveredWorkerOK
  <2> QED
    BY <2>2, <2>3
<1>9. ASSUME NEW v \in Workers, v # w, ~Holds(v) PROVE WorkerOK(v)'
  BY <1>4, <1>9, IdleWorkerOK DEF Holds
<1> QED
  BY <1>6, <1>7, <1>8, <1>9 DEF TasksOK, TaskOK, WorkersOK
\* Steps on rows alone: a task without effects enters or leaves the waiting states.
LEMMA RowsMessages ==
  ASSUME IInv, UNCHANGED <<attempt, worker, inflight, posted, applied>>,
         \A k \in Keys :
           \/ row'[k].state = row[k].state /\ row'[k].token = row[k].token
           \/ /\ row[k].state \in Waiting \cup {"absent"}
              /\ row'[k].state \in {"pending", "cancelled"}
  PROVE  TasksOK' /\ WorkersOK'
<1>1. ASSUME NEW k \in Keys PROVE TaskOK(k)'
  <2>1. TaskOK(k)
    BY DEF IInv, TasksOK, TaskOK
  <2>2. CASE row'[k].state = row[k].state /\ row'[k].token = row[k].token
    BY <2>1, <2>2, SameTaskOK DEF SameTask
  <2>3. CASE /\ row[k].state \in Waiting \cup {"absent"}
             /\ row'[k].state \in {"pending", "cancelled"}
    BY <2>1, <2>3 DEF Waiting, TaskOK, SafeTask, PublicationTask, Sent, IsPublication
  <2> QED
    BY <2>2, <2>3
<1>2. ASSUME NEW w \in Workers, Holds(w) PROVE WorkerOK(w)'
  <2> DEFINE k == worker[w].key
  <2>1. k \in Keys /\ WorkerOK(w) /\ worker'[w] = worker[w]
    BY <1>2 DEF IInv, TokensIssued, Holds, WorkersOK
  <2>2. CASE row'[k].state = row[k].state /\ row'[k].token = row[k].token
    BY <2>1, <2>2, SameWorkerOK DEF SameTask
  <2>3. CASE /\ row[k].state \in Waiting \cup {"absent"}
             /\ row'[k].state \in {"pending", "cancelled"}
    <3>1. worker[w].phase = "executing"
      BY <1>2, <2>1, <2>3 DEF Waiting, Holds, Busy, WorkerOK, ReservedUnsent,
                              AwaitingReserved, SettledWritten, Reserved, RunsUnder
    <3>2. ~RunsUnder(w)'
      BY <2>1, <2>3 DEF RunsUnder
    <3> QED
      BY <2>1, <3>1, <3>2 DEF WorkerOK, ExecutingUnsent, ReservedUnsent, AwaitingReserved,
                              SettledWritten
  <2> QED
    BY <2>1, <2>2, <2>3
<1>3. ASSUME NEW w \in Workers, ~Holds(w) PROVE WorkerOK(w)'
  BY <1>3, IdleWorkerOK DEF Holds
<1> QED
  BY <1>1, <1>2, <1>3 DEF TasksOK, TaskOK, WorkersOK

\* A step that leaves attempts, workers and the channel alone.
LEMMA QuietMessages ==
  ASSUME IInv,
         \/ \E k \in Keys : Enqueue(k) \/ Cancel(k)
         \/ \E w \in Workers : Heartbeat(w)
         \/ Tick \/ UNCHANGED vars
  PROVE  TasksOK' /\ WorkersOK'
<1>1. UNCHANGED <<attempt, worker, inflight, posted, applied>>
  BY DEF Enqueue, Cancel, Heartbeat, Tick, vars
<1>2. \A k \in Keys : row[k] \in Row
  BY DEF IInv, TypeOK
<1>3. ASSUME NEW k \in Keys, Enqueue(k) \/ Cancel(k), NEW j \in Keys
      PROVE  \/ row'[j].state = row[j].state /\ row'[j].token = row[j].token
             \/ /\ row[j].state \in Waiting \cup {"absent"}
                /\ row'[j].state \in {"pending", "cancelled"}
  <2>1. CASE j = k
    <3>1. row[k] \in Row /\ row \in [Keys -> Row]
      BY <1>2 DEF IInv, TypeOK
    <3>2. Enqueue(k) => row[k].state = "absent" /\ row'[k].state = "pending"
      BY <3>1 DEF Enqueue, Row
    <3>3. Cancel(k) => row[k].state \in Waiting /\ row'[k].state = "cancelled"
      BY <3>1 DEF Cancel, Row
    <3> QED
      BY <1>3, <2>1, <3>2, <3>3
  <2>2. CASE j # k
    BY <1>3, <2>2 DEF Enqueue, Cancel, IInv, TypeOK
  <2> QED
    BY <2>1, <2>2
<1>4. ASSUME NEW w \in Workers, Heartbeat(w), NEW j \in Keys
      PROVE  row'[j].state = row[j].state /\ row'[j].token = row[j].token
  BY <1>2, <1>4 DEF Heartbeat, IInv, TypeOK, Row
<1>5. ASSUME Tick, NEW j \in Keys
      PROVE  row'[j].state = row[j].state /\ row'[j].token = row[j].token
  BY <1>2, <1>5 DEF Tick, AgedRows, Row
<1>6. ASSUME UNCHANGED vars, NEW j \in Keys
      PROVE  row'[j].state = row[j].state /\ row'[j].token = row[j].token
  BY <1>6 DEF vars
<1> QED
  BY <1>1, <1>3, <1>4, <1>5, <1>6, RowsMessages

\* MAX delivers, or an editor settles an open attempt.
LEMMA OutsideMessages ==
  ASSUME IInv, NEW k \in Keys, Accepted(k) \/ Reconcile(k)
  PROVE  TasksOK' /\ WorkersOK'
<1>1. /\ UNCHANGED <<row, worker, applied>>
      /\ \A j \in Keys \ {k} : SameTask(j)
      /\ applied'[k] = applied[k]
  BY DEF Accepted, Reconcile, SameTask, IInv, TypeOK
<1>2. TaskOK(k)
  BY DEF IInv, TasksOK, TaskOK
<1>3. attempt[k] \in Attempt /\ inflight[k] \in Nat /\ posted[k] \in Nat
  BY DEF IInv, TypeOK
<1>4. CASE Accepted(k)
  <2>1. /\ attempt' = attempt
        /\ inflight'[k] = inflight[k] - 1 /\ posted'[k] = posted[k] + 1 /\ inflight[k] > 0
    BY <1>4 DEF Accepted, IInv, TypeOK
  <2>2. Sent(k)' = Sent(k)
    BY <1>3, <2>1 DEF Sent
  <2>3. TaskOK(k)'
    BY <1>1, <1>2, <1>3, <2>1, <2>2 DEF TaskOK, SafeTask, PublicationTask, IsPublication
  <2>4. ASSUME NEW w \in Workers, Holds(w) PROVE WorkerOK(w)'
    <3>1. worker[w].key \in Keys /\ WorkerOK(w) /\ worker'[w] = worker[w]
      BY <1>1, <2>4 DEF IInv, TokensIssued, Holds, WorkersOK
    <3>2. Sent(worker[w].key)' = Sent(worker[w].key)
      BY <1>1, <2>2, <3>1 DEF SameTask, Sent
    <3> QED
      BY <1>1, <2>1, <3>1, <3>2
         DEF WorkerOK, ExecutingUnsent, ReservedUnsent, AwaitingReserved, SettledWritten,
             Reserved, RunsUnder, IsPublication
  <2>5. ASSUME NEW w \in Workers, ~Holds(w) PROVE WorkerOK(w)'
    BY <1>1, <2>5, IdleWorkerOK DEF Holds
  <2>6. \A j \in Keys : TaskOK(j)'
    BY <1>1, <2>3, SameTaskOK DEF IInv, TasksOK, TaskOK
  <2> QED
    BY <2>4, <2>5, <2>6 DEF TasksOK, TaskOK, WorkersOK
<1>5. CASE Reconcile(k)
  <2>1. /\ attempt[k].status = "unknown"
        /\ attempt'[k].status = "confirmed" /\ attempt'[k].by = attempt[k].by
        /\ UNCHANGED <<inflight, posted>>
    BY <1>3, <1>5 DEF Reconcile, Attempt, IInv, TypeOK
  <2>2. TaskOK(k)'
    BY <1>1, <1>2, <1>3, <2>1 DEF TaskOK, SafeTask, PublicationTask, Sent, IsPublication
  <2>3. ASSUME NEW w \in Workers, Holds(w) PROVE WorkerOK(w)'
    <3>1. worker[w].key \in Keys /\ WorkerOK(w) /\ worker'[w] = worker[w]
      BY <1>1, <2>3 DEF IInv, TokensIssued, Holds, WorkersOK
    <3>2. CASE worker[w].key = k
      BY <1>1, <2>1, <3>1, <3>2
         DEF WorkerOK, ExecutingUnsent, ReservedUnsent, AwaitingReserved, SettledWritten,
             Reserved, RunsUnder, Sent, IsPublication
    <3>3. CASE worker[w].key # k
      BY <1>1, <3>1, <3>3, SameWorkerOK
    <3> QED
      BY <3>2, <3>3
  <2>4. ASSUME NEW w \in Workers, ~Holds(w) PROVE WorkerOK(w)'
    BY <1>1, <2>4, IdleWorkerOK DEF Holds
  <2>5. \A j \in Keys : TaskOK(j)'
    BY <1>1, <2>2, SameTaskOK DEF IInv, TasksOK, TaskOK
  <2> QED
    BY <2>3, <2>4, <2>5 DEF TasksOK, TaskOK, WorkersOK
<1> QED
  BY <1>4, <1>5
\* A worker's own step: who and what it leaves alone.
Alone(w, k) ==
  /\ worker[w].key = k /\ Holds(w)
  /\ \A j \in Keys \ {k} : SameTask(j)
  /\ \A v \in Workers \ {w} : worker'[v] = worker[v]

\* An owner ends the execution of its task.
LEMMA EndMessages ==
  ASSUME IInv, NEW w \in Workers, Owned(w), NEW k \in Keys, Alone(w, k), ~Holds(w)',
         row'[k].state # "running", TaskOK(k)'
  PROVE  TasksOK' /\ WorkersOK'
BY IdleWorkerOK, OwnerStep DEF Alone, Owned, RunsUnder, IInv

\* A worker past its reservation goes on.
LEMMA GoOnMessages ==
  ASSUME IInv, NEW w \in Workers, worker[w].phase # "executing", NEW k \in Keys, Alone(w, k),
         row' = row, TaskOK(k)', WorkerOK(w)'
  PROVE  TasksOK' /\ WorkersOK'
BY OwnerStep DEF Alone, IInv

\* A handler that returns ends a safe task with its result, or nothing.
LEMMA FinishSucceededMessages ==
  ASSUME IInv, NEW w \in Workers, FinishSucceeded(w)
  PROVE  TasksOK' /\ WorkersOK'
<1>1. CASE ~Owned(w)
  BY <1>1, LeaverStep DEF FinishSucceeded, Finish, IInv
<1>2. CASE Owned(w)
  <2>1. PICK k \in Keys : worker[w].key = k
    BY DEF FinishSucceeded, IInv, TokensIssued, Busy
  <2>2. /\ Alone(w, k) /\ ~Holds(w)'
    BY <2>1 DEF FinishSucceeded, Finish, Alone, SameTask, Holds, Busy, Idle, IInv, TypeOK
  <2>3. row'[k] = Unleased(row[k], "succeeded") /\ row[k] \in Row
    BY <1>2, <2>1 DEF FinishSucceeded, Finish, IInv, TypeOK
  <2>4. row'[k].state = "succeeded" /\ row[k].state = "running" /\ RunsUnder(w)
    BY <1>2, <2>1, <2>3 DEF Unleased, Row, Owned, RunsUnder
  <2>5. TaskOK(k)'
    <3>1. TaskOK(k) /\ UNCHANGED <<attempt, inflight, posted>>
      BY DEF IInv, TasksOK, TaskOK, FinishSucceeded
    <3>2. applied'[k] = IF IsPublication(k) THEN applied[k] ELSE applied[k] + 1
      BY <1>2, <2>1 DEF FinishSucceeded, IInv, TypeOK
    <3>3. IsPublication(k) => attempt[k].status \in {"none", "failed"}
      BY <2>1, <2>4 DEF FinishSucceeded, IInv, WorkersOK, WorkerOK, ExecutingUnsent
    <3> QED
      BY <2>4, <3>1, <3>2, <3>3 DEF TaskOK, SafeTask, PublicationTask, Sent, IsPublication
  <2> QED
    BY <1>2, <2>2, <2>4, <2>5, EndMessages
<1> QED
  BY <1>1, <1>2

\* The confirmed answer ends task and attempt together, or neither.
LEMMA ConfirmMessages ==
  ASSUME IInv, NEW w \in Workers, Confirm(w)
  PROVE  TasksOK' /\ WorkersOK'
<1>1. CASE ~Owned(w)
  BY <1>1, LeaverStep DEF Confirm, Finish, IInv
<1>2. CASE Owned(w)
  <2>1. PICK k \in Keys : worker[w].key = k
    BY DEF Confirm, IInv, TokensIssued, Busy
  <2>2. Reserved(w) /\ row[k].state = "running" /\ RunsUnder(w)
    BY <1>2, <2>1 DEF Confirm, IInv, WorkersOK, WorkerOK, AwaitingReserved, Owned, RunsUnder
  <2>3. attempt' = OwnAttempt(w, "confirmed")
    BY <1>2 DEF Confirm
  <2>4. Alone(w, k) /\ ~Holds(w)'
    BY <2>1, <2>3 DEF Confirm, Finish, OwnAttempt, Alone, SameTask, Holds, Busy, Idle,
                      IInv, TypeOK
  <2>5. row'[k] = Unleased(row[k], "succeeded") /\ row[k] \in Row /\ attempt[k] \in Attempt
    BY <1>2, <2>1 DEF Confirm, Finish, IInv, TypeOK
  <2>6. row'[k].state = "succeeded"
    BY <2>5 DEF Unleased, Row
  <2>7. attempt'[k].status = "confirmed"
    BY <2>1, <2>2, <2>3, <2>5 DEF OwnAttempt, Reserved, Attempt
  <2>8. TaskOK(k)'
    <3>1. TaskOK(k) /\ UNCHANGED <<inflight, posted, applied>> /\ IsPublication(k)
      BY <2>1, <2>2 DEF IInv, TasksOK, TaskOK, Confirm, Reserved
    <3> QED
      BY <2>6, <2>7, <3>1 DEF TaskOK, SafeTask, PublicationTask, Sent, IsPublication
  <2> QED
    BY <1>2, <2>4, <2>6, <2>8, EndMessages
<1> QED
  BY <1>1, <1>2

\* An error starts a retry or reports a failure only if nothing was sent.
LEMMA FinishErrorMessages ==
  ASSUME IInv, NEW w \in Workers, FinishError(w)
  PROVE  TasksOK' /\ WorkersOK'
<1>1. CASE ~Owned(w)
  BY <1>1, LeaverStep DEF FinishError, Finish, IInv
<1>2. CASE Owned(w)
  <2>1. PICK k \in Keys : worker[w].key = k
    BY DEF FinishError, Raised, IInv, TokensIssued, Busy
  <2>2. PICK verdict \in Raised(w), delay \in 1..Backoff :
          LET s == ErrorState(k, verdict)
          IN  /\ Finish(w, [Unleased(row[k], s) EXCEPT
                              !.wait = IF s = "retry_wait" THEN delay ELSE 0])
              /\ attempt' = IF Owned(w) /\ IsPublication(k) /\ s = "needs_review"
                              THEN [attempt EXCEPT ![k] = MarkUnknown(@)] ELSE attempt
    BY <2>1 DEF FinishError
  <2> DEFINE s == ErrorState(k, verdict)
  <2>3. row[k] \in Row /\ attempt[k] \in Attempt /\ TaskOK(k) /\ WorkerOK(w)
    BY DEF IInv, TypeOK, TasksOK, TaskOK, WorkersOK
  <2>4. /\ Holds(w) /\ row[k].state = "running" /\ RunsUnder(w)
        /\ UNCHANGED <<inflight, posted, applied>>
    BY <1>2, <2>1 DEF FinishError, Raised, Holds, Busy, Owned, RunsUnder
  <2>5. /\ s \in {"needs_review", "retry_wait", "failed"}
        /\ s = "needs_review" <=> verdict = "review"
    BY DEF ErrorState
  <2>6. row'[k].state = s
    <3>1. row'[k] = [Unleased(row[k], s) EXCEPT !.wait = IF s = "retry_wait" THEN delay ELSE 0]
      BY <1>2, <2>1, <2>2 DEF Finish, IInv, TypeOK
    <3> QED
      BY <2>3, <3>1 DEF Unleased, Row
  <2>7. Alone(w, k) /\ ~Holds(w)'
    BY <2>1, <2>2, <2>4 DEF Finish, Alone, SameTask, Holds, Busy, Idle, IInv, TypeOK
  <2>8. TaskOK(k)'
    <3>1. CASE ~IsPublication(k)
      <4>1. attempt'[k] = attempt[k]
        BY <2>2, <3>1
      <4> QED
        BY <2>3, <2>4, <2>5, <2>6, <3>1, <4>1
           DEF TaskOK, SafeTask, PublicationTask, IsPublication
    <3>2. CASE IsPublication(k) /\ s = "needs_review"
      <4>1. attempt'[k] = MarkUnknown(attempt[k])
        BY <1>2, <2>2, <3>2 DEF IInv, TypeOK
      <4>2. attempt'[k].status = IF attempt[k].status = "sending" THEN "unknown"
                                 ELSE attempt[k].status
        BY <2>3, <4>1 DEF MarkUnknown, Attempt
      <4> QED
        BY <2>3, <2>4, <2>6, <3>2, <4>2
           DEF TaskOK, SafeTask, PublicationTask, Sent, IsPublication
    <3>3. CASE IsPublication(k) /\ s # "needs_review"
      <4>1. attempt'[k] = attempt[k]
        BY <2>2, <3>3
      <4>2. worker[w].phase \notin {"reserved", "awaiting"}
        BY <2>2, <2>5, <3>3 DEF Raised
      <4>3. attempt[k].status \in {"none", "failed"}
        BY <2>1, <2>2, <2>3, <2>4, <2>5, <3>3, <4>2
           DEF Raised, Holds, Busy, WorkerOK, ExecutingUnsent, SettledWritten
      <4> QED
        BY <2>3, <2>4, <2>5, <2>6, <3>3, <4>1, <4>3
           DEF TaskOK, SafeTask, PublicationTask, Sent, IsPublication
    <3> QED
      BY <3>1, <3>2, <3>3
  <2> QED
    BY <1>2, <2>5, <2>6, <2>7, <2>8, EndMessages
<1> QED
  BY <1>1, <1>2

\* The reservation makes its worker the creator of the latest attempt.
LEMMA ReserveMessages ==
  ASSUME IInv, NEW w \in Workers, Reserve(w)
  PROVE  TasksOK' /\ WorkersOK'
<1>1. CASE ~Owned(w)
  BY <1>1, LeaverStep DEF Reserve, IInv
<1>2. CASE Owned(w)
  <2>1. PICK k \in Keys : worker[w].key = k
    BY DEF Reserve, IInv, TokensIssued, Busy
  <2>2. /\ IsPublication(k) /\ RunsUnder(w) /\ row[k].state = "running"
        /\ UNCHANGED <<row, inflight, posted, applied>>
    BY <1>2, <2>1 DEF Reserve, Owned, RunsUnder
  <2>3. attempt[k].status \in {"none", "failed"} /\ TaskOK(k)
    BY <2>1, <2>2 DEF Reserve, IInv, WorkersOK, WorkerOK, ExecutingUnsent, TasksOK, TaskOK
  <2>4. /\ attempt'[k].status = "sending" /\ attempt'[k].by = worker[w].token
        /\ \A j \in Keys \ {k} : attempt'[j] = attempt[j]
    BY <1>2, <2>1 DEF Reserve, IInv, TypeOK
  <2>5. worker'[w].phase = "reserved" /\ KeepsTask(w)
    <3>1. worker[w] \in WorkerState /\ worker' = [worker EXCEPT ![w].phase = "reserved"]
      BY <1>2 DEF Reserve, IInv, TypeOK
    <3> QED
      BY <3>1 DEF WorkerState, KeepsTask, IInv, TypeOK
  <2>6. Alone(w, k)
    BY <1>2, <2>1, <2>2, <2>4 DEF Reserve, Alone, SameTask, Holds, Busy, IInv, TypeOK
  <2>7. TaskOK(k)'
    BY <2>2, <2>3, <2>4 DEF TaskOK, SafeTask, PublicationTask, Sent, IsPublication
  <2>8. WorkerOK(w)'
    <3>1. Sent(k)' = 0
      BY <2>2, <2>3 DEF TaskOK, PublicationTask, Sent
    <3>2. Reserved(w)'
      BY <2>1, <2>2, <2>4, <2>5 DEF Reserved, RunsUnder, KeepsTask, IsPublication
    <3> QED
      BY <2>1, <2>5, <3>1, <3>2 DEF KeepsTask, WorkerOK, ExecutingUnsent, ReservedUnsent,
                                    AwaitingReserved, SettledWritten, Sent
  <2>9. RunsUnder(w) /\ row' = row
    BY <2>2
  <2> QED
    BY <2>1, <2>6, <2>7, <2>8, <2>9, OwnerStep DEF Alone, IInv
<1> QED
  BY <1>1, <1>2

\* The worker that reserved sends the one message of its attempt.
LEMMA SendMessages ==
  ASSUME IInv, NEW w \in Workers, Send(w) \/ NotReady(w)
  PROVE  TasksOK' /\ WorkersOK'
<1>1. PICK k \in Keys : worker[w].key = k
  BY DEF Send, NotReady, IInv, TokensIssued, Busy
<1>2. /\ UNCHANGED <<row, attempt, posted, applied>>
      /\ \A j \in Keys \ {k} : inflight'[j] = inflight[j]
      /\ worker[w].phase \in {"reserved", "awaiting"}
  BY <1>1 DEF Send, NotReady, IInv, TypeOK
<1>3. KeepsTask(w) /\ worker'[w].phase = IF Send(w) THEN "awaiting" ELSE "reserved"
  <2>1. worker[w] \in WorkerState
    BY DEF IInv, TypeOK
  <2>2. Send(w) => ~NotReady(w)
    BY DEF Send, NotReady
  <2> QED
    BY <2>1, <2>2 DEF Send, NotReady, KeepsTask, WorkerState, IInv, TypeOK
<1>4. Alone(w, k)
  BY <1>1, <1>2 DEF Send, NotReady, Alone, SameTask, Holds, Busy, IInv, TypeOK
<1>5. Reserved(w) /\ TaskOK(k)
  BY <1>2 DEF IInv, WorkersOK, WorkerOK, ReservedUnsent, AwaitingReserved, TasksOK, TaskOK
<1>6. Reserved(w)'
  BY <1>1, <1>2, <1>3, <1>5 DEF Reserved, RunsUnder, KeepsTask, IsPublication
<1>7. inflight[k] \in Nat /\ posted[k] \in Nat
  BY DEF IInv, TypeOK
<1>8. IF Send(w) THEN Sent(k)' = 1 ELSE Sent(k)' = 0
  <2>1. CASE Send(w)
    <3>1. Sent(k) = 0 /\ inflight'[k] = inflight[k] + 1
      BY <1>1, <2>1 DEF Send, IInv, TypeOK, WorkersOK, WorkerOK, ReservedUnsent
    <3> QED
      BY <1>2, <1>7, <2>1, <3>1 DEF Sent
  <2>2. CASE ~Send(w)
    <3>1. inflight[k] > 0 /\ inflight'[k] = inflight[k] - 1
      BY <1>1, <2>2 DEF NotReady, IInv, TypeOK
    <3>2. Sent(k) <= 1
      BY <1>1, <1>5 DEF Reserved, TaskOK, PublicationTask
    <3> QED
      BY <1>2, <1>7, <2>2, <3>1, <3>2 DEF Sent
  <2> QED
    BY <2>1, <2>2
<1>9. TaskOK(k)'
  <2>1. IsPublication(k) /\ attempt[k].status \notin {"none", "failed"}
    BY <1>1, <1>5 DEF Reserved
  <2>2. Sent(k)' <= 1
    BY <1>8
  <2> QED
    BY <1>2, <1>5, <2>1, <2>2 DEF TaskOK, SafeTask, PublicationTask, IsPublication
<1>10. WorkerOK(w)'
  <2>1. worker'[w].phase = "reserved" => Sent(k)' = 0
    BY <1>3, <1>8
  <2> QED
    BY <1>1, <1>3, <1>6, <2>1 DEF KeepsTask, WorkerOK, ExecutingUnsent, ReservedUnsent,
                                  AwaitingReserved, SettledWritten, Sent
<1> QED
  BY <1>2, <1>4, <1>9, <1>10, GoOnMessages

\* A failure committed without a look at the lease is still its own attempt's.
LEMMA SettleMessages ==
  ASSUME IInv, NEW w \in Workers, UploadFails(w) \/ Rejected(w) \/ Uncertain(w)
  PROVE  TasksOK' /\ WorkersOK'
<1>1. PICK k \in Keys : worker[w].key = k
  BY DEF UploadFails, Rejected, Uncertain, IInv, TokensIssued, Busy
<1>2. PICK status \in {"failed", "unknown"}, verdict \in Verdicts :
        /\ Settle(w, status, verdict)
        /\ status = "unknown" <=> verdict = "review"
        /\ status = "unknown" <=> Uncertain(w)
  <2>1. CASE Uncertain(w)
    BY <2>1 DEF Uncertain, Verdicts
  <2>2. CASE ~Uncertain(w)
    BY <2>2 DEF UploadFails, Rejected, Verdicts
  <2> QED
    BY <2>1, <2>2
<1>3. /\ UNCHANGED <<row, posted, applied>>
      /\ \A j \in Keys \ {k} : inflight'[j] = inflight[j]
      /\ worker[w].phase \in {"reserved", "awaiting"}
  BY <1>1 DEF UploadFails, Rejected, Uncertain, IInv, TypeOK
<1>4. Reserved(w) /\ TaskOK(k)
  BY <1>3 DEF IInv, WorkersOK, WorkerOK, ReservedUnsent, AwaitingReserved, TasksOK, TaskOK
<1>5. /\ attempt'[k].status = status /\ attempt'[k].by = worker[w].token
      /\ \A j \in Keys \ {k} : attempt'[j] = attempt[j]
  <2>1. attempt[k] \in Attempt /\ attempt[k].by = worker[w].token
    BY <1>1, <1>4 DEF Reserved, IInv, TypeOK
  <2> QED
    BY <1>1, <1>2, <2>1 DEF Settle, OwnAttempt, Attempt
<1>6. KeepsTask(w) /\ worker'[w].phase = "settled" /\ worker'[w].verdict = verdict
  <2>1. worker[w] \in WorkerState
    BY DEF IInv, TypeOK
  <2> QED
    BY <1>2, <2>1 DEF Settle, KeepsTask, WorkerState, IInv, TypeOK
<1>7. Alone(w, k)
  BY <1>1, <1>2, <1>3, <1>5 DEF Settle, Alone, SameTask, Holds, Busy, IInv, TypeOK
<1>8. inflight[k] \in Nat /\ posted[k] \in Nat
  BY DEF IInv, TypeOK
<1>9. Sent(k)' <= 1 /\ (status = "failed" => Sent(k)' = 0)
  <2>1. Sent(k) <= 1
    BY <1>1, <1>4 DEF Reserved, TaskOK, PublicationTask
  <2>2. CASE UploadFails(w)
    <3>1. Sent(k) = 0 /\ inflight' = inflight
      BY <1>1, <2>2 DEF UploadFails, IInv, WorkersOK, WorkerOK, ReservedUnsent
    <3> QED
      BY <1>3, <3>1 DEF Sent
  <2>3. CASE Rejected(w)
    <3>1. inflight[k] > 0 /\ inflight'[k] = inflight[k] - 1
      BY <1>1, <2>3 DEF Rejected, IInv, TypeOK
    <3> QED
      BY <1>3, <1>8, <2>1, <3>1 DEF Sent
  <2>4. CASE Uncertain(w)
    <3>1. inflight' = inflight /\ status # "failed"
      BY <1>2, <2>4 DEF Uncertain
    <3> QED
      BY <1>3, <2>1, <3>1 DEF Sent
  <2> QED
    BY <2>2, <2>3, <2>4
<1>10. TaskOK(k)'
  <2>1. /\ IsPublication(k) /\ row[k].state \in {"running", "needs_review"}
        /\ row'[k] = row[k] /\ applied'[k] = applied[k]
    BY <1>1, <1>3, <1>4 DEF Reserved, RunsUnder
  <2>2. status # "none"
    BY <1>2
  <2> QED
    BY <1>4, <1>5, <1>9, <2>1, <2>2 DEF TaskOK, SafeTask, PublicationTask, IsPublication
<1>11. WorkerOK(w)'
  <2>1. SettledWritten(w)'
    BY <1>1, <1>2, <1>3, <1>4, <1>5, <1>6
       DEF SettledWritten, KeepsTask, Reserved, RunsUnder, IsPublication, Verdicts
  <2> QED
    BY <1>6, <2>1 DEF WorkerOK, ExecutingUnsent, ReservedUnsent, AwaitingReserved
<1> QED
  BY <1>3, <1>7, <1>10, <1>11, GoOnMessages

\* Every step keeps TasksOK and WorkersOK.
LEMMA MessagesStep ==
  ASSUME IInv, [Next]_vars
  PROVE  TasksOK' /\ WorkersOK'
<1>1. ASSUME NEW w \in Workers, Abandon(w) PROVE TasksOK' /\ WorkersOK'
  BY <1>1, LeaverStep DEF Abandon, IInv
<1> QED
  BY <1>1, RecoverOnlyMessages, RunOnceMessages, QuietMessages, OutsideMessages,
     FinishSucceededMessages, FinishErrorMessages, ConfirmMessages, ReserveMessages,
     SendMessages, SettleMessages DEF Next, WorkerStep

-----------------------------------------------------------------------------
\* Before anything is enqueued the invariant holds.
LEMMA InitInv == Init => IInv
<1> SUFFICES ASSUME Init PROVE IInv
  OBVIOUS
<1>1. RowShape /\ RetryBudget /\ ActiveSubjectUnique
  BY ConstantsAssumption DEF Init, RowShape, RetryBudget, ActiveSubjectUnique, Active, Waiting
<1>2. TokensIssued /\ TokensDiffer /\ WorkersOK
  BY DEF Init, Idle, Busy, TokensIssued, TokensDiffer, WorkersOK, WorkerOK, ExecutingUnsent,
         ReservedUnsent, AwaitingReserved, SettledWritten
<1>3. TasksOK
  BY DEF Init, TasksOK, SafeTask, PublicationTask, Sent
<1> QED
  BY <1>1, <1>2, <1>3, InitType DEF IInv

\* Every state of every execution satisfies the inductive invariant.
THEOREM Invariance == Spec => []IInv
<1>1. Init => IInv
  BY InitInv
<1>2. IInv /\ [Next]_vars => IInv'
  BY TypeStep, RowShapeStep, RetryBudgetStep, ActiveSubjectStep, TokensStep, MessagesStep
     DEF IInv
<1> QED
  BY <1>1, <1>2, PTL DEF Spec

\* The tables, the workers' memory and the counters keep their types.
THEOREM TypeCorrect == Spec => []TypeOK
BY Invariance, PTL DEF IInv

\* However failures, crashes and recoveries mix, a task is executed at most as
\* often as its queue's policy allows.
THEOREM RetriesBounded == Spec => []RetryBudget
BY Invariance, PTL DEF IInv

\* enqueue's check keeps a subject in one active task of a queue for ever.
THEOREM OneActivePerSubject == Spec => []ActiveSubjectUnique
BY Invariance, PTL DEF IInv

\* A task has at most one external effect: one message or one recorded result.
THEOREM EffectOnce == Spec => []AtMostOneEffect
<1>1. IInv => AtMostOneEffect
  <2> SUFFICES ASSUME IInv, NEW k \in Keys PROVE inflight[k] + posted[k] + applied[k] <= 1
    BY DEF AtMostOneEffect
  <2>1. inflight[k] \in Nat /\ posted[k] \in Nat /\ applied[k] \in Nat
    BY DEF IInv, TypeOK
  <2> QED
    BY <2>1 DEF IInv, TasksOK, SafeTask, PublicationTask, Sent
<1> QED
  BY <1>1, Invariance, PTL

\* A message that is or may still get in the channel is not reported as a failure.
THEOREM NeverFalselyFailed == Spec => []NoFalseFailure
<1>1. IInv => NoFalseFailure
  <2> SUFFICES ASSUME IInv, NEW k \in Keys, inflight[k] + posted[k] > 0
               PROVE  row[k].state \in {"running", "succeeded", "needs_review"}
    BY DEF NoFalseFailure
  <2>1. inflight[k] \in Nat /\ posted[k] \in Nat
    BY DEF IInv, TypeOK
  <2> QED
    BY <2>1 DEF IInv, TasksOK, SafeTask, PublicationTask, Sent
<1> QED
  BY <1>1, Invariance, PTL

\* `succeeded` has a recorded result or no attempt whose outcome is open.
THEOREM SuccessBacked == Spec => []SuccessIsBacked
<1>1. IInv => SuccessIsBacked
  BY DEF IInv, TasksOK, SafeTask, PublicationTask, SuccessIsBacked
<1> QED
  BY <1>1, Invariance, PTL
-----------------------------------------------------------------------------
(* What a step may never do.                                               *)

\* No step changes a row that has ended.
LEMMA TerminalStep ==
  ASSUME IInv, [Next]_vars, NEW k \in Keys, row[k].state \in Terminal
  PROVE  row'[k] = row[k]
<1>1. row[k] \in Row /\ row'[k] \in Row
  BY TypeStep DEF IInv, TypeOK
<1>2. row[k].lease = 0 /\ row[k].wait = 0
  BY DEF IInv, RowShape, Terminal
<1>3. ASSUME NEW j \in Keys, Enqueue(j) PROVE row'[k] = row[k]
  BY <1>3 DEF Enqueue, Terminal, IInv, TypeOK
<1>4. ASSUME RowMove(k) PROVE row'[k] = row[k]
  <2>1. /\ row'[k].state = row[k].state /\ row'[k].attempts = row[k].attempts
        /\ row'[k].token = row[k].token /\ row'[k].lease = 0 /\ row'[k].wait = 0
    BY <1>2, <1>4 DEF RowMove, Less, Terminal, Waiting, Claimable
  <2> QED
    BY <1>1, <1>2, <2>1 DEF Row
<1> QED
  BY <1>3, <1>4, RowStep DEF IInv

\* A live lease ends only by a step of its holder.
LEMMA FenceStep ==
  ASSUME IInv, [Next]_vars, NEW k \in Keys,
         row[k].state = "running", row[k].lease > 0, row'[k].state # "running"
  PROVE  \E w \in Workers : /\ worker[w].key = k
                            /\ worker[w].token = row[k].token
                            /\ worker'[w] = Idle
<1> DEFINE Goal == \E w \in Workers : /\ worker[w].key = k
                                      /\ worker[w].token = row[k].token
                                      /\ worker'[w] = Idle
<1>1. ASSUME NEW w \in Workers, NEW finished, Finish(w, finished) PROVE Goal
  <2>1. row' # row
    OBVIOUS
  <2>2. Owned(w) /\ row' = [row EXCEPT ![worker[w].key] = finished]
    BY <1>1, <2>1 DEF Finish
  <2>3. worker[w].key = k
    BY <2>2 DEF IInv, TypeOK
  <2>4. worker'[w] = Idle
    BY <1>1 DEF Finish, IInv, TypeOK
  <2> QED
    BY <2>2, <2>3, <2>4 DEF Owned
<1>2. k \notin Expired
  BY DEF Expired
<1>3. ASSUME NEW w \in Workers, NEW j \in Keys, RunOnce(w, j) PROVE FALSE
  <2>1. j # k
    BY <1>3 DEF RunOnce, Claimable, Waiting
  <2>2. row'[k] = row[k]
    BY <1>2, <1>3, <2>1 DEF RunOnce, RecoverRows
  <2> QED
    BY <2>2
<1>4. ASSUME RecoverOnly PROVE FALSE
  <2>1. row'[k] = row[k]
    BY <1>2, <1>4 DEF RecoverOnly, RecoverRows
  <2> QED
    BY <2>1
<1>5. ASSUME NEW j \in Keys, Enqueue(j) \/ Cancel(j) PROVE FALSE
  <2>1. row'[k] = row[k]
    BY <1>5 DEF Enqueue, Cancel, Waiting, IInv, TypeOK
  <2> QED
    BY <2>1
<1>6. ASSUME NEW w \in Workers, Heartbeat(w) PROVE FALSE
  <2>1. row[k] \in Row
    BY DEF IInv, TypeOK
  <2>2. row'[k].state = row[k].state
    BY <1>6, <2>1 DEF Heartbeat, Row, IInv, TypeOK
  <2> QED
    BY <2>2
<1>7. ASSUME Tick PROVE FALSE
  <2>1. row[k] \in Row
    BY DEF IInv, TypeOK
  <2>2. row'[k].state = row[k].state
    BY <1>7, <2>1 DEF Tick, AgedRows, Row
  <2> QED
    BY <2>2
<1>8. row' # row
  OBVIOUS
<1>9. ASSUME NEW w \in Workers, WorkerStep(w) PROVE Goal
  <2>1. ASSUME FinishSucceeded(w) \/ FinishError(w) \/ Confirm(w)
        PROVE  \E finished : Finish(w, finished)
    BY <2>1 DEF FinishSucceeded, FinishError, Confirm
  <2> QED
    BY <1>1, <1>3, <1>6, <1>8, <1>9, <2>1
       DEF WorkerStep, Abandon, Reserve, Send, UploadFails, NotReady, Rejected, Uncertain
<1> QED
  BY <1>4, <1>5, <1>7, <1>8, <1>9 DEF Next, Accepted, Reconcile, vars

\* While a lease lasts only its holder ends the execution, and a terminal row is
\* never touched again.
THEOREM OwnershipIsFenced == Spec => OwnershipFenced
<1> DEFINE A == \A k \in Keys :
     /\ row[k].state = "running" /\ row[k].lease > 0 /\ row'[k].state # "running"
          => \E w \in Workers : /\ worker[w].key = k
                                /\ worker[w].token = row[k].token
                                /\ worker'[w] = Idle
     /\ row[k].state \in Terminal => row'[k] = row[k]
<1>1. IInv /\ [Next]_vars => [A]_vars
  BY TerminalStep, FenceStep
<1>2. OwnershipFenced <=> [][A]_vars
  BY DEF OwnershipFenced
<1> HIDE DEF A
<1> QED
  BY <1>1, <1>2, Invariance, PTL DEF Spec
-----------------------------------------------------------------------------
(* The task table implements the life cycle: each step moves each task     *)
(* along the life cycle or leaves it where it is.                          *)

Effect(k) == posted[k] + applied[k]

\* A recorded result or a posted message is a task's only effect.
LEMMA EffectFacts ==
  ASSUME IInv, NEW k \in Keys
  PROVE  /\ Effect(k) \in Nat /\ Effect(k) + inflight[k] <= 1
         /\ row[k].state \notin {"running", "succeeded", "needs_review"} => Effect(k) = 0
         /\ inflight[k] > 0 => row[k].state \in {"running", "succeeded", "needs_review"}
<1>1. inflight[k] \in Nat /\ posted[k] \in Nat /\ applied[k] \in Nat
  BY DEF IInv, TypeOK
<1>2. SafeTask(k) /\ PublicationTask(k)
  BY DEF IInv, TasksOK
<1>3. CASE IsPublication(k)
  <2>1. /\ applied[k] = 0 /\ inflight[k] + posted[k] <= 1
        /\ row[k].state \notin {"running", "succeeded", "needs_review"}
             => inflight[k] + posted[k] = 0
    BY <1>2, <1>3 DEF PublicationTask, Sent
  <2> QED
    BY <1>1, <2>1 DEF Effect
<1>4. CASE ~IsPublication(k)
  <2>1. /\ inflight[k] = 0 /\ posted[k] = 0 /\ applied[k] \in {0, 1}
        /\ applied[k] = 1 <=> row[k].state = "succeeded"
    BY <1>2, <1>4 DEF SafeTask
  <2> QED
    BY <2>1 DEF Effect
<1> QED
  BY <1>3, <1>4

\* A row that moves while no effect takes place.
LEMMA MoveImplements ==
  ASSUME IInv, IInv', NEW k \in Keys, RowMove(k), Effect(k)' = Effect(k)
  PROVE  Lifecycle!TaskStep(k)
<1> DEFINE r == row[k]
           s == row'[k]
           Budget == MaxAttempts[QueueOf[k]]
<1>1. /\ r \in Row /\ s \in Row /\ r.attempts \in Nat /\ Budget \in Nat
      /\ Effect(k) \in Nat
      /\ s.state \in {"failed", "cancelled", "retry_wait"} => Effect(k) = 0
  <2>1. s.state \notin {"running", "succeeded", "needs_review"} => Effect(k)' = 0
    BY EffectFacts DEF IInv, TasksOK, SafeTask, PublicationTask, Sent, Effect, IsPublication,
                       TypeOK
  <2> QED
    BY <2>1, EffectFacts, ConstantsAssumption DEF IInv, TypeOK, Row
<1>2. r.state \in {"pending", "retry_wait"} => r.attempts < Budget
  BY <1>1, ConstantsAssumption DEF IInv, RetryBudget
<1>3. CASE s.state = r.state /\ s.attempts = r.attempts
  BY <1>3 DEF Lifecycle!TaskStep, Lifecycle!Stay, Lifecycle!Keep, Effect
<1>4. CASE r.state \in Waiting /\ s = [r EXCEPT !.state = "cancelled", !.wait = 0]
  <2>1. s.state = "cancelled" /\ s.attempts = r.attempts
    BY <1>1, <1>4 DEF Row
  <2> QED
    BY <1>1, <1>4, <2>1
       DEF Waiting, Effect, Lifecycle!TaskStep, Lifecycle!GiveUp, Lifecycle!Keep
<1>5. CASE Claimable(k) /\ s = Claimed(k)
  <2>1. s.state = "running" /\ s.attempts = r.attempts + 1
    BY <1>1, <1>5 DEF Claimed, Row
  <2> QED
    BY <1>2, <1>5, <2>1
       DEF Claimable, Waiting, Effect, Lifecycle!TaskStep, Lifecycle!Begin
<1>6. CASE /\ r.state = "running" /\ s.attempts = r.attempts
           /\ s.state \in {"retry_wait", "succeeded", "failed", "needs_review"}
           /\ s.state = "retry_wait" => ~Exhausted(k)
  <2>1. s.state = "retry_wait" => r.attempts < Budget
    BY <1>1, <1>6 DEF Exhausted
  <2> QED
    BY <1>1, <1>6, <2>1
       DEF Effect, Lifecycle!TaskStep, Lifecycle!Retry, Lifecycle!GiveUp,
           Lifecycle!Review, Lifecycle!Succeed, Lifecycle!Keep
<1> QED
  BY <1>3, <1>4, <1>5, <1>6 DEF RowMove

\* Each step of the task store is a life cycle step of every task.
LEMMA LifecycleStep ==
  ASSUME IInv, IInv', [Next]_vars, NEW t \in Keys
  PROVE  Lifecycle!TaskStep(t)
<1>1. ASSUME NEW k \in Keys, Enqueue(k) PROVE Lifecycle!TaskStep(t)
  <2>1. posted' = posted /\ applied' = applied
    BY <1>1 DEF Enqueue
  <2>2. CASE t = k
    <3>1. row[t] \in Row /\ row[t].state = "absent"
      BY <1>1, <2>2 DEF Enqueue, IInv, TypeOK
    <3>2. row'[t] = [row[t] EXCEPT !.state = "pending"]
      BY <1>1, <2>2 DEF Enqueue, IInv, TypeOK
    <3>3. row'[t].state = "pending" /\ row'[t].attempts = row[t].attempts
      BY <3>1, <3>2 DEF Row
    <3> QED
      BY <2>1, <3>1, <3>3 DEF Lifecycle!TaskStep, Lifecycle!Accept, Lifecycle!Keep
  <2>3. CASE t # k
    <3>1. row'[t] = row[t]
      BY <1>1, <2>3 DEF Enqueue, IInv, TypeOK
    <3> QED
      BY <2>1, <3>1 DEF Lifecycle!TaskStep, Lifecycle!Stay, Lifecycle!Keep
  <2> QED
    BY <2>2, <2>3
<1>2. ASSUME NEW k \in Keys, Accepted(k) PROVE Lifecycle!TaskStep(t)
  <2>1. /\ row' = row /\ applied' = applied /\ inflight[k] > 0
        /\ posted' = [posted EXCEPT ![k] = @ + 1]
    BY <1>2 DEF Accepted
  <2>2. CASE t = k
    <3>1. /\ Effect(t) = 0
          /\ row[t].state \in {"running", "succeeded", "needs_review"}
      <4>1. inflight[t] \in Nat
        BY DEF IInv, TypeOK
      <4> QED
        BY <2>1, <2>2, <4>1, EffectFacts
    <3>2. posted[t] \in Nat /\ applied[t] \in Nat /\ posted'[t] = posted[t] + 1
      BY <2>1, <2>2 DEF IInv, TypeOK
    <3> QED
      BY <2>1, <3>1, <3>2 DEF Effect, Lifecycle!TaskStep, Lifecycle!TakeEffect
  <2>3. CASE t # k
    <3>1. posted'[t] = posted[t]
      BY <2>1, <2>3 DEF IInv, TypeOK
    <3> QED
      BY <2>1, <3>1 DEF Lifecycle!TaskStep, Lifecycle!Stay, Lifecycle!Keep
  <2> QED
    BY <2>2, <2>3
<1>3. ASSUME NEW w \in Workers, FinishSucceeded(w), applied' # applied
      PROVE  Lifecycle!TaskStep(t)
  <2> DEFINE k == worker[w].key
  <2>1. /\ Owned(w) /\ ~IsPublication(k) /\ posted' = posted /\ k \in Keys
        /\ applied' = [applied EXCEPT ![k] = @ + 1]
        /\ row' = [row EXCEPT ![k] = Unleased(row[k], "succeeded")]
    BY <1>3 DEF FinishSucceeded, Finish, IInv, TokensIssued, Busy
  <2>2. CASE t = k
    <3>1. row[t] \in Row /\ row[t].state = "running"
      BY <2>1, <2>2 DEF Owned, IInv, TypeOK
    <3>2. row'[t].state = "succeeded" /\ row'[t].attempts = row[t].attempts
      BY <2>1, <2>2, <3>1 DEF Unleased, Row, IInv, TypeOK
    <3>3. /\ posted[t] = 0 /\ applied[t] = 0 /\ applied'[t] = applied[t] + 1
      BY <2>1, <2>2, <3>1 DEF IInv, TasksOK, SafeTask, TypeOK
    <3> QED
      BY <2>1, <3>1, <3>2, <3>3 DEF Lifecycle!TaskStep, Lifecycle!Succeed
  <2>3. CASE t # k
    <3>1. row'[t] = row[t] /\ applied'[t] = applied[t]
      BY <2>1, <2>3 DEF IInv, TypeOK
    <3> QED
      BY <2>1, <3>1 DEF Lifecycle!TaskStep, Lifecycle!Stay, Lifecycle!Keep
  <2> QED
    BY <2>2, <2>3
<1>4. ASSUME posted' = posted, applied' = applied, \A k \in Keys : RowMove(k)
      PROVE  Lifecycle!TaskStep(t)
  <2>1. Effect(t)' = Effect(t)
    BY <1>4 DEF Effect
  <2> QED
    BY <1>4, <2>1, MoveImplements
<1>5. \/ \E k \in Keys : Enqueue(k) \/ Accepted(k)
      \/ \E w \in Workers : FinishSucceeded(w) /\ applied' # applied
      \/ posted' = posted /\ applied' = applied
  <2>1. ASSUME NEW w \in Workers, WorkerStep(w)
        PROVE  \/ FinishSucceeded(w) /\ applied' # applied
               \/ posted' = posted /\ applied' = applied
    BY <2>1 DEF WorkerStep, RunOnce, Heartbeat, Abandon, FinishSucceeded, FinishError, Reserve,
                Send, UploadFails, NotReady, Rejected, Uncertain, Confirm
  <2> QED
    BY <2>1 DEF Next, Cancel, Reconcile, RecoverOnly, Tick, vars
<1> QED
  BY <1>1, <1>2, <1>3, <1>4, <1>5, RowStep DEF IInv

\* The mapped phases, tries and effects have the types of the life cycle.
LEMMA LifecycleTypes ==
  ASSUME TypeOK'
  PROVE  /\ [k \in Keys |-> row[k].state]' \in [Keys -> Lifecycle!Phases]
         /\ [k \in Keys |-> row[k].attempts]' \in [Keys -> Nat]
         /\ [k \in Keys |-> posted[k] + applied[k]]' \in [Keys -> Nat]
<1>1. ASSUME NEW k \in Keys
      PROVE  /\ row'[k].state \in Lifecycle!Phases /\ row'[k].attempts \in Nat
             /\ posted'[k] + applied'[k] \in Nat
  BY DEF TypeOK, Row, Active, Waiting, Terminal, Lifecycle!Phases
<1> QED
  BY <1>1

\* TaskStore implements TaskLifecycle: every state change of a task, under every
\* crash, lost lease and late answer, is one the life cycle allows.
THEOREM RefinesLifecycle == Spec => ImplementsLifecycle
<1>1. Init => Lifecycle!LifecycleInit
  BY DEF Init, Lifecycle!LifecycleInit
<1>2. IInv /\ IInv' /\ [Next]_vars => [Lifecycle!LifecycleNext]_(Lifecycle!lifecycleVars)
  <2> SUFFICES ASSUME IInv, IInv', [Next]_vars PROVE Lifecycle!LifecycleNext
    OBVIOUS
  <2>1. \A t \in Keys : Lifecycle!TaskStep(t)
    BY LifecycleStep
  <2>2. TypeOK'
    BY DEF IInv
  <2> QED
    BY <2>1, <2>2, LifecycleTypes DEF Lifecycle!LifecycleNext
<1> QED
  BY <1>1, <1>2, Invariance, PTL DEF Spec, ImplementsLifecycle, Lifecycle!LifecycleSpec
=============================================================================
