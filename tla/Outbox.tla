------------------------------- MODULE Outbox -------------------------------
(***************************************************************************)
(* Delivery of task ids from the transactional outbox to the workers       *)
(* (background/outbox.py, background/celery_app.py), composed with the     *)
(* task table of TaskStore.  Transport selects PostgresTransport, whose    *)
(* task_deliveries receipts the workers poll, or Celery over Redis, whose  *)
(* messages wake a worker with an exact task id and may be lost or         *)
(* delivered twice.                                                        *)
(***************************************************************************)
EXTENDS TaskStore

CONSTANTS
  Transport,      \* background_task_transport: "postgres" or "celery"
  Dispatchers,    \* processes running `worker --dispatch`
  DispatchLease,  \* the dispatcher's 60 s lease, in ticks
  DispatchDelay,  \* longest delay after a transport error, in ticks
  StaleAge,       \* the 120 s after which a pending delivery is redone, in ticks
  MaxCopies,      \* bound: copies of one id waiting in Redis that are told apart
  MaxFaults       \* bound: lost messages and crashes of workers and dispatchers

ASSUME OutboxAssumption ==
  /\ Transport \in {"postgres", "celery"}
  /\ DispatchLease \in Nat \ {0} /\ DispatchDelay \in Nat \ {0}
  /\ StaleAge \in Nat \ {0} /\ MaxCopies \in Nat \ {0} /\ MaxFaults \in Nat

VARIABLES
  outbox,      \* outbox[k]: the task_outbox row of task k
  dispatcher,  \* dispatcher[d]: what dispatch_once has in memory
  receipts,    \* task_deliveries
  broker,      \* broker[k]: copies of k's message in Redis, not taken by a worker
  faults       \* faults so far

deliveryVars == <<outbox, dispatcher, receipts, broker, faults>>
outboxVars == <<vars, deliveryVars>>

-----------------------------------------------------------------------------
\* outbox: nothing committed yet, undelivered, or delivered_at is set.
OutboxRow == [status : {"absent", "undelivered", "delivered"},
              token : Nat, lease : 0..DispatchLease, wait : 0..DispatchDelay,
              age : 0..StaleAge]

DispatcherState == [phase : {"idle", "publishing", "accepted", "refused"},
                    key : Keys \cup {NoKey}, token : Nat]

IdleDispatcher == [phase |-> "idle", key |-> NoKey, token |-> 0]

OutboxInit ==
  /\ Init
  /\ outbox = [k \in Keys |-> [status |-> "absent", token |-> 0, lease |-> 0,
                               wait |-> 0, age |-> 0]]
  /\ dispatcher = [d \in Dispatchers |-> IdleDispatcher]
  /\ receipts = {}
  /\ broker = [k \in Keys |-> 0]
  /\ faults = 0

\* Task and outbox row are inserted under one savepoint.
EnqueueWithOutbox(k) ==
  /\ Enqueue(k)
  /\ outbox' = [outbox EXCEPT ![k].status = "undelivered"]
  /\ UNCHANGED <<dispatcher, receipts, broker, faults>>

-----------------------------------------------------------------------------
(* dispatch_once: take a row, publish outside the database, record.        *)

DispatchBegin(d, k) ==
  /\ dispatcher[d].phase = "idle"
  /\ outbox[k].status = "undelivered" /\ outbox[k].wait = 0 /\ outbox[k].lease = 0
  \* uuid4: a number that no dispatcher still holds for this row
  /\ \E token \in 1..Cardinality(Dispatchers) :
       /\ \A e \in Dispatchers : dispatcher[e].key = k => dispatcher[e].token # token
       /\ outbox' = [outbox EXCEPT ![k].token = token, ![k].lease = DispatchLease]
       /\ dispatcher' = [dispatcher EXCEPT ![d] =
                           [phase |-> "publishing", key |-> k, token |-> token]]
  /\ UNCHANGED <<vars, receipts, broker, faults>>

Copy(k) == [broker EXCEPT ![k] = IF @ < MaxCopies THEN @ + 1 ELSE @]

\* The transport has the id; whether the dispatcher learns it is the next phase.
PublishReaches(d, known) ==
  LET k == dispatcher[d].key
  IN  /\ dispatcher[d].phase = "publishing"
      /\ dispatcher' = [dispatcher EXCEPT ![d].phase = known]
      /\ IF Transport = "postgres"
           THEN receipts' = receipts \cup {k} /\ broker' = broker
           ELSE broker' = Copy(k) /\ receipts' = receipts
      /\ UNCHANGED <<vars, outbox, faults>>

PublishFails(d) ==
  /\ dispatcher[d].phase = "publishing"
  /\ faults < MaxFaults /\ faults' = faults + 1
  /\ dispatcher' = [dispatcher EXCEPT ![d].phase = "refused"]
  /\ UNCHANGED <<vars, outbox, receipts, broker>>

Freed(k) == [outbox[k] EXCEPT !.token = 0, !.lease = 0]

\* Fault: the lease is not looked at, only the token.
HoldsToken(d) == outbox[dispatcher[d].key].token = dispatcher[d].token

HoldsDelivery(d) == LET o == outbox[dispatcher[d].key]
                    IN  o.token = dispatcher[d].token /\ o.lease > 0

\* Fault: 2 ^ attempts without the cap of 300 s.
UncappedDelays == 1..(DispatchDelay + 1)

\* min(300, 2 ** min(attempts, 8)): the attempts of a row are not counted, so any delay
\* up to the cap.
DispatchDelays == 1..DispatchDelay

\* Fault: a refused publication counts as delivered.
DispatchEndAnyway(d) ==
  LET k == dispatcher[d].key
  IN  /\ dispatcher[d].phase \in {"accepted", "refused"}
      /\ dispatcher' = [dispatcher EXCEPT ![d] = IdleDispatcher]
      /\ outbox' = IF HoldsDelivery(d)
                     THEN [outbox EXCEPT ![k] = [Freed(k) EXCEPT !.status = "delivered", !.age = 0]]
                     ELSE outbox
      /\ UNCHANGED <<vars, receipts, broker, faults>>

\* The second transaction; a dispatcher whose lease has ended changes nothing.
DispatchEnd(d) ==
  LET k == dispatcher[d].key
  IN  /\ dispatcher' = [dispatcher EXCEPT ![d] = IdleDispatcher]
      /\ \/ /\ dispatcher[d].phase = "accepted"
            /\ outbox' = IF HoldsDelivery(d) THEN [outbox EXCEPT ![k] =
                                         [Freed(k) EXCEPT !.status = "delivered", !.age = 0]]
                                 ELSE outbox
         \/ /\ dispatcher[d].phase = "refused"
            /\ \E delay \in DispatchDelays :
                 outbox' = IF HoldsDelivery(d) THEN [outbox EXCEPT ![k] = [Freed(k) EXCEPT !.wait = delay]]
                                   ELSE outbox
      /\ UNCHANGED <<vars, receipts, broker, faults>>

DispatcherCrashes(d) ==
  /\ dispatcher[d].phase # "idle"
  /\ faults < MaxFaults /\ faults' = faults + 1
  /\ dispatcher' = [dispatcher EXCEPT ![d] = IdleDispatcher]
  /\ UNCHANGED <<vars, outbox, receipts, broker>>

\* Fault: only retries are delivered again.
UndeliveredRetry(k) ==
  /\ outbox[k].status = "delivered" /\ outbox[k].lease = 0
  /\ row[k].state = "retry_wait" /\ row[k].wait = 0

\* reconcile_celery: due retries, and pending tasks whose delivery is old.
Undelivered(k) ==
  /\ outbox[k].status = "delivered" /\ outbox[k].lease = 0
  /\ \/ row[k].state = "retry_wait" /\ row[k].wait = 0
     \/ row[k].state = "pending" /\ outbox[k].age = StaleAge

ReconcileCelery ==
  /\ Transport = "celery"
  /\ \E k \in Keys : Undelivered(k)
  /\ outbox' = [k \in Keys |-> IF Undelivered(k)
                                 THEN [outbox[k] EXCEPT !.status = "undelivered",
                                                        !.wait = 0, !.age = 0]
                                 ELSE outbox[k]]
  /\ UNCHANGED <<vars, dispatcher, receipts, broker, faults>>

-----------------------------------------------------------------------------
(* Workers.                                                                *)

\* serve(): poll for any task with a receipt.
Poll(w, k) ==
  /\ Transport = "postgres" /\ k \in receipts
  /\ RunOnce(w, k)
  /\ UNCHANGED deliveryVars

PollNothing ==
  /\ Transport = "postgres"
  /\ \E w \in Workers : worker[w].phase = "idle"
  /\ RecoverOnly
  /\ UNCHANGED deliveryVars

\* celery_app.run_task: one message, one run_once for its id.  The message is
\* acknowledged when run_once returns (acks_late).
Consume(w, k) ==
  /\ Transport = "celery" /\ broker[k] > 0
  /\ RunOnce(w, k)
  /\ broker' = [broker EXCEPT ![k] = @ - 1]
  /\ UNCHANGED <<outbox, dispatcher, receipts, faults>>

ConsumeNothing(w, k) ==
  /\ Transport = "celery" /\ broker[k] > 0
  /\ worker[w].phase = "idle" /\ QueueOf[k] \in Serves[w]
  /\ ~Claimable(k)
  /\ RecoverOnly \/ (Expired = {} /\ UNCHANGED vars)
  /\ broker' = [broker EXCEPT ![k] = @ - 1]
  /\ UNCHANGED <<outbox, dispatcher, receipts, faults>>

\* The heartbeat could not prove ownership: the execution is cancelled and
\* run_once returns normally, so the message is acknowledged.
Cancelled(w) ==
  /\ worker[w].phase # "settled"
  /\ faults < MaxFaults /\ faults' = faults + 1
  /\ Abandon(w)
  /\ UNCHANGED <<outbox, dispatcher, receipts, broker>>

\* The process dies: Redis restores the message (reject_on_worker_lost, or the
\* visibility timeout).
WorkerCrashes(w) ==
  /\ faults < MaxFaults /\ faults' = faults + 1
  /\ Abandon(w)
  /\ broker' = IF Transport = "celery" THEN Copy(worker[w].key) ELSE broker
  /\ UNCHANGED <<outbox, dispatcher, receipts>>

\* The steps of an execution that touch no delivery state.
Execute(w) ==
  /\ \/ Heartbeat(w) \/ FinishSucceeded(w) \/ FinishError(w)
     \/ Reserve(w) \/ Send(w) \/ UploadFails(w) \/ NotReady(w) \/ Rejected(w)
     \/ Uncertain(w) \/ Confirm(w)
  /\ UNCHANGED deliveryVars

\* Redis loses an accepted message.
LoseMessage(k) ==
  /\ broker[k] > 0
  /\ faults < MaxFaults /\ faults' = faults + 1
  /\ broker' = [broker EXCEPT ![k] = @ - 1]
  /\ UNCHANGED <<vars, outbox, dispatcher, receipts>>

Outside(k) ==
  /\ Cancel(k) \/ Accepted(k) \/ Reconcile(k)
  /\ UNCHANGED deliveryVars

AgedOutbox ==
  [k \in Keys |-> [outbox[k] EXCEPT
                     !.lease = Less(@), !.wait = Less(@),
                     !.age = IF outbox[k].status = "delivered" /\ @ < StaleAge
                               THEN @ + 1 ELSE @]]

OutboxTick ==
  /\ row' = AgedRows
  /\ outbox' = AgedOutbox
  /\ row' # row \/ outbox' # outbox
  /\ UNCHANGED <<attempt, worker, issued, inflight, posted, applied,
                 dispatcher, receipts, broker, faults>>

OutboxNext ==
  \/ \E k \in Keys : EnqueueWithOutbox(k) \/ Outside(k) \/ LoseMessage(k)
  \/ \E d \in Dispatchers :
       \/ \E k \in Keys : DispatchBegin(d, k)
       \/ PublishReaches(d, "accepted") \/ PublishReaches(d, "refused")
       \/ PublishFails(d) \/ DispatchEnd(d) \/ DispatcherCrashes(d)
  \/ ReconcileCelery
  \/ \E w \in Workers :
       \/ \E k \in Keys : Poll(w, k) \/ Consume(w, k) \/ ConsumeNothing(w, k)
       \/ Cancelled(w) \/ WorkerCrashes(w) \/ Execute(w)
  \/ PollNothing
  \/ OutboxTick

(* Loops that sleep and repeat are fair; so is the end of an execution, which *)
(* POLICIES[q].timeout_seconds enforces, and the passing of time.  Requests,  *)
(* faults and the operator's `worker --recover` are not.                      *)
OutboxFairness ==
  /\ WF_outboxVars(OutboxTick)
  /\ \A k \in Keys : SF_outboxVars(\E d \in Dispatchers : DispatchBegin(d, k))
  /\ \A d \in Dispatchers :
       /\ WF_outboxVars(PublishReaches(d, "accepted"))
       /\ WF_outboxVars(DispatchEnd(d))
  /\ WF_outboxVars(ReconcileCelery)
  /\ \A w \in Workers :
       WF_outboxVars(FinishError(w) /\ UNCHANGED deliveryVars)
  /\ \A k \in Keys :
       /\ SF_outboxVars(\E w \in Workers : Poll(w, k))
       /\ SF_outboxVars(\E w \in Workers : Consume(w, k))
       /\ SF_outboxVars(\E w \in Workers : ConsumeNothing(w, k))
  /\ WF_outboxVars(PollNothing)

OutboxSpec == OutboxInit /\ [][OutboxNext]_outboxVars
FairOutboxSpec == OutboxSpec /\ OutboxFairness

-----------------------------------------------------------------------------
OutboxTypeOK ==
  /\ TypeOK
  /\ outbox \in [Keys -> OutboxRow]
  /\ dispatcher \in [Dispatchers -> DispatcherState]
  /\ receipts \subseteq Keys
  /\ broker \in [Keys -> 0..MaxCopies]
  /\ faults \in 0..MaxFaults

\* PostgreSQL transport: delivered_at is only set when the receipt is durable, so
\* an unfinished task can always be found again: its outbox row is still to be
\* dispatched or its receipt exists.
ReceiptBacksDelivery ==
  Transport = "postgres" =>
    \A k \in Keys : outbox[k].status = "delivered" => k \in receipts

\* delivered_at is set only by the dispatcher that owns the row and only after the
\* transport accepted the id: an expired dispatcher cannot hide a row from its
\* successor, whose own publication may yet fail.
DispatchFenced ==
  [][\A k \in Keys :
       outbox[k].status = "undelivered" /\ outbox'[k].status = "delivered" =>
         /\ outbox[k].lease > 0
         /\ \E d \in Dispatchers : /\ dispatcher[d].key = k
                                   /\ dispatcher[d].phase = "accepted"
                                   /\ dispatcher[d].token = outbox[k].token]_outboxVars

\* An execution that stops without a result is given back: a row does not stay
\* running for ever once its worker is gone.
RecoveryIsBounded ==
  \A k \in Keys : row[k].state = "running" ~> row[k].state # "running"

\* Every accepted task reaches a terminal state.
EventuallySettled ==
  \A k \in Keys : row[k].state \in Active ~> row[k].state \in Terminal

\* Every accepted task is started or cancelled, however many ids Redis loses.
StartsDespiteLoss ==
  \A k \in Keys : row[k].state \in Waiting ~> row[k].state \notin Waiting
=============================================================================
