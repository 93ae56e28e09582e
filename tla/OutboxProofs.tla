---------------------------- MODULE OutboxProofs ----------------------------
(***************************************************************************)
(* Theorems about Outbox, for every number of dispatchers and workers,     *)
(* both transports, every lease and every bound on faults.                 *)
(*                                                                         *)
(* Delivery only decides when a worker looks at a task: OutboxSpec         *)
(* implements the specification Spec of the task store, so what            *)
(* TaskStoreProofs establishes of Spec holds however ids are lost,         *)
(* repeated or delivered late.                                             *)
(***************************************************************************)
EXTENDS Outbox, TaskStoreProofs

\* The delivery tables, what the dispatchers hold and the bounded counters.
DeliveryType ==
  /\ outbox \in [Keys -> OutboxRow]
  /\ dispatcher \in [Dispatchers -> DispatcherState]
  /\ receipts \subseteq Keys
  /\ broker \in [Keys -> 0..MaxCopies]
  /\ faults \in 0..MaxFaults

DispatchersHoldKeys ==
  \A d \in Dispatchers : dispatcher[d].phase # "idle" => dispatcher[d].key \in Keys

\* A dispatcher that knows of the acceptance has a receipt in the database, which
\* it alone does not show once its row is marked.
AcceptedHasReceipt ==
  Transport = "postgres" =>
    \A d \in Dispatchers : dispatcher[d].phase = "accepted" => dispatcher[d].key \in receipts

OutboxInv ==
  DeliveryType /\ DispatchersHoldKeys /\ AcceptedHasReceipt /\ ReceiptBacksDelivery

-----------------------------------------------------------------------------
\* Every step of the composition is a step of the task store or leaves it alone.
LEMMA TaskTableStep == [OutboxNext]_outboxVars => [Next]_vars
<1> SUFFICES ASSUME OutboxNext PROVE [Next]_vars
  BY DEF outboxVars
<1>1. ASSUME NEW k \in Keys, EnqueueWithOutbox(k) \/ Outside(k) \/ LoseMessage(k)
      PROVE  [Next]_vars
  BY <1>1 DEF EnqueueWithOutbox, Outside, LoseMessage, Next
<1>2. ASSUME NEW d \in Dispatchers,
             \/ \E k \in Keys : DispatchBegin(d, k)
             \/ PublishReaches(d, "accepted") \/ PublishReaches(d, "refused")
             \/ PublishFails(d) \/ DispatchEnd(d) \/ DispatcherCrashes(d)
      PROVE  UNCHANGED vars
  BY <1>2 DEF DispatchBegin, PublishReaches, PublishFails, DispatchEnd, DispatcherCrashes
<1>3. CASE ReconcileCelery
  BY <1>3 DEF ReconcileCelery
<1>4. ASSUME NEW w \in Workers,
             \/ \E k \in Keys : Poll(w, k) \/ Consume(w, k) \/ ConsumeNothing(w, k)
             \/ Cancelled(w) \/ WorkerCrashes(w) \/ Execute(w)
      PROVE  [Next]_vars
  BY <1>4 DEF Poll, Consume, ConsumeNothing, Cancelled, WorkerCrashes, Execute, Next, WorkerStep
<1>5. CASE PollNothing
  BY <1>5 DEF PollNothing, Next
<1>6. CASE OutboxTick
  BY <1>6 DEF OutboxTick, Next, Tick, vars
<1> QED
  BY <1>1, <1>2, <1>3, <1>4, <1>5, <1>6 DEF OutboxNext

\* With either transport and whatever happens to ids and dispatchers, the task
\* table behaves as TaskStore says.
THEOREM ImplementsTaskStore == OutboxSpec => Spec
<1>1. OutboxInit => Init
  BY DEF OutboxInit
<1> QED
  BY <1>1, TaskTableStep, PTL DEF OutboxSpec, Spec

\* A message delivered twice, or again after its task ran, posts nothing twice and
\* records no second result (celery_app.py acknowledges late).
THEOREM DeliveredTwiceActsOnce == OutboxSpec => []AtMostOneEffect
BY ImplementsTaskStore, EffectOnce, PTL

-----------------------------------------------------------------------------
\* Nothing committed, no dispatcher at work, no message.
LEMMA OutboxInitInv == OutboxInit => OutboxInv
BY OutboxAssumption
DEF OutboxInit, OutboxInv, DeliveryType, DispatchersHoldKeys, AcceptedHasReceipt,
    ReceiptBacksDelivery, OutboxRow, DispatcherState, IdleDispatcher

\* Rows that differ from good ones in some columns.
LEMMA RowType ==
  ASSUME NEW r \in OutboxRow, NEW s \in {"undelivered", "delivered"}, NEW t \in Nat,
         NEW l \in 0..DispatchLease, NEW x \in 0..DispatchDelay, NEW a \in 0..StaleAge
  PROVE  /\ [r EXCEPT !.status = s] \in OutboxRow
         /\ [r EXCEPT !.token = t, !.lease = l] \in OutboxRow
         /\ [r EXCEPT !.token = t, !.lease = l, !.wait = x] \in OutboxRow
         /\ [r EXCEPT !.token = t, !.lease = l, !.status = s, !.age = a] \in OutboxRow
         /\ [r EXCEPT !.status = s, !.wait = x, !.age = a] \in OutboxRow
         /\ [r EXCEPT !.lease = l, !.wait = x, !.age = a] \in OutboxRow
BY DEF OutboxRow

\* One more copy of an id is one of the copies that are told apart.
LEMMA CopyType ==
  ASSUME DeliveryType, NEW k \in Keys
  PROVE  Copy(k) \in [Keys -> 0..MaxCopies]
BY OutboxAssumption DEF DeliveryType, Copy

LEMMA TakenType ==
  ASSUME DeliveryType, NEW k \in Keys, broker[k] > 0
  PROVE  [broker EXCEPT ![k] = @ - 1] \in [Keys -> 0..MaxCopies]
BY OutboxAssumption DEF DeliveryType

\* A dispatcher that goes on with the row it has taken.
LEMMA PhaseTyped ==
  ASSUME DeliveryType, NEW d \in Dispatchers, NEW p \in {"idle", "publishing", "accepted", "refused"}
  PROVE  [dispatcher EXCEPT ![d].phase = p] \in [Dispatchers -> DispatcherState]
<1>1. dispatcher[d] \in DispatcherState
  BY DEF DeliveryType
<1>2. [dispatcher[d] EXCEPT !.phase = p] \in DispatcherState
  BY <1>1 DEF DispatcherState
<1> QED
  BY <1>2 DEF DeliveryType

\* Steps that change nothing of the delivery but, perhaps, the copies in Redis and
\* the count of faults.
LEMMA BrokerStep ==
  ASSUME OutboxInv,
         UNCHANGED <<outbox, dispatcher, receipts>>,
         broker' \in [Keys -> 0..MaxCopies],
         faults' = faults \/ (faults < MaxFaults /\ faults' = faults + 1)
  PROVE  OutboxInv'
<1>1. faults' \in 0..MaxFaults
  BY OutboxAssumption DEF OutboxInv, DeliveryType
<1> QED
  BY <1>1 DEF OutboxInv, DeliveryType, DispatchersHoldKeys, AcceptedHasReceipt,
              ReceiptBacksDelivery

\* A row committed with its task, and rows that are to be delivered again, need no
\* receipt yet.
LEMMA UndeliveredStep ==
  ASSUME OutboxInv,
         outbox' \in [Keys -> OutboxRow],
         \A k \in Keys : outbox'[k].status = "delivered" => outbox[k].status = "delivered",
         UNCHANGED <<dispatcher, receipts, broker, faults>>
  PROVE  OutboxInv'
BY DEF OutboxInv, DeliveryType, DispatchersHoldKeys, AcceptedHasReceipt, ReceiptBacksDelivery

LEMMA RowsStep ==
  ASSUME OutboxInv,
         (\E k \in Keys : EnqueueWithOutbox(k)) \/ ReconcileCelery \/ OutboxTick
  PROVE  OutboxInv'
<1>1. ASSUME NEW k \in Keys, EnqueueWithOutbox(k)
      PROVE  OutboxInv'
  <2>1. outbox[k] \in OutboxRow
    BY DEF OutboxInv, DeliveryType
  <2>2. [outbox[k] EXCEPT !.status = "undelivered"] \in OutboxRow
    BY <2>1 DEF OutboxRow
  <2>3. outbox' = [outbox EXCEPT ![k] = [outbox[k] EXCEPT !.status = "undelivered"]]
    BY <1>1 DEF EnqueueWithOutbox
  <2>4. outbox' \in [Keys -> OutboxRow]
    BY <2>2, <2>3 DEF OutboxInv, DeliveryType
  <2>5. ASSUME NEW j \in Keys, outbox'[j].status = "delivered"
        PROVE  outbox[j].status = "delivered"
    BY <2>1, <2>2, <2>3, <2>5 DEF OutboxInv, DeliveryType, OutboxRow
  <2> QED
    BY <1>1, <2>4, <2>5, UndeliveredStep DEF EnqueueWithOutbox
<1>2. CASE ReconcileCelery
  <2> DEFINE Again(k) == [outbox[k] EXCEPT !.status = "undelivered", !.wait = 0, !.age = 0]
  <2>1. ASSUME NEW k \in Keys
        PROVE  /\ outbox[k] \in OutboxRow /\ Again(k) \in OutboxRow
               /\ Again(k).status = "undelivered"
               /\ outbox'[k] \in {outbox[k], Again(k)}
    <3>1. outbox[k] \in OutboxRow
      BY DEF OutboxInv, DeliveryType
    <3>2. 0 \in 0..DispatchDelay /\ 0 \in 0..StaleAge
      BY OutboxAssumption
    <3>3. outbox'[k] \in {outbox[k], Again(k)}
      BY <1>2 DEF ReconcileCelery
    <3> QED
      BY <3>1, <3>2, <3>3 DEF OutboxRow
  <2>2. outbox' \in [Keys -> OutboxRow]
    BY <1>2, <2>1 DEF ReconcileCelery
  <2>3. \A k \in Keys : outbox'[k].status = "delivered" => outbox[k].status = "delivered"
    BY <2>1
  <2> QED
    BY <1>2, <2>2, <2>3, UndeliveredStep DEF ReconcileCelery
<1>3. CASE OutboxTick
  <2>1. ASSUME NEW k \in Keys
        PROVE  AgedOutbox[k] \in OutboxRow /\ AgedOutbox[k].status = outbox[k].status
    <3>1. outbox[k] \in OutboxRow
      BY DEF OutboxInv, DeliveryType
    <3>2. Less(outbox[k].lease) \in 0..DispatchLease /\ Less(outbox[k].wait) \in 0..DispatchDelay
      BY <3>1, OutboxAssumption DEF OutboxRow, Less
    <3>3. ASSUME NEW a \in 0..StaleAge
          PROVE  (IF outbox[k].status = "delivered" /\ a < StaleAge THEN a + 1 ELSE a) \in 0..StaleAge
      BY OutboxAssumption
    <3> QED
      BY <3>1, <3>2, <3>3 DEF OutboxRow, AgedOutbox
  <2>2. outbox' = AgedOutbox /\ AgedOutbox = [k \in Keys |-> AgedOutbox[k]]
    BY <1>3 DEF OutboxTick, AgedOutbox
  <2> QED
    BY <1>3, <2>1, <2>2, UndeliveredStep DEF OutboxTick
<1> QED
  BY <1>1, <1>2, <1>3

LEMMA BeginStep ==
  ASSUME OutboxInv, NEW d \in Dispatchers, NEW k \in Keys, DispatchBegin(d, k)
  PROVE  OutboxInv'
<1>1. PICK token \in 1..Cardinality(Dispatchers) :
        /\ outbox' = [outbox EXCEPT ![k].token = token, ![k].lease = DispatchLease]
        /\ dispatcher' = [dispatcher EXCEPT ![d] =
                            [phase |-> "publishing", key |-> k, token |-> token]]
  BY DEF DispatchBegin
<1>2. token \in Nat /\ DispatchLease \in 0..DispatchLease
  BY OutboxAssumption
<1>3. outbox[k] \in OutboxRow
  BY DEF OutboxInv, DeliveryType
<1> DEFINE taken == [outbox[k] EXCEPT !.token = token, !.lease = DispatchLease]
<1>4. taken \in OutboxRow /\ taken.status = outbox[k].status
  BY <1>2, <1>3 DEF OutboxRow
<1>5. outbox' = [outbox EXCEPT ![k] = taken]
  BY <1>1
<1>6. outbox' \in [Keys -> OutboxRow] /\ \A j \in Keys : outbox'[j].status = outbox[j].status
  BY <1>3, <1>4, <1>5 DEF OutboxInv, DeliveryType
<1>7. [phase |-> "publishing", key |-> k, token |-> token] \in DispatcherState
  BY <1>2 DEF DispatcherState
<1>8. dispatcher' \in [Dispatchers -> DispatcherState]
  BY <1>1, <1>7 DEF OutboxInv, DeliveryType
<1>9. \A e \in Dispatchers : dispatcher'[e] = dispatcher[e]
                             \/ (dispatcher'[e].phase = "publishing" /\ dispatcher'[e].key = k)
  BY <1>1 DEF OutboxInv, DeliveryType
<1>10. UNCHANGED <<receipts, broker, faults>>
  BY DEF DispatchBegin
<1> QED
  BY <1>6, <1>8, <1>9, <1>10
  DEF OutboxInv, DeliveryType, DispatchersHoldKeys, AcceptedHasReceipt, ReceiptBacksDelivery

\* The receipt is written before the dispatcher knows of it.
LEMMA ReachesStep ==
  ASSUME OutboxInv, NEW d \in Dispatchers, NEW known \in {"accepted", "refused"},
         PublishReaches(d, known)
  PROVE  OutboxInv'
<1> DEFINE k == dispatcher[d].key
<1>1. k \in Keys
  BY DEF OutboxInv, DispatchersHoldKeys, PublishReaches
<1>2. dispatcher' \in [Dispatchers -> DispatcherState]
  BY PhaseTyped DEF OutboxInv, PublishReaches
<1>3. \A e \in Dispatchers : \/ dispatcher'[e] = dispatcher[e]
                             \/ e = d /\ dispatcher'[e].key = k
  BY DEF OutboxInv, DeliveryType, DispatcherState, PublishReaches
<1>4. receipts' \subseteq Keys /\ receipts \subseteq receipts'
      /\ (Transport = "postgres" => k \in receipts')
  BY <1>1 DEF OutboxInv, DeliveryType, PublishReaches
<1>5. broker' \in [Keys -> 0..MaxCopies]
  BY <1>1, CopyType DEF OutboxInv, DeliveryType, PublishReaches
<1>6. UNCHANGED <<outbox, faults>>
  BY DEF PublishReaches
<1> QED
  BY <1>1, <1>2, <1>3, <1>4, <1>5, <1>6
  DEF OutboxInv, DeliveryType, DispatchersHoldKeys, AcceptedHasReceipt, ReceiptBacksDelivery

\* A dispatcher that forgets its row, or learns of a refusal.
LEMMA GivesUpStep ==
  ASSUME OutboxInv, NEW d \in Dispatchers, PublishFails(d) \/ DispatcherCrashes(d)
  PROVE  OutboxInv'
<1>1. IdleDispatcher \in DispatcherState
  BY DEF IdleDispatcher, DispatcherState
<1>2. dispatcher' \in [Dispatchers -> DispatcherState]
  BY <1>1, PhaseTyped DEF OutboxInv, DeliveryType, PublishFails, DispatcherCrashes
<1>3. \A e \in Dispatchers : \/ dispatcher'[e] = dispatcher[e]
                             \/ dispatcher'[e].phase = "idle"
                             \/ /\ dispatcher'[e].phase = "refused" /\ dispatcher'[e].key = dispatcher[e].key
                                /\ dispatcher[e].phase # "idle"
  BY DEF OutboxInv, DeliveryType, DispatcherState, PublishFails, DispatcherCrashes, IdleDispatcher
<1>4. faults' \in 0..MaxFaults /\ UNCHANGED <<outbox, receipts, broker>>
  BY OutboxAssumption DEF OutboxInv, DeliveryType, PublishFails, DispatcherCrashes
<1> QED
  BY <1>2, <1>3, <1>4
  DEF OutboxInv, DeliveryType, DispatchersHoldKeys, AcceptedHasReceipt, ReceiptBacksDelivery

\* A row becomes delivered only in the hands of a dispatcher that has the receipt.
LEMMA EndStep ==
  ASSUME OutboxInv, NEW d \in Dispatchers, DispatchEnd(d)
  PROVE  OutboxInv'
<1> DEFINE k == dispatcher[d].key
<1> DEFINE Done == [Freed(k) EXCEPT !.status = "delivered", !.age = 0]
<1> DEFINE Later(delay) == [Freed(k) EXCEPT !.wait = delay]
<1>1. k \in Keys
  BY DEF OutboxInv, DispatchersHoldKeys, DispatchEnd
<1>2. outbox[k] \in OutboxRow
  BY <1>1 DEF OutboxInv, DeliveryType
<1>3. 0 \in 0..DispatchLease /\ 0 \in 0..StaleAge /\ 0 \in Nat
  BY OutboxAssumption
<1>4. Freed(k) \in OutboxRow /\ Freed(k).status = outbox[k].status
  BY <1>2, <1>3 DEF Freed, OutboxRow
<1>5. Done \in OutboxRow
  BY <1>3, <1>4 DEF OutboxRow
<1>6. ASSUME NEW delay \in DispatchDelays
      PROVE  Later(delay) \in OutboxRow /\ Later(delay).status = outbox[k].status
  <2>1. delay \in 0..DispatchDelay
    BY OutboxAssumption DEF DispatchDelays
  <2> QED
    BY <1>4, <2>1 DEF OutboxRow
<1>7. \/ outbox' = outbox
      \/ dispatcher[d].phase = "accepted" /\ outbox' = [outbox EXCEPT ![k] = Done]
      \/ \E delay \in DispatchDelays : outbox' = [outbox EXCEPT ![k] = Later(delay)]
  BY DEF DispatchEnd
<1>8. outbox' \in [Keys -> OutboxRow]
  BY <1>5, <1>6, <1>7 DEF OutboxInv, DeliveryType
<1>9. \A j \in Keys : outbox'[j].status = "delivered" =>
        outbox[j].status = "delivered" \/ (j = k /\ dispatcher[d].phase = "accepted")
  BY <1>1, <1>6, <1>7 DEF OutboxInv, DeliveryType
<1>10. IdleDispatcher \in DispatcherState
  BY DEF IdleDispatcher, DispatcherState
<1>11. /\ dispatcher' \in [Dispatchers -> DispatcherState]
       /\ \A e \in Dispatchers : dispatcher'[e] = dispatcher[e] \/ dispatcher'[e].phase = "idle"
  BY <1>10 DEF OutboxInv, DeliveryType, DispatchEnd, IdleDispatcher
<1>12. UNCHANGED <<receipts, broker, faults>>
  BY DEF DispatchEnd
<1> QED
  BY <1>8, <1>9, <1>11, <1>12
  DEF OutboxInv, DeliveryType, DispatchersHoldKeys, AcceptedHasReceipt, ReceiptBacksDelivery

\* What workers, Redis and the users of the task API do to the delivery tables.
LEMMA WorkersStep ==
  ASSUME OutboxInv, TokensIssued,
         \/ \E k \in Keys : Outside(k) \/ LoseMessage(k)
         \/ PollNothing
         \/ \E w \in Workers :
              \/ \E k \in Keys : Poll(w, k) \/ Consume(w, k) \/ ConsumeNothing(w, k)
              \/ Cancelled(w) \/ WorkerCrashes(w) \/ Execute(w)
  PROVE  OutboxInv'
<1>1. UNCHANGED <<outbox, dispatcher, receipts>>
  BY DEF Outside, LoseMessage, PollNothing, Poll, Consume, ConsumeNothing, Cancelled,
         WorkerCrashes, Execute, deliveryVars
<1>2. faults' = faults \/ (faults < MaxFaults /\ faults' = faults + 1)
  BY DEF Outside, LoseMessage, PollNothing, Poll, Consume, ConsumeNothing, Cancelled,
         WorkerCrashes, Execute, deliveryVars
<1>3. \/ broker' = broker
      \/ \E k \in Keys : broker[k] > 0 /\ broker' = [broker EXCEPT ![k] = @ - 1]
      \/ \E w \in Workers : worker[w].phase \in Busy /\ broker' = Copy(worker[w].key)
  BY DEF Outside, LoseMessage, PollNothing, Poll, Consume, ConsumeNothing, Cancelled,
         WorkerCrashes, Abandon, Execute, deliveryVars
<1>4. broker' \in [Keys -> 0..MaxCopies]
  BY <1>3, CopyType, TakenType DEF OutboxInv, DeliveryType, TokensIssued
<1> QED
  BY <1>1, <1>2, <1>4, BrokerStep

LEMMA OutboxInvStep == IInv /\ OutboxInv /\ [OutboxNext]_outboxVars => OutboxInv'
<1> SUFFICES ASSUME IInv, OutboxInv, [OutboxNext]_outboxVars PROVE OutboxInv'
  OBVIOUS
<1>1. CASE OutboxNext
  BY <1>1, RowsStep, BeginStep, ReachesStep, GivesUpStep, EndStep, WorkersStep
  DEF OutboxNext, IInv
<1>2. CASE UNCHANGED outboxVars
  BY <1>2 DEF outboxVars, deliveryVars, OutboxInv, DeliveryType, DispatchersHoldKeys,
              AcceptedHasReceipt, ReceiptBacksDelivery
<1> QED
  BY <1>1, <1>2

THEOREM OutboxInvariance == OutboxSpec => []OutboxInv
BY OutboxInitInv, OutboxInvStep, ImplementsTaskStore, Invariance, PTL DEF OutboxSpec

\* With PostgreSQL delivered_at never hides a task: its receipt is in the database.
THEOREM DeliveryBacked == OutboxSpec => []ReceiptBacksDelivery
<1>1. OutboxInv => ReceiptBacksDelivery
  BY DEF OutboxInv
<1> QED
  BY <1>1, OutboxInvariance, PTL

\* Type correctness, with the delays and copies within their bounds.
THEOREM OutboxTypeCorrect == OutboxSpec => []OutboxTypeOK
<1>1. TypeOK /\ OutboxInv => OutboxTypeOK
  BY DEF OutboxInv, DeliveryType, OutboxTypeOK
<1> QED
  BY <1>1, OutboxInvariance, ImplementsTaskStore, TypeCorrect, PTL

-----------------------------------------------------------------------------
\* What may happen to row k when it becomes delivered, the step of DispatchFenced.
MarkedByOwner(k) ==
  outbox[k].status = "undelivered" /\ outbox'[k].status = "delivered" =>
    /\ outbox[k].lease > 0
    /\ \E d \in Dispatchers : /\ dispatcher[d].key = k
                              /\ dispatcher[d].phase = "accepted"
                              /\ dispatcher[d].token = outbox[k].token

LEMMA FenceHolds ==
  ASSUME OutboxInv, [OutboxNext]_outboxVars, NEW k \in Keys
  PROVE  MarkedByOwner(k)
<1> USE DEF MarkedByOwner
<1>1. outbox[k] \in OutboxRow
  BY DEF OutboxInv, DeliveryType
<1>2. ASSUME NEW d \in Dispatchers, DispatchEnd(d)
      PROVE  MarkedByOwner(k)
  <2>1. /\ dispatcher[d].key \in Keys
        /\ outbox[dispatcher[d].key] \in OutboxRow
    BY <1>2 DEF OutboxInv, DispatchersHoldKeys, DeliveryType, DispatchEnd
  <2>2. CASE outbox'[k] = outbox[k]
    BY <2>2
  <2>3. CASE outbox'[k] # outbox[k] /\ dispatcher[d].phase = "accepted"
    <3>1. dispatcher[d].key = k /\ HoldsDelivery(d)
      BY <1>2, <2>3 DEF DispatchEnd, OutboxInv, DeliveryType
    <3>2. outbox[k].token = dispatcher[d].token /\ outbox[k].lease > 0
      BY <3>1 DEF HoldsDelivery
    <3> QED
      BY <2>3, <3>1, <3>2
  <2>4. CASE outbox'[k] # outbox[k] /\ dispatcher[d].phase = "refused"
    <3>1. PICK delay \in DispatchDelays :
            k = dispatcher[d].key /\ outbox'[k] = [Freed(k) EXCEPT !.wait = delay]
      BY <1>2, <2>1, <2>4 DEF DispatchEnd, OutboxInv, DeliveryType
    <3>2. outbox'[k].status = outbox[k].status
      BY <1>1, <3>1 DEF Freed, OutboxRow
    <3> QED
      BY <3>2
  <2> QED
    BY <1>2, <2>2, <2>3, <2>4 DEF DispatchEnd
<1>3. ASSUME NEW d \in Dispatchers, NEW j \in Keys, DispatchBegin(d, j)
      PROVE  MarkedByOwner(k)
  <2>1. PICK token \in 1..Cardinality(Dispatchers) :
          outbox' = [outbox EXCEPT ![j].token = token, ![j].lease = DispatchLease]
    BY <1>3 DEF DispatchBegin
  <2>2. outbox'[k] = outbox[k]
        \/ outbox'[k] = [outbox[k] EXCEPT !.token = token, !.lease = DispatchLease]
    BY <2>1 DEF OutboxInv, DeliveryType
  <2>3. outbox'[k].status = outbox[k].status
    BY <1>1, <2>2 DEF OutboxRow
  <2> QED
    BY <2>3
<1>4. ASSUME NEW j \in Keys, EnqueueWithOutbox(j)
      PROVE  MarkedByOwner(k)
  <2>1. outbox'[k] = outbox[k] \/ outbox'[k] = [outbox[k] EXCEPT !.status = "undelivered"]
    BY <1>4 DEF EnqueueWithOutbox, OutboxInv, DeliveryType
  <2>2. outbox'[k] = outbox[k] \/ outbox'[k].status = "undelivered"
    BY <1>1, <2>1 DEF OutboxRow
  <2> QED
    BY <2>2
<1>5. CASE ReconcileCelery
  <2>1. outbox[k].status = "undelivered" => outbox'[k] = outbox[k]
    BY <1>5 DEF ReconcileCelery, Undelivered
  <2> QED
    BY <2>1
<1>6. CASE OutboxTick
  <2>1. outbox'[k].status = outbox[k].status
    BY <1>1, <1>6 DEF OutboxTick, AgedOutbox, OutboxRow
  <2> QED
    BY <2>1
<1>7. CASE outbox' = outbox
  BY <1>7
<1> QED
  BY <1>2, <1>3, <1>4, <1>5, <1>6, <1>7
  DEF OutboxNext, outboxVars, deliveryVars, Outside, LoseMessage, PublishReaches, PublishFails,
      DispatcherCrashes, Poll, Consume, ConsumeNothing, Cancelled, WorkerCrashes, Execute,
      PollNothing

\* Only the dispatcher that holds a row's live lease, and that knows of the
\* acceptance, marks it delivered, with every number of dispatchers.
THEOREM DeliveryIsFenced == OutboxSpec => DispatchFenced
<1> DEFINE Fenced == \A k \in Keys : MarkedByOwner(k)
<1>1. OutboxInv /\ [OutboxNext]_outboxVars => [Fenced]_outboxVars
  BY FenceHolds
<1>2. [][Fenced]_outboxVars => DispatchFenced
  BY PTL DEF DispatchFenced, MarkedByOwner
<1> HIDE DEF Fenced
<1> QED
  BY <1>1, <1>2, OutboxInvariance, PTL DEF OutboxSpec
=============================================================================
