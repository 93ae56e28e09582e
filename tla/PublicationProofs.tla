-------------------------- MODULE PublicationProofs --------------------------
(***************************************************************************)
(* Theorems about Publication, for any number of processes, attempts and   *)
(* sendings.                                                               *)
(*                                                                         *)
(* NoUnintendedDuplicate counts messages against decisions.  That a sender *)
(* finds a message still to be covered has two reasons, which LicenceInv   *)
(* adds to make the count inductive: a publication that is new or failed   *)
(* has used up no more than was decided for the earlier ones               *)
(* (FreshCovered), and a retry task carries a decision that only the       *)
(* sending of a later attempt uses up (RiskCovered).                       *)
(*                                                                         *)
(* What the rows tell of the channel (RecordInv) is true whatever windows  *)
(* are open: every sender has an attempt of its own that nobody else can   *)
(* declare failed, and as long as no worker has written late and no        *)
(* request by outdated rows, whoever is sending is what the rows say.      *)
(***************************************************************************)
EXTENDS Publication, FiniteSetTheorems, SequenceTheorems,
        WellFoundedInduction, TLAPS

Senders == {a \in Actors : actor[a].phase \in {"sending", "awaiting"}}

\* A task that waits may still be executed, and only a running one is held.
TaskShape ==
  /\ task.state = "pending" => task.tries = 0
  /\ task.state = "retry_wait" => task.tries < MaxAttempts
  /\ task.holder # NoActor => task.state = "running"

DeletedHasNoAttempts == item = "deleted" => attempts = <<>>

\* A process is between load and write only of an operation whose window is open.
OpenedIsOpen == \A a \in Actors : actor[a].phase = "opened" => actor[a].op \in OpenWindows

\* A retry task was submitted about an attempt that exists.
AboutExisting == item # "deleted" => task.about <= Len(attempts)

FreshCovered == item # "deleted" /\ pub \in {"none", "failed"} => Sent < licence

\* A retry task no sending has overtaken.
Current == /\ task.state \in Active /\ task.retry /\ task.about = Len(attempts)
           /\ item # "deleted"

RiskCovered == Current => Sent < licence

LicenceInv ==
  "now" \notin OpenWindows /\ "overtaken" \notin lapses =>
    Sent <= licence /\ FreshCovered /\ RiskCovered

PInv ==
  TypeOK /\ TaskShape /\ DeletedHasNoAttempts /\ OpenedIsOpen /\ AboutExisting /\ LicenceInv

-----------------------------------------------------------------------------
(* Types.                                                                  *)

LEMMA IdleType == Idle \in Process
BY PublicationAssumption DEF Idle, Process, ItemStatus, PubStatus

LEMMA NoTaskType == NoTask \in TaskRow
BY PublicationAssumption DEF NoTask, TaskRow, Active

\* A set of attempt numbers has a latest one.
LEMMA LatestOf ==
  ASSUME TypeOK, FirstUnknown # 0
  PROVE  FirstUnknown \in {i \in DOMAIN attempts : attempts[i].status = "unknown"}
<1> DEFINE I == {i \in DOMAIN attempts : attempts[i].status = "unknown"}
<1>1. I \subseteq 1..MaxSends /\ MaxSends \in Nat
  BY PublicationAssumption DEF TypeOK
<1>2. I # {}
  BY DEF FirstUnknown
<1> DEFINE From(i) == {j \in I : i <= j}
<1> DEFINE Tails == {T \in SUBSET I : \E i \in I : T = From(i)}
<1> DEFINE Less == StrictSubsetOrdering(I)
<1>3. IsFiniteSet(I)
  <2> HIDE DEF I
  <2>1. IsFiniteSet(1..MaxSends)
    BY <1>1, FS_Interval
  <2> QED
    BY <1>1, <2>1, FS_Subset
<1>4. IsWellFoundedOn(Less, SUBSET I)
  BY <1>3, FS_StrictSubsetOrderingWellFounded, FS_FiniteSubsetsOfFinite
<1>5. Tails \subseteq SUBSET I /\ Tails # {}
  BY <1>2
<1>6. PICK T \in Tails : \A U \in Tails : <<U, T>> \notin Less
  <2> HIDE DEF Tails, Less
  <2> QED
    BY <1>4, <1>5, WFMin
<1>7. PICK i \in I : T = From(i)
  BY <1>6
<1>8. \A j \in I : j <= i
  <2> SUFFICES ASSUME NEW j \in I, i < j PROVE FALSE
    BY <1>1
  <2>1. From(j) \in Tails /\ From(j) \subseteq T
    BY <1>1, <1>7
  <2>2. i \in T /\ i \notin From(j)
    BY <1>1, <1>7
  <2>3. <<From(j), T>> \in Less
    BY <2>1, <2>2, <1>5, <1>6 DEF StrictSubsetOrdering
  <2> QED
    BY <1>6, <2>1, <2>3
<1>9. FirstUnknown = CHOOSE k \in I : \A j \in I : j <= k
  BY <1>2 DEF FirstUnknown
<1>10. (CHOOSE k \in I : \A j \in I : j <= k) \in I
  BY <1>8
<1> QED
  BY <1>9, <1>10

LEMMA FirstUnknownType ==
  ASSUME TypeOK
  PROVE  FirstUnknown \in 0..MaxSends
<1>1. DOMAIN attempts \subseteq 1..MaxSends /\ MaxSends \in Nat
  BY PublicationAssumption DEF TypeOK
<1>2. CASE FirstUnknown = 0
  BY <1>1, <1>2
<1>3. CASE FirstUnknown # 0
  BY <1>1, <1>3, LatestOf
<1> QED
  BY <1>2, <1>3

LEMMA RememberedType ==
  ASSUME TypeOK, NEW op \in Operations
  PROVE  Remembered(op) \in Process
<1>1. [Idle EXCEPT !.item = item, !.pub = pub] \in Process
  BY IdleType DEF TypeOK, Process
<1>2. [Idle EXCEPT !.mine = FirstUnknown] \in Process
  BY IdleType, FirstUnknownType DEF Process
<1> QED
  BY <1>1, <1>2, IdleType DEF Remembered

\* A function on 1..n is a sequence of length n.
LEMMA SequenceOf ==
  ASSUME NEW S, NEW n \in Nat, NEW f \in [1..n -> S]
  PROVE  f \in Seq(S) /\ Len(f) = n
<1>1. f \in Seq(S)
  BY SeqDef
<1> QED
  BY <1>1, LenProperties

\* An attempt that gets another outcome or is checked, if it exists.
LEMMA OutcomeType ==
  ASSUME TypeOK, NEW i, NEW s \in {"sending", "confirmed", "failed", "unknown"}
  PROVE  LET new == [attempts EXCEPT ![i].status = s]
         IN  new \in Seq(AttemptRow) /\ Len(new) = Len(attempts)
<1> DEFINE new == [attempts EXCEPT ![i].status = s]
<1>1. attempts \in Seq(AttemptRow)
  BY DEF TypeOK
<1>2. Len(attempts) \in Nat /\ attempts \in [1..Len(attempts) -> AttemptRow]
  BY <1>1, LenProperties
<1>3. ASSUME NEW r \in AttemptRow PROVE [r EXCEPT !.status = s] \in AttemptRow
  BY DEF AttemptRow
<1>4. new \in [1..Len(attempts) -> AttemptRow]
  BY <1>2, <1>3
<1> QED
  BY <1>2, <1>4, SequenceOf

LEMMA CheckedType ==
  ASSUME TypeOK, NEW i
  PROVE  LET new == [attempts EXCEPT ![i].checked = TRUE]
         IN  new \in Seq(AttemptRow) /\ Len(new) = Len(attempts)
<1> DEFINE new == [attempts EXCEPT ![i].checked = TRUE]
<1>1. attempts \in Seq(AttemptRow)
  BY DEF TypeOK
<1>2. Len(attempts) \in Nat /\ attempts \in [1..Len(attempts) -> AttemptRow]
  BY <1>1, LenProperties
<1>3. ASSUME NEW r \in AttemptRow PROVE [r EXCEPT !.checked = TRUE] \in AttemptRow
  BY DEF AttemptRow
<1>4. new \in [1..Len(attempts) -> AttemptRow]
  BY <1>2, <1>3
<1> QED
  BY <1>2, <1>4, SequenceOf

\* The end of a task under another state.
LEMMA EndType ==
  ASSUME TypeOK, NEW s \in {"pending", "running", "retry_wait", "succeeded", "failed",
                            "cancelled", "needs_review"}
  PROVE  /\ [task EXCEPT !.state = s, !.holder = NoActor] \in TaskRow
         /\ [task EXCEPT !.state = s] \in TaskRow
         /\ [task EXCEPT !.holder = NoActor] \in TaskRow
BY DEF TypeOK, TaskRow, Active

\* How many send, after a step of process a.
LEMMA SendersType ==
  Senders \subseteq Actors /\ IsFiniteSet(Senders) /\ Cardinality(Senders) \in Nat
<1>1. Senders \subseteq Actors /\ IsFiniteSet(Actors)
  BY PublicationAssumption DEF Senders
<1> QED
  BY <1>1, FS_Subset, FS_CardinalityType

LEMMA SendersMove ==
  ASSUME TypeOK, NEW a \in Actors, NEW x, actor' = [actor EXCEPT ![a] = x]
  PROVE  Cardinality(Senders') = Cardinality(Senders)
                                   + (IF x.phase \in {"sending", "awaiting"} THEN 1 ELSE 0)
                                   - (IF actor[a].phase \in {"sending", "awaiting"} THEN 1 ELSE 0)
<1>1. \A b \in Actors : actor'[b] = IF b = a THEN x ELSE actor[b]
  BY DEF TypeOK
<1>2. Cardinality(Senders) \in Nat /\ IsFiniteSet(Senders)
  BY SendersType
<1>3. CASE x.phase \in {"sending", "awaiting"} /\ actor[a].phase \notin {"sending", "awaiting"}
  <2>1. Senders' = Senders \cup {a} /\ a \notin Senders
    BY <1>1, <1>3 DEF Senders
  <2>2. Cardinality(Senders \cup {a}) = Cardinality(Senders) + 1
    BY <1>2, <2>1, FS_AddElement
  <2> QED
    BY <1>2, <1>3, <2>1, <2>2
<1>4. CASE x.phase \notin {"sending", "awaiting"} /\ actor[a].phase \in {"sending", "awaiting"}
  <2>1. Senders' = Senders \ {a} /\ a \in Senders
    BY <1>1, <1>4 DEF Senders
  <2>2. Cardinality(Senders \ {a}) = Cardinality(Senders) - 1
    BY <1>2, <2>1, FS_RemoveElement
  <2> QED
    BY <1>2, <1>4, <2>1, <2>2
<1>5. CASE x.phase \in {"sending", "awaiting"} <=> actor[a].phase \in {"sending", "awaiting"}
  <2>1. Senders' = Senders
    BY <1>1, <1>5 DEF Senders
  <2> QED
    BY <1>2, <1>5, <2>1
<1> QED
  BY <1>3, <1>4, <1>5

\* A request that writes leaves the senders alone.
LEMMA WritesQuietly ==
  ASSUME TypeOK, NEW op, NEW i, Writes(op, i)
  PROVE  /\ actor' \in [Actors -> Process] /\ item # "deleted"
         /\ OpenedIsOpen => OpenedIsOpen'
         /\ Cardinality(Senders') = Cardinality(Senders)
<1>1. CASE UNCHANGED actor
  BY <1>1 DEF TypeOK, Writes, Senders, OpenedIsOpen
<1>2. ASSUME NEW a \in Actors, actor[a].phase = "opened", actor' = [actor EXCEPT ![a] = Idle]
      PROVE  /\ actor' \in [Actors -> Process] /\ (OpenedIsOpen => OpenedIsOpen')
             /\ Cardinality(Senders') = Cardinality(Senders)
  <2>1. Idle.phase = "idle"
    BY DEF Idle
  <2>2. Cardinality(Senders') = Cardinality(Senders)
                                  + (IF Idle.phase \in {"sending", "awaiting"} THEN 1 ELSE 0)
                                  - (IF actor[a].phase \in {"sending", "awaiting"} THEN 1 ELSE 0)
    BY <1>2, SendersMove
  <2> QED
    BY <1>2, <2>1, <2>2, IdleType, SendersType DEF TypeOK, OpenedIsOpen
<1> QED
  BY <1>1, <1>2 DEF Writes

-----------------------------------------------------------------------------
(* What a step does to the rows, the task and the count of messages.       *)

\* The rows stay typed, attempts do not come or go unless the material does.
RowsMove ==
  /\ item' \in ItemStatus /\ used' \in BOOLEAN /\ pub' \in PubStatus
  /\ attempts' \in Seq(AttemptRow) /\ Len(attempts') <= MaxSends
  /\ item' # "deleted" => item # "deleted" /\ Len(attempts') = Len(attempts)
  /\ item' = "deleted" => attempts' = <<>>

\* No publication becomes one that may be sent without a further decision.
PubQuiet == pub' \in {"none", "failed"} /\ item' # "deleted" => pub \in {"none", "failed"}

\* The task goes on or ends, or is a new one about no attempt.
TaskMove ==
  /\ task' \in TaskRow /\ TaskShape'
  /\ \/ /\ task'.about = task.about /\ task'.retry = task.retry
        /\ task'.state \in Active => task.state \in Active
     \/ task'.retry = FALSE /\ task'.about = 0

Counted ==
  /\ actor' \in [Actors -> Process] /\ OpenedIsOpen'
  /\ posted' \in Nat /\ stray' \in Nat
  /\ lapses \subseteq lapses' /\ lapses' \subseteq Lapses

\* Most steps send nothing: they lose or deliver what is under way.
LEMMA QuietStep ==
  ASSUME PInv, RowsMove, TaskMove, Counted, licence' = licence,
         Sent' <= Sent, PubQuiet \/ Sent' < Sent
  PROVE  PInv'
<1>1. Sent \in Nat /\ licence \in Nat
  BY SendersType DEF PInv, TypeOK, Sent, Senders
<1>2. Sent' \in Nat
  <2>1. Cardinality(Senders') \in Nat
    <3>1. Senders' \subseteq Actors /\ IsFiniteSet(Actors)
      BY PublicationAssumption DEF Senders
    <3> QED
      BY <3>1, FS_Subset, FS_CardinalityType
  <2>2. Sent' = posted' + stray' + Cardinality(Senders')
    BY DEF Sent, Senders
  <2> QED
    BY <2>1, <2>2 DEF Counted
<1>3. TypeOK' /\ TaskShape' /\ DeletedHasNoAttempts' /\ OpenedIsOpen'
  BY DEF PInv, TypeOK, RowsMove, TaskMove, Counted, DeletedHasNoAttempts
<1>4. AboutExisting'
  <2>1. item # "deleted" => task.about <= Len(attempts)
    BY DEF PInv, AboutExisting
  <2>2. Len(attempts') \in Nat
    BY DEF RowsMove
  <2> QED
    BY <2>1, <2>2 DEF RowsMove, TaskMove, AboutExisting
<1>5. LicenceInv'
  <2> SUFFICES ASSUME "now" \notin OpenWindows, "overtaken" \notin lapses'
               PROVE  (Sent' <= licence' /\ FreshCovered' /\ RiskCovered')
    BY DEF LicenceInv
  <2>1. Sent <= licence /\ FreshCovered /\ RiskCovered
    BY DEF PInv, LicenceInv, Counted
  <2>2. Sent' <= licence'
    BY <1>1, <1>2, <2>1
  <2>3. FreshCovered'
    BY <1>1, <1>2, <2>1 DEF FreshCovered, PubQuiet, RowsMove
  <2>4. Current' => Current
    BY DEF Current, TaskMove, RowsMove
  <2>5. RiskCovered'
    BY <1>1, <1>2, <2>1, <2>4 DEF RiskCovered
  <2> QED
    BY <2>2, <2>3, <2>5
<1> QED
  BY <1>3, <1>4, <1>5 DEF PInv

LEMMA SameTask ==
  ASSUME PInv, task' = task
  PROVE  TaskMove
BY DEF PInv, TypeOK, TaskMove, TaskShape

LEMMA SameRows ==
  ASSUME PInv, UNCHANGED rows
  PROVE  RowsMove /\ PubQuiet
BY DEF PInv, TypeOK, rows, RowsMove, PubQuiet, DeletedHasNoAttempts

LEMMA EndedTask ==
  ASSUME PInv, NEW s, TaskEnds(s),
         \/ s \in {"succeeded", "failed", "needs_review"}
         \/ s = RetryOrFail /\ task.state = "running"
  PROVE  TaskMove
<1>1. s \in {"succeeded", "failed", "needs_review", "retry_wait"}
      /\ (s = "retry_wait" => ~(task.tries >= MaxAttempts) /\ task.state = "running")
  BY DEF RetryOrFail
<1>2. task \in TaskRow
  BY DEF PInv, TypeOK
<1>3. task' \in TaskRow
  BY <1>1, EndType DEF PInv, TaskEnds
<1>4. /\ task'.state = s /\ task'.holder = NoActor
      /\ task'.about = task.about /\ task'.retry = task.retry /\ task'.tries = task.tries
  BY <1>2 DEF TaskEnds, TaskRow
<1>5. task.tries \in Nat /\ MaxAttempts \in Nat
  BY <1>2, PublicationAssumption DEF TaskRow
<1>6. TaskShape'
  BY <1>1, <1>4, <1>5 DEF TaskShape
<1> QED
  BY <1>1, <1>3, <1>4, <1>6 DEF TaskMove, Active

LEMMA MarkUnknownRows ==
  ASSUME PInv, MarkUnknown
  PROVE  RowsMove /\ PubQuiet
<1>1. CASE Reached = "sending"
  <2>1. task.latest \in DOMAIN attempts
    BY <1>1 DEF Reached
  <2>2. item # "deleted"
    BY <2>1 DEF PInv, DeletedHasNoAttempts
  <2>3. attempts' = [attempts EXCEPT ![task.latest].status = "unknown"]
    BY <1>1 DEF MarkUnknown
  <2>4. attempts' \in Seq(AttemptRow) /\ Len(attempts') = Len(attempts)
    BY <2>3, OutcomeType DEF PInv
  <2>5. /\ pub' \in {pub, "unknown"} /\ item' \in {item, "publication_unknown"}
        /\ used' = FALSE
    BY <1>1 DEF MarkUnknown
  <2> QED
    BY <2>2, <2>4, <2>5 DEF PInv, TypeOK, RowsMove, PubQuiet, PubStatus, ItemStatus
<1>2. CASE Reached # "sending"
  BY <1>2, SameRows DEF MarkUnknown
<1> QED
  BY <1>1, <1>2

LEMMA PublishRows ==
  ASSUME PInv, NEW i, Publish(i), item # "deleted"
  PROVE  RowsMove /\ PubQuiet
<1>1. attempts' \in Seq(AttemptRow) /\ Len(attempts') = Len(attempts)
  BY OutcomeType DEF PInv, Publish
<1> QED
  BY <1>1 DEF PInv, TypeOK, Publish, RowsMove, PubQuiet, PubStatus, ItemStatus

\* A process that goes from one phase to another.
LEMMA ActorMove ==
  ASSUME PInv, NEW a \in Actors, NEW x \in Process, actor' = [actor EXCEPT ![a] = x]
  PROVE  /\ actor' \in [Actors -> Process]
         /\ posted \in Nat /\ stray \in Nat /\ Cardinality(Senders) \in Nat
         /\ Sent = posted + stray + Cardinality(Senders)
         /\ posted' \in Nat /\ stray' \in Nat =>
              Sent' = posted' + stray' + Cardinality(Senders)
                        + (IF x.phase \in {"sending", "awaiting"} THEN 1 ELSE 0)
                        - (IF actor[a].phase \in {"sending", "awaiting"} THEN 1 ELSE 0)
<1> DEFINE up == IF x.phase \in {"sending", "awaiting"} THEN 1 ELSE 0
<1> DEFINE down == IF actor[a].phase \in {"sending", "awaiting"} THEN 1 ELSE 0
<1>1. /\ actor' \in [Actors -> Process] /\ posted \in Nat /\ stray \in Nat
      /\ Cardinality(Senders) \in Nat
  BY SendersType DEF PInv, TypeOK
<1>2. Sent = posted + stray + Cardinality(Senders)
  BY DEF Sent, Senders
<1>3. Sent' = posted' + stray' + Cardinality(Senders')
  BY DEF Sent, Senders
<1>4. Cardinality(Senders') = Cardinality(Senders) + up - down
  BY SendersMove DEF PInv
<1>5. up \in Int /\ down \in Int
  OBVIOUS
<1>6. posted' \in Nat /\ stray' \in Nat =>
        Sent' = posted' + stray' + Cardinality(Senders) + up - down
  <2> HIDE DEF up, down
  <2> QED
    BY <1>1, <1>3, <1>4, <1>5
<1> QED
  BY <1>1, <1>2, <1>6

LEMMA SameActors ==
  ASSUME PInv, actor' = actor, posted' = posted, stray' = stray, lapses' = lapses
  PROVE  Counted /\ Sent' = Sent /\ Sent \in Nat
BY SendersType DEF PInv, TypeOK, Counted, Sent, Senders, OpenedIsOpen

\* A process that takes up or drops something without sending, and leaves no request.
LEMMA QuietActor ==
  ASSUME PInv, NEW a \in Actors, NEW x \in Process, actor' = [actor EXCEPT ![a] = x],
         x.phase \notin {"sending", "awaiting"},
         x.phase = "opened" => x.op \in OpenWindows,
         posted' = posted, stray' = stray, lapses' = lapses
  PROVE  Counted /\ Sent' <= Sent
<1>1. /\ posted \in Nat /\ stray \in Nat /\ Cardinality(Senders) \in Nat
      /\ Sent = posted + stray + Cardinality(Senders)
  BY ActorMove
<1>2. Sent' = posted + stray + Cardinality(Senders)
                + 0 - (IF actor[a].phase \in {"sending", "awaiting"} THEN 1 ELSE 0)
  BY <1>1, ActorMove
<1>3. Sent' <= Sent
  BY <1>1, <1>2
<1> QED
  BY <1>1, <1>3, ActorMove DEF PInv, TypeOK, Counted, OpenedIsOpen

LEMMA WritesCounted ==
  ASSUME PInv, NEW op, NEW i, Writes(op, i), posted' = posted, stray' = stray,
         lapses \subseteq lapses', lapses' \subseteq Lapses
  PROVE  Counted /\ Sent' = Sent /\ Sent \in Nat /\ item # "deleted"
<1>1. /\ actor' \in [Actors -> Process] /\ item # "deleted" /\ OpenedIsOpen'
      /\ Cardinality(Senders') = Cardinality(Senders) /\ Cardinality(Senders) \in Nat
  BY WritesQuietly, SendersType DEF PInv
<1>2. Sent = posted + stray + Cardinality(Senders)
      /\ Sent' = posted' + stray' + Cardinality(Senders')
  BY DEF Sent, Senders
<1> QED
  BY <1>1, <1>2 DEF PInv, TypeOK, Counted

-----------------------------------------------------------------------------
(* Every action.                                                           *)

LEMMA EditorSteps ==
  ASSUME PInv, Approve \/ Reopen \/ Schedule \/ Delete
  PROVE  PInv'
<1>1. PICK op \in Operations : \E i \in 0..MaxSends : Writes(op, i)
  BY DEF Approve, Reopen, Schedule, SetStatus, Delete, Operations
<1>2. /\ used' = FALSE
      /\ UNCHANGED <<task, stray, posted, licence, lapses>>
      /\ \/ item' \in {"approved", "in_work", "scheduled"} /\ UNCHANGED <<pub, attempts>>
         \/ item' = "deleted" /\ pub' = "none" /\ attempts' = <<>>
  BY DEF Approve, Reopen, Schedule, SetStatus, Delete
<1>3. Counted /\ Sent' = Sent /\ Sent \in Nat /\ item # "deleted"
  BY <1>1, <1>2, WritesCounted DEF PInv, TypeOK
<1>4. RowsMove /\ PubQuiet
  <2>1. CASE item' \in {"approved", "in_work", "scheduled"} /\ UNCHANGED <<pub, attempts>>
    BY <1>2, <1>3, <2>1 DEF PInv, TypeOK, RowsMove, PubQuiet, ItemStatus
  <2>2. CASE item' = "deleted" /\ pub' = "none" /\ attempts' = <<>>
    <3>1. <<>> \in Seq(AttemptRow) /\ Len(<<>>) <= MaxSends
      BY PublicationAssumption
    <3> QED
      BY <1>2, <2>2, <3>1 DEF RowsMove, PubQuiet, ItemStatus, PubStatus
  <2> QED
    BY <1>2, <2>1, <2>2
<1> QED
  BY <1>2, <1>3, <1>4, SameTask, QuietStep

LEMMA OutcomeSteps ==
  ASSUME PInv, CheckPublication \/ MarkPublished
  PROVE  PInv'
<1>1. PICK op \in Operations, i \in 1..MaxSends :
        /\ Writes(op, i)
        /\ \/ Publish(i)
           \/ /\ attempts' = [attempts EXCEPT ![i].checked = TRUE]
              /\ UNCHANGED <<pub, item, used>>
  BY DEF CheckPublication, MarkPublished, Operations
<1>2. /\ UNCHANGED <<task, stray, posted, licence>>
      /\ lapses \subseteq lapses' /\ lapses' \subseteq Lapses
  BY DEF CheckPublication, MarkPublished, Lapse, Lapses, PInv, TypeOK
<1>3. Counted /\ Sent' = Sent /\ Sent \in Nat /\ item # "deleted"
  BY <1>1, <1>2, WritesCounted
<1>4. RowsMove /\ PubQuiet
  <2>1. CASE Publish(i)
    BY <1>3, <2>1, PublishRows
  <2>2. CASE attempts' = [attempts EXCEPT ![i].checked = TRUE] /\ UNCHANGED <<pub, item, used>>
    <3>1. attempts' \in Seq(AttemptRow) /\ Len(attempts') = Len(attempts)
      BY <2>2, CheckedType DEF PInv
    <3> QED
      BY <1>3, <2>2, <3>1 DEF PInv, TypeOK, RowsMove, PubQuiet
  <2> QED
    BY <1>1, <2>1, <2>2
<1> QED
  BY <1>2, <1>3, <1>4, SameTask, QuietStep

\* An editor who returns a material to work licenses one message more.
LEMMA ReturnStep ==
  ASSUME PInv, ReturnToWork
  PROVE  PInv'
<1>1. PICK i \in 1..MaxSends : Writes("return", i)
  BY DEF ReturnToWork
<1>2. /\ pub' = "failed" /\ item' = "in_work" /\ used' = FALSE /\ licence' = Sent + 1
      /\ UNCHANGED <<attempts, task, stray, posted>>
      /\ lapses \subseteq lapses' /\ lapses' \subseteq Lapses
  BY DEF ReturnToWork, Lapse, Lapses, PInv, TypeOK
<1>3. Counted /\ Sent' = Sent /\ Sent \in Nat /\ item # "deleted"
  BY <1>1, <1>2, WritesCounted
<1>4. TypeOK' /\ TaskShape' /\ DeletedHasNoAttempts' /\ OpenedIsOpen' /\ AboutExisting'
  <2>1. TypeOK'
    <3>1. pub' \in PubStatus /\ item' \in ItemStatus /\ used' \in BOOLEAN
      BY <1>2 DEF PubStatus, ItemStatus
    <3>2. licence' \in Nat
      BY <1>2, <1>3
    <3>3. /\ task' = task /\ attempts' = attempts
          /\ actor' \in [Actors -> Process] /\ stray' \in Nat /\ posted' \in Nat
          /\ lapses' \subseteq Lapses
      BY <1>2, <1>3 DEF Counted
    <3> QED
      BY <3>1, <3>2, <3>3 DEF PInv, TypeOK
  <2>2. TaskShape' /\ DeletedHasNoAttempts' /\ AboutExisting'
    BY <1>2, <1>3 DEF PInv, TaskShape, DeletedHasNoAttempts, AboutExisting
  <2> QED
    BY <1>3, <2>1, <2>2 DEF Counted
<1>5. LicenceInv'
  BY <1>2, <1>3 DEF LicenceInv, FreshCovered, RiskCovered
<1> QED
  BY <1>4, <1>5 DEF PInv

LEMMA NewTaskFacts ==
  ASSUME PInv, NEW retry \in BOOLEAN, NewTask(retry)
  PROVE  /\ task' \in TaskRow /\ TaskShape'
         /\ task'.retry = retry /\ task'.about = IF retry THEN Len(attempts) ELSE 0
         /\ RowsMove /\ PubQuiet
<1>1. Len(attempts) \in 0..MaxSends /\ 0 \in 0..MaxAttempts /\ 0 \in 0..MaxSends
  BY PublicationAssumption DEF PInv, TypeOK
<1>2. task' \in TaskRow
  BY <1>1 DEF NewTask, TaskRow, Active
<1>3. TaskShape'
  BY DEF NewTask, TaskShape
<1>4. RowsMove /\ PubQuiet
  BY DEF NewTask, RowsMove, PubQuiet, PInv, TypeOK, DeletedHasNoAttempts
<1> QED
  BY <1>2, <1>3, <1>4 DEF NewTask

LEMMA SubmitSteps ==
  ASSUME PInv, SubmitPublication \/ EnqueueDue
  PROVE  PInv'
<1>1. NewTask(FALSE) /\ UNCHANGED <<actor, posted, stray, licence, lapses>>
  BY DEF SubmitPublication, EnqueueDue, NewTask
<1>2. TaskMove /\ RowsMove /\ PubQuiet
  BY <1>1, NewTaskFacts DEF TaskMove
<1>3. Counted /\ Sent' = Sent /\ Sent \in Nat
  BY <1>1, SameActors
<1> QED
  BY <1>1, <1>2, <1>3, QuietStep

\* A retry task licenses one message more, about the latest attempt.
LEMMA SubmitRetryStep ==
  ASSUME PInv, SubmitRetry
  PROVE  PInv'
<1>1. /\ NewTask(TRUE) /\ licence' = Sent + 1 /\ pub = "unknown"
      /\ UNCHANGED <<item, pub, attempts, actor, posted, stray, lapses>>
  BY DEF SubmitRetry, NewTask
<1>2. /\ task' \in TaskRow /\ TaskShape' /\ task'.about = Len(attempts) /\ RowsMove
  BY <1>1, NewTaskFacts
<1>3. Counted /\ Sent' = Sent /\ Sent \in Nat
  BY <1>1, SameActors
<1>4. TypeOK' /\ TaskShape' /\ DeletedHasNoAttempts' /\ OpenedIsOpen' /\ AboutExisting'
  BY <1>1, <1>2, <1>3 DEF PInv, TypeOK, RowsMove, Counted, DeletedHasNoAttempts, AboutExisting
<1>5. LicenceInv'
  BY <1>1, <1>3 DEF LicenceInv, FreshCovered, RiskCovered
<1> QED
  BY <1>4, <1>5 DEF PInv

\* The task table.
LEMMA TableSteps ==
  ASSUME PInv, CancelTask \/ LeaseEnds
  PROVE  PInv'
<1>1. UNCHANGED <<rows, actor, stray, posted, licence, lapses>>
  BY DEF CancelTask, LeaseEnds
<1>2. task \in TaskRow /\ TaskShape
  BY DEF PInv, TypeOK
<1>3. TaskMove
  <2>1. CASE CancelTask
    <3>1. task' = [task EXCEPT !.state = "cancelled"]
      BY <2>1 DEF CancelTask
    <3>2. /\ task'.state = "cancelled" /\ task'.holder = task.holder
          /\ task'.about = task.about /\ task'.retry = task.retry
      BY <1>2, <3>1 DEF TaskRow
    <3>3. task.holder = NoActor
      BY <1>2, <2>1 DEF CancelTask, TaskShape
    <3>4. task' \in TaskRow
      BY <3>1, EndType DEF PInv
    <3> QED
      BY <3>2, <3>3, <3>4 DEF TaskMove, TaskShape, Active
  <2>2. CASE LeaseEnds
    <3>1. task' = [task EXCEPT !.holder = NoActor]
      BY <2>2 DEF LeaseEnds
    <3>2. /\ task'.state = "running" /\ task'.holder = NoActor
          /\ task'.about = task.about /\ task'.retry = task.retry
      BY <1>2, <2>2, <3>1 DEF TaskRow, LeaseEnds
    <3>3. task' \in TaskRow
      BY <3>1, EndType DEF PInv
    <3> QED
      BY <2>2, <3>2, <3>3 DEF TaskMove, TaskShape, Active, LeaseEnds
  <2> QED
    BY <2>1, <2>2
<1>4. Counted /\ Sent' = Sent /\ Sent \in Nat /\ RowsMove /\ PubQuiet
  BY <1>1, SameActors, SameRows
<1> QED
  BY <1>1, <1>3, <1>4, QuietStep

LEMMA ClaimStep ==
  ASSUME PInv, NEW a \in Actors, Claim(a)
  PROVE  PInv'
<1> DEFINE x == [Idle EXCEPT !.phase = "claimed", !.op = "task"]
<1>1. /\ UNCHANGED <<rows, stray, posted, licence, lapses>>
      /\ actor' = [actor EXCEPT ![a] = x]
  BY DEF Claim
<1>2. x \in Process /\ x.phase = "claimed"
  BY IdleType DEF Idle, Process
<1>3. Counted /\ Sent' <= Sent
  <2> HIDE DEF x
  <2> QED
    BY <1>1, <1>2, QuietActor
<1>4. TaskMove
  <2>1. task \in TaskRow /\ TaskShape /\ task.tries + 1 \in 0..MaxAttempts
    BY PublicationAssumption DEF PInv, TypeOK, TaskRow, TaskShape, Claim
  <2>2. task' = [state |-> "running", retry |-> task.retry, tries |-> task.tries + 1,
                 holder |-> a, latest |-> task.latest, about |-> task.about]
    BY DEF Claim
  <2>3. task' \in TaskRow
    BY <2>1, <2>2 DEF TaskRow, Active
  <2> QED
    BY <2>2, <2>3 DEF TaskMove, TaskShape, Claim, Active
<1> QED
  BY <1>1, <1>3, <1>4, SameRows, QuietStep

LEMMA RecoverStep ==
  ASSUME PInv, RecoverExpired
  PROVE  PInv'
<1>1. /\ UNCHANGED <<actor, stray, posted, licence, lapses>>
      /\ MarkUnknown /\ task.state = "running"
      /\ \E s \in {RetryOrFail, "succeeded", "failed", "needs_review"} : TaskEnds(s)
  BY DEF RecoverExpired
<1>2. TaskMove
  BY <1>1, EndedTask
<1>3. Counted /\ Sent' = Sent /\ Sent \in Nat /\ RowsMove /\ PubQuiet
  BY <1>1, SameActors, MarkUnknownRows
<1> QED
  BY <1>1, <1>2, <1>3, QuietStep

\* Requests that load, and processes that stop, without touching rows and task.
LEMMA LoadSteps ==
  ASSUME PInv, NEW a \in Actors, Close(a) \/ \E op \in Operations : Open(a, op)
  PROVE  PInv'
<1>1. UNCHANGED <<rows, task, stray, posted, licence, lapses>>
  BY DEF Open, Close
<1>2. PICK x \in Process : /\ actor' = [actor EXCEPT ![a] = x]
                           /\ x.phase \in {"idle", "opened"}
                           /\ x.phase = "opened" => x.op \in OpenWindows
  <2>1. CASE Close(a)
    <3>1. Idle.phase = "idle"
      BY DEF Idle
    <3> QED
      BY <2>1, <3>1, IdleType DEF Close
  <2>2. ASSUME NEW op \in Operations, Open(a, op)
        PROVE  \E x \in Process : /\ actor' = [actor EXCEPT ![a] = x]
                                  /\ x.phase \in {"idle", "opened"}
                                  /\ x.phase = "opened" => x.op \in OpenWindows
    <3> DEFINE x == [Remembered(op) EXCEPT !.phase = "opened", !.op = op]
    <3>1. Remembered(op) \in Process
      BY RememberedType DEF PInv
    <3>2. x \in Process /\ x.phase = "opened" /\ x.op = op
      BY <3>1 DEF Process
    <3>3. actor' = [actor EXCEPT ![a] = x] /\ op \in OpenWindows
      BY <2>2 DEF Open
    <3> QED
      BY <3>2, <3>3
  <2> QED
    BY <2>1, <2>2
<1>3. Counted /\ Sent' <= Sent
  BY <1>1, <1>2, QuietActor
<1> QED
  BY <1>1, <1>3, SameRows, SameTask, QuietStep

\* The handler ends, or its worker writes the end of it, without a message.
LEMMA HandlerEnds ==
  ASSUME PInv, NEW a \in Actors, TaskRefuses(a) \/ AlreadyPublished(a) \/ FinishTask(a)
  PROVE  PInv'
<1>1. actor' = [actor EXCEPT ![a] = Idle] /\ UNCHANGED <<stray, posted, licence, lapses>>
  BY DEF TaskRefuses, AlreadyPublished, FinishTask
<1>2. Idle \in Process /\ Idle.phase = "idle"
  BY IdleType DEF Idle
<1>3. Counted /\ Sent' <= Sent
  BY <1>1, <1>2, QuietActor
<1>4. MarkUnknown \/ UNCHANGED rows
  BY DEF TaskRefuses, AlreadyPublished, FinishTask
<1>5. \/ UNCHANGED task
      \/ \E s \in {"succeeded", "failed", "needs_review"} : TaskEnds(s)
      \/ TaskEnds(RetryOrFail) /\ task.state = "running"
  BY PublicationAssumption
  DEF TaskRefuses, AlreadyPublished, FinishTask, PInv, TaskShape
<1>6. TaskMove
  BY <1>5, EndedTask, SameTask
<1>7. RowsMove /\ PubQuiet
  BY <1>4, MarkUnknownRows, SameRows
<1> QED
  BY <1>1, <1>3, <1>6, <1>7, QuietStep

\* The request goes out, and MAX posts it: the message was counted already.
LEMMA WireSteps ==
  ASSUME PInv, (\E a \in Actors : SendOut(a) \/ Lands(a)) \/ StrayLands
  PROVE  PInv'
<1>1. UNCHANGED <<rows, task, licence, lapses>>
  BY DEF SendOut, Lands, StrayLands
<1>2. ASSUME NEW a \in Actors, NEW p \in {"awaiting", "landed"},
             actor' = [actor EXCEPT ![a].phase = p], stray' = stray,
             \/ actor[a].phase = "sending" /\ p = "awaiting" /\ posted' = posted
             \/ actor[a].phase = "awaiting" /\ p = "landed" /\ posted' = posted + 1
      PROVE  Counted /\ Sent' <= Sent
  <2> DEFINE x == [actor[a] EXCEPT !.phase = p]
  <2>1. actor[a] \in Process
    BY DEF PInv, TypeOK
  <2>2. x \in Process /\ x.phase = p
    BY <2>1 DEF Process
  <2>3. actor' = [actor EXCEPT ![a] = x]
    BY <1>2
  <2> HIDE DEF x
  <2>4. /\ actor' \in [Actors -> Process]
        /\ posted \in Nat /\ stray \in Nat /\ Cardinality(Senders) \in Nat
        /\ Sent = posted + stray + Cardinality(Senders)
    BY <2>2, <2>3, ActorMove
  <2>5. posted' \in Nat /\ stray' \in Nat
    BY <1>2, <2>4
  <2>6. Sent' = posted' + stray' + Cardinality(Senders)
                  + (IF x.phase \in {"sending", "awaiting"} THEN 1 ELSE 0)
                  - (IF actor[a].phase \in {"sending", "awaiting"} THEN 1 ELSE 0)
    BY <2>2, <2>3, <2>5, ActorMove
  <2>7. Sent' <= Sent
    BY <1>2, <2>2, <2>4, <2>5, <2>6
  <2>8. OpenedIsOpen'
    BY <2>2, <2>3 DEF PInv, TypeOK, OpenedIsOpen
  <2> QED
    BY <1>1, <2>4, <2>5, <2>7, <2>8 DEF PInv, TypeOK, Counted
<1>3. ASSUME StrayLands
      PROVE  Counted /\ Sent' <= Sent
  <2>1. /\ posted' \in Nat /\ stray' \in Nat /\ posted' + stray' = posted + stray
        /\ actor' = actor
    BY <1>3 DEF StrayLands, PInv, TypeOK
  <2>2. Counted
    BY <1>1, <2>1 DEF PInv, TypeOK, Counted, OpenedIsOpen
  <2>3. Sent' <= Sent
    <3>1. Senders' = Senders /\ Cardinality(Senders) \in Nat
      BY <2>1, SendersType DEF Senders
    <3>2. Sent = posted + stray + Cardinality(Senders)
          /\ Sent' = posted' + stray' + Cardinality(Senders')
      BY DEF Sent, Senders
    <3>3. posted \in Nat /\ stray \in Nat
      BY DEF PInv, TypeOK
    <3>4. Sent' = posted' + stray' + Cardinality(Senders)
      BY <3>1, <3>2
    <3>5. posted' + stray' + Cardinality(Senders) = posted + stray + Cardinality(Senders)
      BY <2>1
    <3>6. Sent' = Sent /\ Sent \in Nat
      BY <3>1, <3>2, <3>3, <3>4, <3>5
    <3> QED
      BY <3>6
  <2> QED
    BY <2>2, <2>3
<1>4. Counted /\ Sent' <= Sent
  <2>1. ASSUME NEW a \in Actors, SendOut(a)
        PROVE  Counted /\ Sent' <= Sent
    BY <1>2, <2>1 DEF SendOut
  <2>2. ASSUME NEW a \in Actors, Lands(a)
        PROVE  Counted /\ Sent' <= Sent
    BY <1>2, <2>2 DEF Lands
  <2> QED
    BY <1>3, <2>1, <2>2
<1> QED
  BY <1>1, <1>4, SameRows, SameTask, QuietStep

\* A sender whose message is lost to it: the request it leaves behind is counted.
LEMMA SenderStops ==
  ASSUME PInv, NEW a \in Actors, NEW x \in Process, actor' = [actor EXCEPT ![a] = x],
         x.phase \in {"idle", "raised"},
         posted' = posted, lapses \subseteq lapses', lapses' \subseteq Lapses,
         stray' = IF actor[a].phase = "awaiting" THEN stray + 1 ELSE stray
  PROVE  Counted /\ Sent' <= Sent
<1>1. /\ actor' \in [Actors -> Process]
      /\ posted \in Nat /\ stray \in Nat /\ Cardinality(Senders) \in Nat
      /\ Sent = posted + stray + Cardinality(Senders)
  BY ActorMove
<1>2. posted' \in Nat /\ stray' \in Nat
  BY <1>1
<1>3. Sent' = posted' + stray' + Cardinality(Senders)
                + (IF x.phase \in {"sending", "awaiting"} THEN 1 ELSE 0)
                - (IF actor[a].phase \in {"sending", "awaiting"} THEN 1 ELSE 0)
  BY <1>2, ActorMove
<1>4. Sent' <= Sent
  BY <1>1, <1>2, <1>3
<1>5. OpenedIsOpen'
  BY DEF PInv, TypeOK, OpenedIsOpen
<1> QED
  BY <1>1, <1>2, <1>4, <1>5 DEF Counted

\* A failure that is written whoever holds the task.
LEMMA FailureWritten ==
  ASSUME PInv, NEW a \in Actors, NEW s \in {"failed", "unknown"}, NEW retryable \in BOOLEAN,
         WriteFailure(a, s, retryable)
  PROVE  /\ RowsMove /\ TaskMove /\ licence' = licence /\ posted' = posted
         /\ lapses \subseteq lapses' /\ lapses' \subseteq Lapses
         /\ s = "unknown" => PubQuiet
         /\ \E x \in Process : x.phase \in {"idle", "raised"} /\ actor' = [actor EXCEPT ![a] = x]
<1>1. task' = task /\ licence' = licence /\ posted' = posted
  BY DEF WriteFailure
<1>2. lapses \subseteq lapses' /\ lapses' \subseteq Lapses
  BY DEF WriteFailure, Lapses, PInv, TypeOK
<1>3. RowsMove /\ (s = "unknown" => PubQuiet)
  <2>1. CASE item = "deleted"
    BY <2>1, SameRows DEF WriteFailure
  <2>2. CASE item # "deleted"
    <3>1. attempts' = [attempts EXCEPT ![actor[a].mine].status = s]
      BY <2>2 DEF WriteFailure
    <3>2. attempts' \in Seq(AttemptRow) /\ Len(attempts') = Len(attempts)
      BY <3>1, OutcomeType DEF PInv
    <3>3. pub' = s /\ item' \in {item, "publication_unknown", "failed"} /\ used' \in BOOLEAN
      BY <2>2 DEF WriteFailure
    <3> QED
      BY <2>2, <3>2, <3>3 DEF PInv, TypeOK, RowsMove, PubQuiet, PubStatus, ItemStatus
  <2> QED
    BY <2>1, <2>2
<1>4. \E x \in Process : x.phase \in {"idle", "raised"} /\ actor' = [actor EXCEPT ![a] = x]
  <2> DEFINE y(p) == [phase |-> "raised", op |-> "task", item |-> "in_work", pub |-> p,
                      mine |-> 0, retryable |-> retryable]
  <2>1. PICK p \in {"unknown", "failed"} :
          actor' = [actor EXCEPT ![a] = y(p)] \/ actor' = [actor EXCEPT ![a] = Idle]
    BY DEF WriteFailure
  <2>2. y(p) \in Process /\ y(p).phase = "raised"
    BY PublicationAssumption DEF Process, ItemStatus, PubStatus
  <2>3. Idle \in Process /\ Idle.phase = "idle"
    BY IdleType DEF Idle
  <2> QED
    BY <2>1, <2>2, <2>3
<1> QED
  BY <1>1, <1>2, <1>3, <1>4, SameTask

\* A message that certainly is not in the channel was licensed for another one.
LEMMA RejectedStep ==
  ASSUME PInv, NEW a \in Actors, Rejected(a)
  PROVE  PInv'
<1>1. PICK retryable \in BOOLEAN : WriteFailure(a, "failed", retryable)
  BY DEF Rejected, IsTask
<1>2. PICK x \in Process : x.phase \in {"idle", "raised"} /\ actor' = [actor EXCEPT ![a] = x]
  BY <1>1, FailureWritten
<1>3. /\ RowsMove /\ TaskMove /\ licence' = licence /\ posted' = posted /\ stray' = stray
      /\ lapses \subseteq lapses' /\ lapses' \subseteq Lapses
  BY <1>1, FailureWritten DEF Rejected
<1>4. /\ actor' \in [Actors -> Process]
      /\ posted \in Nat /\ stray \in Nat /\ Cardinality(Senders) \in Nat
      /\ Sent = posted + stray + Cardinality(Senders)
  BY <1>2, ActorMove
<1>5. Sent' = posted' + stray' + Cardinality(Senders)
                + (IF x.phase \in {"sending", "awaiting"} THEN 1 ELSE 0)
                - (IF actor[a].phase \in {"sending", "awaiting"} THEN 1 ELSE 0)
  BY <1>2, <1>3, <1>4, ActorMove
<1>6. Sent' < Sent /\ Sent' <= Sent
  BY <1>2, <1>3, <1>4, <1>5 DEF Rejected
<1>7. OpenedIsOpen'
  BY <1>2 DEF PInv, TypeOK, OpenedIsOpen
<1>8. Counted
  BY <1>3, <1>4, <1>7 DEF Counted
<1> QED
  BY <1>3, <1>6, <1>8, QuietStep

LEMMA UncertainStep ==
  ASSUME PInv, NEW a \in Actors, Uncertain(a)
  PROVE  PInv'
<1>1. WriteFailure(a, "unknown", FALSE)
      /\ stray' = IF actor[a].phase = "awaiting" THEN stray + 1 ELSE stray
  BY DEF Uncertain
<1>2. PICK x \in Process : x.phase \in {"idle", "raised"} /\ actor' = [actor EXCEPT ![a] = x]
  BY <1>1, FailureWritten
<1>3. /\ RowsMove /\ TaskMove /\ licence' = licence /\ posted' = posted /\ PubQuiet
      /\ lapses \subseteq lapses' /\ lapses' \subseteq Lapses
  BY <1>1, FailureWritten
<1>4. Counted /\ Sent' <= Sent
  BY <1>1, <1>2, <1>3, SenderStops
<1> QED
  BY <1>3, <1>4, QuietStep

LEMMA LeaveStep ==
  ASSUME PInv, NEW a \in Actors, Leave(a)
  PROVE  PInv'
<1>1. /\ stray' = IF actor[a].phase = "awaiting" THEN stray + 1 ELSE stray
      /\ actor' = [actor EXCEPT ![a] = Idle]
      /\ UNCHANGED <<posted, licence, lapses>>
      /\ UNCHANGED <<rows, task>> \/ (TaskEnds("needs_review") /\ MarkUnknown)
  BY DEF Leave
<1>2. Idle \in Process /\ Idle.phase = "idle"
  BY IdleType DEF Idle
<1>3. Counted /\ Sent' <= Sent
  BY <1>1, <1>2, SenderStops DEF PInv, TypeOK
<1>4. TaskMove /\ RowsMove /\ PubQuiet
  BY <1>1, EndedTask, SameTask, SameRows, MarkUnknownRows DEF rows
<1> QED
  BY <1>1, <1>3, <1>4, QuietStep

LEMMA ConfirmStep ==
  ASSUME PInv, NEW a \in Actors, Confirm(a)
  PROVE  PInv'
<1>1. /\ actor' = [actor EXCEPT ![a] = Idle] /\ UNCHANGED <<stray, posted, licence, lapses>>
      /\ UNCHANGED rows \/ (Publish(actor[a].mine) /\ item # "deleted")
      /\ UNCHANGED task \/ TaskEnds("succeeded") \/ TaskEnds("needs_review")
  BY DEF Confirm, rows
<1>2. Idle \in Process /\ Idle.phase = "idle"
  BY IdleType DEF Idle
<1>3. Counted /\ Sent' <= Sent
  BY <1>1, <1>2, QuietActor
<1>4. TaskMove /\ RowsMove /\ PubQuiet
  BY <1>1, EndedTask, SameTask, SameRows, PublishRows
<1> QED
  BY <1>1, <1>3, <1>4, QuietStep

-----------------------------------------------------------------------------
(* The reservation, the only step that adds a message.                     *)

LEMMA ReserveFacts ==
  ASSUME PInv, NEW a \in Actors, NEW op \in {"now", "retry", "due", "task"},
         NEW seen \in ItemStatus, Reserve(a, op, seen),
         actor[a].phase \in {"idle", "opened", "claimed"}
  PROVE  /\ UNCHANGED <<item, used, stray, posted>> /\ pub' = "publishing"
         /\ attempts' \in Seq(AttemptRow)
         /\ Len(attempts') = Len(attempts) + 1 /\ Len(attempts') <= MaxSends
         /\ actor' \in [Actors -> Process] /\ OpenedIsOpen'
         /\ Sent \in Nat /\ Sent' = Sent + 1
<1> DEFINE x == [phase |-> "sending", op |-> op, item |-> seen, pub |-> "none",
                 mine |-> Len(attempts) + 1, retryable |-> FALSE]
<1>1. /\ UNCHANGED <<item, used, stray, posted>> /\ pub' = "publishing"
      /\ attempts' = Append(attempts, [status |-> "sending", checked |-> FALSE])
      /\ Len(attempts) < MaxSends /\ actor' = [actor EXCEPT ![a] = x]
  BY DEF Reserve
<1>2. [status |-> "sending", checked |-> FALSE] \in AttemptRow
  BY DEF AttemptRow
<1>3. attempts \in Seq(AttemptRow) /\ Len(attempts) \in Nat /\ MaxSends \in Nat
  BY PublicationAssumption DEF PInv, TypeOK
<1>4. /\ attempts' \in Seq(AttemptRow)
      /\ Len(attempts') = Len(attempts) + 1 /\ Len(attempts') <= MaxSends
  BY <1>1, <1>2, <1>3
<1>5. x \in Process /\ x.phase = "sending"
  BY <1>1, <1>3 DEF Process, Operations, SyncModes, PubStatus
<1> HIDE DEF x
<1>6. /\ actor' \in [Actors -> Process]
      /\ posted \in Nat /\ stray \in Nat /\ Cardinality(Senders) \in Nat
      /\ Sent = posted + stray + Cardinality(Senders)
  BY <1>1, <1>5, ActorMove
<1>7. Sent' = posted' + stray' + Cardinality(Senders)
                + (IF x.phase \in {"sending", "awaiting"} THEN 1 ELSE 0)
                - (IF actor[a].phase \in {"sending", "awaiting"} THEN 1 ELSE 0)
  BY <1>1, <1>5, <1>6, ActorMove
<1>8. Sent \in Nat /\ Sent' = Sent + 1
  BY <1>1, <1>5, <1>6, <1>7
<1>9. OpenedIsOpen'
  BY <1>1, <1>5 DEF PInv, TypeOK, OpenedIsOpen
<1> QED
  BY <1>1, <1>4, <1>6, <1>8, <1>9

\* A reservation is in order if a message was left to send.
LEMMA ReserveStep ==
  ASSUME PInv, NEW a \in Actors, NEW op \in {"now", "retry", "due", "task"},
         NEW seen \in ItemStatus, Reserve(a, op, seen), item # "deleted",
         actor[a].phase \in {"idle", "opened", "claimed"},
         task' \in TaskRow, TaskShape', task'.about = task.about,
         lapses \subseteq lapses', lapses' \subseteq Lapses,
         licence' \in Nat,
         "now" \notin OpenWindows /\ "overtaken" \notin lapses' => Sent < licence'
  PROVE  PInv'
<1>1. /\ UNCHANGED <<item, used, stray, posted>> /\ pub' = "publishing"
      /\ attempts' \in Seq(AttemptRow)
      /\ Len(attempts') = Len(attempts) + 1 /\ Len(attempts') <= MaxSends
      /\ actor' \in [Actors -> Process] /\ OpenedIsOpen'
      /\ Sent \in Nat /\ Sent' = Sent + 1
  BY ReserveFacts
<1>2. TypeOK'
  BY <1>1 DEF PInv, TypeOK, PubStatus
<1>3. task.about \in Nat /\ task.about <= Len(attempts) /\ Len(attempts) \in Nat
  BY DEF PInv, TypeOK, AboutExisting, TaskRow
<1>4. AboutExisting' /\ DeletedHasNoAttempts'
  BY <1>1, <1>3 DEF AboutExisting, DeletedHasNoAttempts
<1>5. ~Current'
  BY <1>1, <1>3 DEF Current
<1>6. LicenceInv'
  BY <1>1, <1>5 DEF LicenceInv, FreshCovered, RiskCovered
<1> QED
  BY <1>1, <1>2, <1>4, <1>6 DEF PInv

LEMMA Covered ==
  ASSUME PInv, item # "deleted", pub \in {"none", "failed"}
  PROVE  "now" \notin OpenWindows /\ "overtaken" \notin lapses => Sent < licence
BY DEF PInv, LicenceInv, FreshCovered

LEMMA SyncReserveStep ==
  ASSUME PInv, NEW a \in Actors, NEW mode \in SyncModes, SyncReserve(a, mode)
  PROVE  PInv'
<1>1. /\ item # "deleted" /\ task' = task
      /\ licence' = IF mode = "retry" THEN Sent + 1 ELSE licence
  BY DEF SyncReserve
<1>2. PICK seen \in ItemStatus : Reserve(a, mode, seen)
  BY DEF SyncReserve, PInv, TypeOK, Process
<1>3. actor[a].phase \in {"idle", "opened"}
  BY DEF SyncReserve
<1>4. mode = "now" /\ "now" \notin OpenWindows => pub \in {"none", "failed"}
  BY DEF SyncReserve, PInv, OpenedIsOpen, Allowed, Publishable, TypeOK, PubStatus
<1>5. Sent \in Nat /\ licence \in Nat /\ mode \in {"now", "retry"}
  BY <1>2, <1>3, ReserveFacts DEF SyncModes, PInv, TypeOK
<1>8. lapses \subseteq lapses' /\ lapses' \subseteq Lapses
  BY DEF SyncReserve, Lapses, PInv, TypeOK
<1>6. /\ licence' \in Nat
      /\ "now" \notin OpenWindows /\ "overtaken" \notin lapses' => Sent < licence'
  BY <1>1, <1>4, <1>5, <1>8, Covered
<1>7. task' \in TaskRow /\ TaskShape' /\ task'.about = task.about
  BY <1>1 DEF PInv, TypeOK, TaskShape
<1> QED
  BY <1>1, <1>2, <1>3, <1>5, <1>6, <1>7, <1>8, ReserveStep

LEMMA DueReserveStep ==
  ASSUME PInv, NEW a \in Actors, DueReserve(a)
  PROVE  PInv'
<1>1. /\ item = "scheduled" /\ UNCHANGED <<task, licence, lapses>>
      /\ Reserve(a, "due", item) /\ actor[a].phase = "idle" /\ item \in ItemStatus
  BY DEF DueReserve, ItemStatus
<1>2. pub \in {"none", "failed"}
  BY DEF DueReserve, Publishable, PInv, TypeOK, PubStatus
<1>3. /\ licence' \in Nat
      /\ "now" \notin OpenWindows /\ "overtaken" \notin lapses' => Sent < licence'
  BY <1>1, <1>2, Covered DEF PInv, TypeOK
<1>4. /\ task' \in TaskRow /\ TaskShape' /\ task'.about = task.about
      /\ lapses \subseteq lapses' /\ lapses' \subseteq Lapses
  BY <1>1 DEF PInv, TypeOK, TaskShape
<1> QED
  BY <1>1, <1>3, <1>4, ReserveStep

\* The task of a new or failed publication, or a retry task of its latest attempt.
LEMMA TaskReserveStep ==
  ASSUME PInv, NEW a \in Actors, TaskReserve(a)
  PROVE  PInv'
<1>1. /\ Reserve(a, "task", item) /\ licence' = licence /\ item # "deleted"
      /\ actor[a].phase = "claimed" /\ task.holder = a
      /\ task' = [task EXCEPT !.latest = Len(attempts) + 1]
  BY DEF TaskReserve, Claimed, Publishable
<1>2. item \in ItemStatus /\ task \in TaskRow /\ TaskShape /\ licence \in Nat
  BY DEF PInv, TypeOK
<1>3. Len(attempts) + 1 \in 0..MaxSends
  BY <1>1, PublicationAssumption DEF Reserve, PInv, TypeOK
<1>4. /\ task' \in TaskRow /\ task'.about = task.about
      /\ task'.state = task.state /\ task'.tries = task.tries /\ task'.holder = task.holder
  BY <1>1, <1>2, <1>3 DEF TaskRow
<1>5. TaskShape'
  BY <1>2, <1>4 DEF TaskShape
<1>6. lapses \subseteq lapses' /\ lapses' \subseteq Lapses
  BY DEF TaskReserve, Lapses, PInv, TypeOK
<1>7. "now" \notin OpenWindows /\ "overtaken" \notin lapses' => Sent < licence'
  <2> SUFFICES ASSUME "now" \notin OpenWindows, "overtaken" \notin lapses'
               PROVE  Sent < licence
    BY <1>1
  <2>1. CASE pub = "unknown"
    <3>1. task.about = Len(attempts) /\ task.retry
      BY <2>1 DEF TaskReserve, Publishable
    <3>2. task.state \in Active
      BY <1>1, <1>2, PublicationAssumption DEF TaskShape, Active
    <3>3. Current
      BY <1>1, <3>1, <3>2 DEF Current
    <3> QED
      BY <1>6, <3>3 DEF PInv, LicenceInv, RiskCovered
  <2>2. CASE pub # "unknown"
    <3>1. pub \in {"none", "failed"}
      BY <2>2 DEF TaskReserve, Publishable, PInv, TypeOK, PubStatus
    <3> QED
      BY <1>1, <1>6, <3>1, Covered
  <2> QED
    BY <2>1, <2>2
<1> QED
  BY <1>1, <1>2, <1>4, <1>5, <1>6, <1>7, ReserveStep

-----------------------------------------------------------------------------
LEMMA PublicationInit == Init => PInv
<1> SUFFICES ASSUME Init PROVE PInv
  OBVIOUS
<1>1. TypeOK
  <2>1. attempts \in Seq(AttemptRow) /\ Len(attempts) <= MaxSends
    BY PublicationAssumption DEF Init
  <2>2. task \in TaskRow /\ actor \in [Actors -> Process]
    BY IdleType, NoTaskType DEF Init
  <2> QED
    BY <2>1, <2>2 DEF Init, TypeOK, ItemStatus, PubStatus
<1>2. TaskShape /\ DeletedHasNoAttempts /\ OpenedIsOpen /\ AboutExisting
  BY DEF Init, TaskShape, DeletedHasNoAttempts, OpenedIsOpen, AboutExisting, NoTask, Idle
<1>3. Sent = 0
  <2>1. Senders = {}
    BY DEF Init, Senders, Idle
  <2>2. Sent = 0 + 0 + Cardinality(Senders)
    BY DEF Init, Sent, Senders
  <2> QED
    BY <2>1, <2>2, FS_EmptySet
<1>4. LicenceInv
  BY <1>3 DEF Init, LicenceInv, FreshCovered, RiskCovered, Current, NoTask, Active
<1> QED
  BY <1>1, <1>2, <1>4 DEF PInv

LEMMA PublicationStep == PInv /\ [Next]_vars => PInv'
<1> SUFFICES ASSUME PInv, [Next]_vars PROVE PInv'
  OBVIOUS
<1>1. CASE UNCHANGED vars
  BY <1>1, SameRows, SameTask, SameActors, QuietStep DEF vars, rows
<1>2. ASSUME NEW a \in Actors,
             \/ \E op \in Operations : Open(a, op)
             \/ Close(a)
             \/ \E mode \in SyncModes : SyncReserve(a, mode)
             \/ Claim(a) \/ TaskReserve(a) \/ TaskRefuses(a) \/ AlreadyPublished(a)
             \/ DueReserve(a) \/ SendOut(a) \/ Lands(a) \/ Rejected(a) \/ Uncertain(a)
             \/ FinishTask(a) \/ Confirm(a) \/ Leave(a)
      PROVE  PInv'
  BY <1>2, LoadSteps, SyncReserveStep, ClaimStep, TaskReserveStep, HandlerEnds, DueReserveStep,
     WireSteps, RejectedStep, UncertainStep, ConfirmStep, LeaveStep
<1>3. CASE Next
  BY <1>2, <1>3, EditorSteps, OutcomeSteps, ReturnStep, SubmitSteps, SubmitRetryStep, TableSteps,
     RecoverStep, WireSteps DEF Next
<1> QED
  BY <1>1, <1>3

\* The invariant holds whichever windows are open.
THEOREM PublicationInvariance == Spec => []PInv
BY PublicationInit, PublicationStep, PTL DEF Spec

\* Type correctness, with the budget of the task's executions.
THEOREM PublicationTypeCorrect == Spec => []TypeOK
<1>1. PInv => TypeOK
  BY DEF PInv
<1> QED
  BY <1>1, PublicationInvariance, PTL

\* With the window of publish-now closed, however tasks, the scheduler and synchronous requests meet, and whatever they
\* lose, a material is sent once, and once more for every decision taken about a
\* message that may be in the channel.
THEOREM SentAsDecided ==
  ASSUME "now" \notin OpenWindows
  PROVE  Spec => []NoUnintendedDuplicate
<1>1. PInv => NoUnintendedDuplicate
  BY DEF PInv, LicenceInv, NoUnintendedDuplicate
<1> QED
  BY <1>1, PublicationInvariance, PTL
-----------------------------------------------------------------------------
(* What is on record.  A sender has an attempt of its own, which nobody    *)
(* else can declare failed, so that a message which leaves its sender      *)
(* leaves an attempt behind that is confirmed, in doubt or `sending`.      *)

Transmits(a) == actor[a].phase \in {"sending", "awaiting", "landed"}
Unposted(a) == actor[a].phase \in {"sending", "awaiting"}

OwnAttempts ==
  \A a \in Actors : Transmits(a) =>
    /\ actor[a].mine \in DOMAIN attempts /\ attempts[actor[a].mine].status # "failed"
    /\ \A b \in Actors : Transmits(b) /\ actor[a].mine = actor[b].mine => a = b
    /\ ~IsTask(a) => actor[a].mine # task.latest

Recorded ==
  posted + stray > 0 =>
    \E i \in DOMAIN attempts :
      /\ attempts[i].status # "failed"
      /\ \A a \in Actors : Unposted(a) => actor[a].mine # i

TraceInv ==
  item # "deleted" => task.latest <= Len(attempts) /\ OwnAttempts /\ Recorded

\* Only the latest attempt can be `sending`, and only while the publication is; and a
\* sender that has not lost its task still is what the rows say.
Clean == {"late", "outdated"} \cap lapses = {}

OneSending ==
  \A i \in DOMAIN attempts :
    attempts[i].status = "sending" => i = Len(attempts) /\ pub = "publishing"

InCharge(a) == Transmits(a) /\ (IsTask(a) => task.holder = a)

SendingInCharge ==
  \A a \in Actors : InCharge(a) =>
    /\ pub = "publishing" /\ actor[a].mine = Len(attempts)
    /\ attempts[Len(attempts)].status = "sending"

AgreeInv ==
  item # "deleted" /\ Clean => OneSending /\ SendingInCharge /\ PublishedAgree

RecordInv == PInv /\ TraceInv /\ AgreeInv

\* Nobody begins to send.
Hush ==
  \A b \in Actors : Transmits(b)' =>
    /\ Transmits(b) /\ actor'[b].mine = actor[b].mine /\ actor'[b].op = actor[b].op
    /\ Unposted(b)' => Unposted(b)

\* Nobody who sends gets hold of the task.
HolderKept == \A b \in Actors : Transmits(b)' /\ task'.holder = b => task.holder = b
LatestKept == task'.latest \in {task.latest, 0}

LEMMA HushMove ==
  ASSUME PInv, NEW a \in Actors, NEW x, actor' = [actor EXCEPT ![a] = x],
         x.phase \notin {"sending", "awaiting", "landed"}
  PROVE  Hush
<1>1. \A b \in Actors : actor'[b] = IF b = a THEN x ELSE actor[b]
  BY DEF PInv, TypeOK
<1> QED
  BY <1>1 DEF Hush, Transmits, Unposted

LEMMA HushWrites ==
  ASSUME PInv, NEW op, NEW i, Writes(op, i)
  PROVE  Hush
<1>1. CASE actor' = actor
  BY <1>1 DEF Hush, Transmits, Unposted
<1>2. CASE \E a \in Actors : actor' = [actor EXCEPT ![a] = Idle]
  <2>1. Idle.phase = "idle"
    BY DEF Idle
  <2> QED
    BY <1>2, <2>1, HushMove
<1> QED
  BY <1>1, <1>2 DEF Writes

LEMMA SameSenders ==
  ASSUME actor' = actor
  PROVE  Hush
BY DEF Hush, Transmits, Unposted

\* An attempt that gets another outcome.
LEMMA OutcomeOf ==
  ASSUME PInv, NEW i, NEW s, attempts' = [attempts EXCEPT ![i].status = s]
  PROVE  /\ DOMAIN attempts' = DOMAIN attempts /\ DOMAIN attempts = 1..Len(attempts)
         /\ \A j \in DOMAIN attempts :
              attempts'[j].status = IF j = i THEN s ELSE attempts[j].status
<1>1. attempts \in Seq(AttemptRow)
  BY DEF PInv, TypeOK
<1>2. Len(attempts) \in Nat /\ attempts \in [1..Len(attempts) -> AttemptRow]
  BY <1>1, LenProperties
<1>3. ASSUME NEW r \in AttemptRow PROVE [r EXCEPT !.status = s].status = s
  BY DEF AttemptRow
<1> QED
  BY <1>2, <1>3

LEMMA CheckedOf ==
  ASSUME PInv, NEW i, attempts' = [attempts EXCEPT ![i].checked = TRUE]
  PROVE  /\ DOMAIN attempts' = DOMAIN attempts
         /\ \A j \in DOMAIN attempts : attempts'[j].status = attempts[j].status
<1>1. attempts \in Seq(AttemptRow)
  BY DEF PInv, TypeOK
<1>2. Len(attempts) \in Nat /\ attempts \in [1..Len(attempts) -> AttemptRow]
  BY <1>1, LenProperties
<1>3. ASSUME NEW r \in AttemptRow PROVE [r EXCEPT !.checked = TRUE].status = r.status
  BY DEF AttemptRow
<1> QED
  BY <1>2, <1>3

LEMMA AttemptsDomain ==
  ASSUME PInv
  PROVE  DOMAIN attempts = 1..Len(attempts) /\ Len(attempts) \in Nat
BY LenProperties DEF PInv, TypeOK

\* A step without a failure: a message that leaves its sender is on record.
LEMMA TraceStep ==
  ASSUME PInv, PInv', TraceInv, RowsMove, Hush, LatestKept,
         \A i \in DOMAIN attempts' : attempts'[i].status = "failed" => attempts[i].status = "failed",
         posted' + stray' > 0 =>
           posted + stray > 0 \/ \E a \in Actors : Transmits(a) /\ ~Unposted(a)'
  PROVE  TraceInv'
<1> SUFFICES ASSUME item' # "deleted"
             PROVE  (task.latest <= Len(attempts) /\ OwnAttempts /\ Recorded)'
  BY DEF TraceInv
<1>1. /\ task.latest <= Len(attempts) /\ OwnAttempts /\ Recorded
      /\ DOMAIN attempts' = DOMAIN attempts /\ DOMAIN attempts = 1..Len(attempts)
      /\ Len(attempts') = Len(attempts) /\ Len(attempts) \in Nat
  <2>1. item # "deleted" /\ Len(attempts') = Len(attempts)
    BY DEF RowsMove
  <2>2. DOMAIN attempts' = 1..Len(attempts')
    BY AttemptsDomain, LenProperties DEF PInv, TypeOK
  <2> QED
    BY <2>1, <2>2, AttemptsDomain DEF TraceInv
<1>2. task'.latest <= Len(attempts')
  BY <1>1 DEF LatestKept
<1>3. OwnAttempts'
  <2> SUFFICES ASSUME NEW a \in Actors, Transmits(a)'
               PROVE  /\ actor'[a].mine \in DOMAIN attempts'
                      /\ attempts'[actor'[a].mine].status # "failed"
                      /\ \A b \in Actors : Transmits(b)' /\ actor'[a].mine = actor'[b].mine => a = b
                      /\ ~IsTask(a)' => actor'[a].mine # task'.latest
    BY DEF OwnAttempts
  <2>1. Transmits(a) /\ actor'[a].mine = actor[a].mine /\ actor'[a].op = actor[a].op
    BY DEF Hush
  <2>2. actor[a].mine \in DOMAIN attempts /\ attempts[actor[a].mine].status # "failed"
    BY <1>1, <2>1 DEF OwnAttempts
  <2>3. \A b \in Actors : Transmits(b)' /\ actor'[a].mine = actor'[b].mine => a = b
    BY <1>1, <2>1 DEF OwnAttempts, Hush
  <2>4. ~IsTask(a)' => actor'[a].mine # task'.latest
    BY <1>1, <2>1, <2>2 DEF OwnAttempts, LatestKept, IsTask
  <2> QED
    BY <1>1, <2>1, <2>2, <2>3, <2>4
<1>4. Recorded'
  <2> SUFFICES ASSUME posted' + stray' > 0
               PROVE  \E i \in DOMAIN attempts' :
                        /\ attempts'[i].status # "failed"
                        /\ \A a \in Actors : Unposted(a)' => actor'[a].mine # i
    BY DEF Recorded
  <2>1. CASE posted + stray > 0
    <3>1. PICK i \in DOMAIN attempts : /\ attempts[i].status # "failed"
                                       /\ \A a \in Actors : Unposted(a) => actor[a].mine # i
      BY <1>1, <2>1 DEF Recorded
    <3>2. \A a \in Actors : Unposted(a)' => Transmits(a)'
      BY DEF Unposted, Transmits
    <3> QED
      BY <1>1, <3>1, <3>2 DEF Hush
  <2>2. ASSUME NEW a \in Actors, Transmits(a), ~Unposted(a)'
        PROVE  \E i \in DOMAIN attempts' :
                 /\ attempts'[i].status # "failed"
                 /\ \A b \in Actors : Unposted(b)' => actor'[b].mine # i
    <3>1. actor[a].mine \in DOMAIN attempts /\ attempts[actor[a].mine].status # "failed"
      BY <1>1, <2>2 DEF OwnAttempts
    <3>2. ASSUME NEW b \in Actors, Unposted(b)' PROVE actor'[b].mine # actor[a].mine
      <4>1. Transmits(b)' /\ b # a
        BY <2>2, <3>2 DEF Unposted, Transmits
      <4> QED
        BY <1>1, <2>2, <4>1 DEF Hush, OwnAttempts
    <3> QED
      BY <1>1, <3>1, <3>2
  <2> QED
    BY <2>1, <2>2
<1> QED
  BY <1>2, <1>3, <1>4

\* A step that leaves the publication and the outcomes alone.
LEMMA AgreeStep ==
  ASSUME PInv, PInv', TraceInv, AgreeInv, RowsMove, Hush, HolderKept, lapses \subseteq lapses', pub' = pub,
         \A i \in DOMAIN attempts : attempts'[i].status = attempts[i].status,
         item' = "published" => item = "published"
  PROVE  AgreeInv'
<1> SUFFICES ASSUME item' # "deleted", Clean'
             PROVE  (OneSending /\ SendingInCharge /\ PublishedAgree)'
  BY DEF AgreeInv
<1>1. OneSending /\ SendingInCharge /\ PublishedAgree /\ Clean
  BY DEF AgreeInv, RowsMove, Clean
<1>2. /\ DOMAIN attempts' = DOMAIN attempts /\ DOMAIN attempts = 1..Len(attempts)
      /\ Len(attempts') = Len(attempts) /\ Len(attempts) \in Nat
  <2>1. Len(attempts') = Len(attempts)
    BY DEF RowsMove
  <2>2. DOMAIN attempts' = 1..Len(attempts')
    BY LenProperties DEF PInv, TypeOK
  <2> QED
    BY <2>1, <2>2, AttemptsDomain
<1>3. OneSending'
  BY <1>1, <1>2 DEF OneSending
<1>4. SendingInCharge'
  <2> SUFFICES ASSUME NEW a \in Actors, InCharge(a)'
               PROVE  /\ pub' = "publishing" /\ actor'[a].mine = Len(attempts')
                      /\ attempts'[Len(attempts')].status = "sending"
    BY DEF SendingInCharge
  <2>1. InCharge(a) /\ actor'[a].mine = actor[a].mine
    BY DEF Hush, HolderKept, InCharge, IsTask
  <2>2. pub = "publishing" /\ actor[a].mine = Len(attempts)
        /\ attempts[Len(attempts)].status = "sending"
    BY <1>1, <2>1 DEF SendingInCharge
  <2>3. Len(attempts) \in DOMAIN attempts
    BY <2>1, <2>2 DEF TraceInv, RowsMove, OwnAttempts, InCharge
  <2> QED
    BY <1>2, <2>1, <2>2, <2>3
<1>5. PublishedAgree'
  BY <1>1, <1>2 DEF PublishedAgree, Clean
<1> QED
  BY <1>3, <1>4, <1>5

\* Both, for a step that leaves the publication and the outcomes alone.
LEMMA RecordKept ==
  ASSUME RecordInv, PInv', RowsMove, Hush, HolderKept, LatestKept, lapses \subseteq lapses',
         pub' = pub, posted' = posted, stray' = stray,
         DOMAIN attempts' = DOMAIN attempts,
         \A i \in DOMAIN attempts : attempts'[i].status = attempts[i].status,
         item' = "published" => item = "published"
  PROVE  RecordInv'
<1>1. TraceInv'
  BY TraceStep DEF RecordInv
<1>2. AgreeInv'
  BY AgreeStep DEF RecordInv
<1> QED
  BY <1>1, <1>2 DEF RecordInv

LEMMA DeletedKept ==
  ASSUME PInv', item' = "deleted"
  PROVE  RecordInv'
BY DEF RecordInv, TraceInv, AgreeInv

\* When nothing is being sent, senders have lost their task.
LEMMA NothingSending ==
  ASSUME RecordInv, item # "deleted", Clean, pub # "publishing"
  PROVE  /\ \A a \in Actors : ~InCharge(a)
         /\ \A i \in DOMAIN attempts : attempts[i].status # "sending"
BY DEF RecordInv, AgreeInv, OneSending, SendingInCharge

\* The step of a process that neither sends nor finishes sending.
LEMMA EditorRecord ==
  ASSUME RecordInv, PInv', Approve \/ Reopen \/ Schedule \/ Delete
  PROVE  RecordInv'
<1>1. CASE Delete
  BY <1>1, DeletedKept DEF Delete
<1>2. ASSUME NEW op, NEW new \in {"approved", "in_work", "scheduled"}, SetStatus(op, new)
      PROVE  RecordInv'
  <2>1. /\ item' = new /\ used' = FALSE /\ item # "deleted"
        /\ UNCHANGED <<pub, attempts, task, stray, posted, lapses>>
    BY <1>2 DEF SetStatus, Writes
  <2>2. Hush
    BY <1>2, HushWrites DEF SetStatus, RecordInv
  <2>3. RowsMove
    BY <2>1 DEF RowsMove, RecordInv, PInv, TypeOK, ItemStatus
  <2>4. HolderKept /\ LatestKept
    BY <2>1 DEF HolderKept, LatestKept
  <2> QED
    BY <2>1, <2>2, <2>3, <2>4, RecordKept
<1> QED
  BY <1>1, <1>2 DEF Approve, Reopen, Schedule

\* The first unknown attempt, if there is one.
LEMMA FirstUnknownExists ==
  ASSUME TypeOK, FirstUnknown > 0
  PROVE  FirstUnknown \in DOMAIN attempts /\ attempts[FirstUnknown].status = "unknown"
<1>1. FirstUnknown # 0
  BY FirstUnknownType
<1> QED
  BY <1>1, LatestOf

\* What an editor or the channel says of the unknown attempt.
LEMMA OutcomeRecord ==
  ASSUME RecordInv, PInv', CheckPublication \/ MarkPublished
  PROVE  RecordInv'
<1>1. PICK op \in {"check", "mark"}, i \in 1..MaxSends :
        /\ Writes(op, i) /\ lapses' = lapses \cup Lapse(op, i)
        /\ \/ Publish(i)
           \/ /\ attempts' = [attempts EXCEPT ![i].checked = TRUE]
              /\ UNCHANGED <<pub, item, used>>
  BY DEF CheckPublication, MarkPublished
<1>2. UNCHANGED <<task, stray, posted>> /\ item # "deleted" /\ Hush /\ PInv
  <2>1. UNCHANGED <<task, stray, posted>>
    BY DEF CheckPublication, MarkPublished
  <2>2. item # "deleted" /\ PInv
    BY <1>1 DEF Writes, RecordInv
  <2> QED
    BY <1>1, <2>1, <2>2, HushWrites
<1>3. HolderKept /\ LatestKept
  BY <1>2 DEF HolderKept, LatestKept
<1>4. CASE attempts' = [attempts EXCEPT ![i].checked = TRUE] /\ UNCHANGED <<pub, item, used>>
  <2>1. attempts' \in Seq(AttemptRow) /\ Len(attempts') = Len(attempts)
    BY <1>2, <1>4, CheckedType DEF PInv
  <2>2. RowsMove
    BY <1>2, <1>4, <2>1 DEF PInv, TypeOK, RowsMove
  <2> QED
    BY <1>1, <1>2, <1>3, <1>4, <2>2, CheckedOf, RecordKept
<1>5. CASE Publish(i)
  <2>1. RowsMove
    BY <1>2, <1>5, PublishRows
  <2>2. /\ pub' = "published" /\ DOMAIN attempts' = DOMAIN attempts
        /\ \A j \in DOMAIN attempts :
             attempts'[j].status = IF j = i THEN "confirmed" ELSE attempts[j].status
    BY <1>2, <1>5, OutcomeOf DEF Publish
  <2>3. TraceInv'
    BY <1>2, <1>3, <2>1, <2>2, TraceStep DEF RecordInv
  <2>4. ASSUME Clean' PROVE (OneSending /\ SendingInCharge /\ PublishedAgree)'
    <3>1. Clean /\ Lapse(op, i) = {}
      BY <1>1, <2>4 DEF Clean, Lapse
    <3>2. Allowed(op) /\ i = Remembered(op).mine
      BY <3>1 DEF Lapse
    <3>3. pub = "unknown" /\ FirstUnknown > 0 /\ i = FirstUnknown
      BY <3>2, IdleType DEF Allowed, Recoverable, Remembered, SyncModes, Idle
    <3>4. i \in DOMAIN attempts
      BY <1>2, <3>3, FirstUnknownExists DEF PInv
    <3>5. /\ \A a \in Actors : ~InCharge(a)
          /\ \A j \in DOMAIN attempts : attempts[j].status # "sending"
      BY <1>2, <3>1, <3>3, NothingSending
    <3>6. OneSending'
      BY <2>2, <3>5 DEF OneSending
    <3>7. SendingInCharge'
      BY <1>2, <1>3, <3>5 DEF SendingInCharge, InCharge, Hush, HolderKept, IsTask
    <3>8. PublishedAgree'
      BY <2>2, <3>4 DEF PublishedAgree
    <3> QED
      BY <3>6, <3>7, <3>8
  <2> QED
    BY <2>3, <2>4 DEF RecordInv, AgreeInv
<1> QED
  BY <1>1, <1>4, <1>5

LEMMA ReturnRecord ==
  ASSUME RecordInv, PInv', ReturnToWork
  PROVE  RecordInv'
<1>1. PICK i \in 1..MaxSends : Writes("return", i) /\ lapses' = lapses \cup Lapse("return", i)
  BY DEF ReturnToWork
<1>2. /\ pub' = "failed" /\ item' = "in_work" /\ used' = FALSE
      /\ UNCHANGED <<attempts, task, stray, posted>> /\ item # "deleted" /\ Hush /\ PInv
  BY <1>1, HushWrites DEF ReturnToWork, RecordInv, Writes
<1>3. HolderKept /\ LatestKept /\ RowsMove
  BY <1>2 DEF HolderKept, LatestKept, RowsMove, PInv, TypeOK, ItemStatus, PubStatus
<1>4. TraceInv'
  BY <1>2, <1>3, TraceStep DEF RecordInv
<1>5. ASSUME Clean' PROVE (OneSending /\ SendingInCharge /\ PublishedAgree)'
  <2>1. Clean /\ Lapse("return", i) = {}
    BY <1>1, <1>5 DEF Clean, Lapse
  <2>2. pub = "unknown"
    BY <2>1 DEF Lapse, Allowed, Recoverable
  <2>3. /\ \A a \in Actors : ~InCharge(a)
        /\ \A j \in DOMAIN attempts : attempts[j].status # "sending"
    BY <1>2, <2>1, <2>2, NothingSending
  <2> QED
    BY <1>2, <1>3, <2>3
    DEF OneSending, SendingInCharge, InCharge, Hush, HolderKept, IsTask, PublishedAgree
<1> QED
  BY <1>4, <1>5 DEF RecordInv, AgreeInv

\* A task that is submitted, cancelled, claimed or lost.
LEMMA TableRecord ==
  ASSUME RecordInv, PInv',
         SubmitPublication \/ SubmitRetry \/ EnqueueDue \/ CancelTask \/ LeaseEnds
  PROVE  RecordInv'
<1>1. /\ UNCHANGED <<item, pub, attempts, actor, stray, posted, lapses>>
      /\ used' \in BOOLEAN /\ PInv
  BY DEF SubmitPublication, SubmitRetry, EnqueueDue, NewTask, CancelTask, LeaseEnds, rows,
         RecordInv, PInv, TypeOK
<1>2. task'.latest \in {task.latest, 0} /\ task'.holder \in {task.holder, NoActor}
  BY DEF SubmitPublication, SubmitRetry, EnqueueDue, NewTask, CancelTask, LeaseEnds,
         RecordInv, PInv, TypeOK, TaskRow
<1>3. HolderKept /\ LatestKept /\ Hush
  BY <1>1, <1>2, SameSenders, PublicationAssumption DEF HolderKept, LatestKept
<1>4. RowsMove
  BY <1>1 DEF RowsMove, PInv, TypeOK, DeletedHasNoAttempts
<1> QED
  BY <1>1, <1>3, <1>4, RecordKept

LEMMA EndedHolder ==
  ASSUME PInv, NEW s, TaskEnds(s)
  PROVE  task'.holder = NoActor /\ task'.latest = task.latest /\ HolderKept /\ LatestKept
<1>1. task'.holder = NoActor /\ task'.latest = task.latest
  BY DEF TaskEnds, PInv, TypeOK, TaskRow
<1> QED
  BY <1>1, PublicationAssumption DEF HolderKept, LatestKept

\* The attempt of a task that nobody holds any more becomes an unknown outcome.
LEMMA UnknownRecord ==
  ASSUME RecordInv, PInv', MarkUnknown, Hush, posted' = posted, lapses' = lapses,
         posted' + stray' > 0 =>
           posted + stray > 0 \/ \E a \in Actors : Transmits(a) /\ ~Unposted(a)',
         NEW s, TaskEnds(s)
  PROVE  RecordInv'
<1>1. /\ RowsMove /\ PInv /\ HolderKept /\ LatestKept
      /\ task'.holder = NoActor /\ task'.latest = task.latest
  BY MarkUnknownRows, EndedHolder DEF RecordInv
<1>2. CASE Reached # "sending"
  <2>1. UNCHANGED <<item, pub, attempts>>
    BY <1>2 DEF MarkUnknown, rows
  <2>2. TraceInv'
    BY <1>1, <2>1, TraceStep DEF RecordInv
  <2>3. AgreeInv'
    BY <1>1, <2>1, AgreeStep DEF RecordInv
  <2> QED
    BY <2>2, <2>3 DEF RecordInv
<1>3. CASE Reached = "sending"
  <2>1. /\ task.latest \in DOMAIN attempts /\ attempts[task.latest].status = "sending"
        /\ attempts' = [attempts EXCEPT ![task.latest].status = "unknown"]
        /\ pub' = IF pub = "publishing" THEN "unknown" ELSE pub
        /\ item' = IF item = "published" THEN item ELSE "publication_unknown"
    BY <1>3 DEF MarkUnknown, Reached
  <2>2. /\ DOMAIN attempts' = DOMAIN attempts
        /\ \A j \in DOMAIN attempts :
             attempts'[j].status = IF j = task.latest THEN "unknown" ELSE attempts[j].status
    BY <1>1, <2>1, OutcomeOf
  <2>3. TraceInv'
    BY <1>1, <2>2, TraceStep DEF RecordInv
  <2>4. ASSUME item' # "deleted", Clean' PROVE (OneSending /\ SendingInCharge /\ PublishedAgree)'
    <3>1. OneSending /\ SendingInCharge /\ PublishedAgree /\ Clean /\ OwnAttempts
      BY <1>1, <2>4 DEF RecordInv, AgreeInv, TraceInv, RowsMove, Clean
    <3>2. task.latest = Len(attempts) /\ pub = "publishing"
      BY <2>1, <3>1 DEF OneSending
    <3>3. OneSending'
      BY <2>2, <3>1, <3>2 DEF OneSending
    <3>4. \A a \in Actors : ~InCharge(a)'
      <4> SUFFICES ASSUME NEW a \in Actors, InCharge(a)' PROVE FALSE
        OBVIOUS
      <4>1. Transmits(a) /\ actor'[a].op = actor[a].op
        BY DEF Hush, InCharge
      <4>2. ~IsTask(a)
        BY <1>1, <4>1, PublicationAssumption DEF InCharge, IsTask
      <4>3. actor[a].mine = task.latest
        BY <3>1, <3>2, <4>1, <4>2 DEF SendingInCharge, InCharge
      <4> QED
        BY <3>1, <4>1, <4>2, <4>3 DEF OwnAttempts
    <3>5. PublishedAgree'
      BY <2>1, <3>1, <3>2 DEF PublishedAgree, Clean
    <3> QED
      BY <3>3, <3>4, <3>5 DEF SendingInCharge
  <2> QED
    BY <2>3, <2>4 DEF RecordInv, AgreeInv
<1> QED
  BY <1>2, <1>3

LEMMA RecoverRecord ==
  ASSUME RecordInv, PInv', RecoverExpired
  PROVE  RecordInv'
<1>1. /\ UNCHANGED <<actor, stray, posted, lapses>> /\ MarkUnknown
      /\ \E s \in {RetryOrFail, "succeeded", "failed", "needs_review"} : TaskEnds(s)
  BY DEF RecoverExpired
<1>2. Hush
  BY <1>1, SameSenders
<1> QED
  BY <1>1, <1>2, UnknownRecord

\* A process that takes something up, drops it or ends without having sent.
LEMMA IdleRecord ==
  ASSUME RecordInv, PInv', NEW a \in Actors,
         \/ Close(a) \/ \E op \in Operations : Open(a, op)
         \/ Claim(a) \/ TaskRefuses(a) \/ AlreadyPublished(a) \/ FinishTask(a)
  PROVE  RecordInv'
<1>1. PInv /\ Idle.phase = "idle"
  BY DEF RecordInv, Idle
<1>2. UNCHANGED <<posted, stray, lapses>>
  BY DEF Close, Open, Claim, TaskRefuses, AlreadyPublished, FinishTask
<1>3. Hush
  <2>1. CASE Close(a) \/ TaskRefuses(a) \/ AlreadyPublished(a) \/ FinishTask(a)
    <3>1. actor' = [actor EXCEPT ![a] = Idle]
      BY <2>1 DEF Close, TaskRefuses, AlreadyPublished, FinishTask
    <3> QED
      BY <1>1, <3>1, HushMove
  <2>2. ASSUME NEW op \in Operations, Open(a, op) PROVE Hush
    <3> DEFINE x == [Remembered(op) EXCEPT !.phase = "opened", !.op = op]
    <3>1. Remembered(op) \in Process
      BY <1>1, RememberedType DEF PInv
    <3>2. x.phase = "opened" /\ actor' = [actor EXCEPT ![a] = x]
      BY <2>2, <3>1 DEF Process, Open
    <3> HIDE DEF x
    <3> QED
      BY <1>1, <3>2, HushMove
  <2>3. CASE Claim(a)
    <3> DEFINE x == [Idle EXCEPT !.phase = "claimed", !.op = "task"]
    <3>1. x.phase = "claimed" /\ actor' = [actor EXCEPT ![a] = x]
      BY <2>3 DEF Idle, Claim
    <3> HIDE DEF x
    <3> QED
      BY <1>1, <3>1, HushMove
  <2> QED
    BY <2>1, <2>2, <2>3
<1>4. CASE MarkUnknown /\ TaskEnds("needs_review")
  BY <1>2, <1>3, <1>4, UnknownRecord
<1>5. CASE UNCHANGED rows
           /\ (UNCHANGED task \/ \E s \in {"succeeded", "failed", RetryOrFail} : TaskEnds(s))
  <2>1. HolderKept /\ LatestKept
    BY <1>1, <1>5, EndedHolder DEF HolderKept, LatestKept
  <2> QED
    BY <1>1, <1>2, <1>3, <1>5, <2>1, SameRows, RecordKept DEF rows
<1>6. CASE Claim(a)
  <2>1. UNCHANGED rows /\ task'.holder = a /\ task'.latest = task.latest
    BY <1>6 DEF Claim
  <2>2. ~Transmits(a)'
    <3>1. actor'[a].phase = "claimed"
      BY <1>1, <1>6 DEF Claim, PInv, TypeOK, Idle
    <3> QED
      BY <3>1 DEF Transmits
  <2>3. HolderKept /\ LatestKept
    BY <2>1, <2>2 DEF HolderKept, LatestKept
  <2> QED
    BY <1>1, <1>2, <1>3, <2>1, <2>3, SameRows, RecordKept DEF rows
<1> QED
  BY <1>4, <1>5, <1>6 DEF Close, Open, TaskRefuses, AlreadyPublished, FinishTask, rows

\* The request goes out and is posted.
LEMMA WireRecord ==
  ASSUME RecordInv, PInv', (\E a \in Actors : SendOut(a) \/ Lands(a)) \/ StrayLands
  PROVE  RecordInv'
<1>1. UNCHANGED <<rows, task, lapses>> /\ PInv
  BY DEF SendOut, Lands, StrayLands, RecordInv
<1>2. /\ Hush
      /\ posted' + stray' > 0 =>
           posted + stray > 0 \/ \E a \in Actors : Transmits(a) /\ ~Unposted(a)'
  <2>1. CASE StrayLands
    <3>1. posted + stray > 0
      BY <1>1, <2>1 DEF StrayLands, PInv, TypeOK
    <3>2. actor' = actor
      BY <2>1 DEF StrayLands
    <3> QED
      BY <3>1, <3>2, SameSenders
  <2>2. ASSUME NEW a \in Actors, SendOut(a) \/ Lands(a)
        PROVE  /\ Hush
               /\ posted' + stray' > 0 =>
                    posted + stray > 0 \/ \E b \in Actors : Transmits(b) /\ ~Unposted(b)'
    <3>1. PICK p \in {"awaiting", "landed"} :
            /\ actor' = [actor EXCEPT ![a].phase = p]
            /\ \/ actor[a].phase = "sending" /\ p = "awaiting" /\ UNCHANGED <<posted, stray>>
               \/ actor[a].phase = "awaiting" /\ p = "landed"
      BY <2>2 DEF SendOut, Lands
    <3>2. /\ \A b \in Actors \ {a} : actor'[b] = actor[b]
          /\ actor'[a].phase = p /\ actor'[a].mine = actor[a].mine /\ actor'[a].op = actor[a].op
      BY <1>1, <3>1 DEF PInv, TypeOK, Process
    <3>3. Hush
      BY <3>1, <3>2 DEF Hush, Transmits, Unposted
    <3>4. p = "landed" => Transmits(a) /\ ~Unposted(a)'
      BY <3>1, <3>2 DEF Transmits, Unposted
    <3> QED
      BY <3>1, <3>3, <3>4
  <2> QED
    BY <2>1, <2>2
<1>3. RowsMove /\ HolderKept /\ LatestKept
  BY <1>1, SameRows DEF HolderKept, LatestKept
<1>4. TraceInv'
  BY <1>1, <1>2, <1>3, TraceStep DEF RecordInv, rows
<1>5. AgreeInv'
  BY <1>1, <1>2, <1>3, AgreeStep DEF RecordInv, rows
<1> QED
  BY <1>4, <1>5 DEF RecordInv

\* The one sender who is what the rows say.
LEMMA OnlyOneInCharge ==
  ASSUME RecordInv, item # "deleted", Clean, NEW a \in Actors, InCharge(a)
  PROVE  /\ \A b \in Actors : InCharge(b) => b = a
         /\ pub = "publishing" /\ actor[a].mine = Len(attempts) /\ item # "published"
         /\ actor[a].mine \in DOMAIN attempts
         /\ \A i \in DOMAIN attempts : attempts[i].status = "sending" => i = actor[a].mine
<1>1. OneSending /\ SendingInCharge /\ PublishedAgree /\ OwnAttempts
  BY DEF RecordInv, AgreeInv, TraceInv
<1>2. pub = "publishing" /\ actor[a].mine = Len(attempts) /\ actor[a].mine \in DOMAIN attempts
  BY <1>1 DEF SendingInCharge, OwnAttempts, InCharge
<1>3. \A b \in Actors : InCharge(b) => b = a
  BY <1>1, <1>2 DEF SendingInCharge, OwnAttempts, InCharge
<1> QED
  BY <1>1, <1>2, <1>3 DEF OneSending, PublishedAgree, Clean

\* The sender writes the outcome of its attempt and is done.
LEMMA OutcomeWritten ==
  ASSUME RecordInv, PInv', NEW a \in Actors, InCharge(a), item # "deleted",
         RowsMove, Hush, ~Transmits(a)', HolderKept, lapses \subseteq lapses',
         NEW s \in {"confirmed", "failed", "unknown"},
         attempts' = [attempts EXCEPT ![actor[a].mine].status = s], pub' # "publishing",
         item' = "published" => item = "published" \/ (pub' = "published" /\ s = "confirmed")
  PROVE  AgreeInv'
<1> SUFFICES ASSUME Clean' PROVE (OneSending /\ SendingInCharge /\ PublishedAgree)'
  BY DEF AgreeInv
<1>1. Clean /\ PInv
  BY DEF Clean, RecordInv
<1>2. /\ \A b \in Actors : InCharge(b) => b = a
      /\ pub = "publishing" /\ actor[a].mine = Len(attempts) /\ item # "published"
      /\ actor[a].mine \in DOMAIN attempts
      /\ \A i \in DOMAIN attempts : attempts[i].status = "sending" => i = actor[a].mine
  BY <1>1, OnlyOneInCharge
<1>3. /\ DOMAIN attempts' = DOMAIN attempts
      /\ \A j \in DOMAIN attempts :
           attempts'[j].status = IF j = actor[a].mine THEN s ELSE attempts[j].status
  BY <1>1, OutcomeOf
<1>4. OneSending'
  BY <1>2, <1>3 DEF OneSending
<1>5. SendingInCharge'
  BY <1>2 DEF SendingInCharge, InCharge, Hush, HolderKept, IsTask
<1>6. PublishedAgree'
  BY <1>2, <1>3 DEF PublishedAgree
<1> QED
  BY <1>4, <1>5, <1>6

\* A rejected attempt was nobody's trace of a message.
LEMMA RejectedTrace ==
  ASSUME RecordInv, PInv', NEW a \in Actors, item # "deleted", OwnAttempts, Recorded,
         Unposted(a), ~Transmits(a)', RowsMove, Hush, LatestKept,
         posted' = posted, stray' = stray,
         DOMAIN attempts' = DOMAIN attempts,
         \A j \in DOMAIN attempts :
           attempts'[j].status = IF j = actor[a].mine THEN "failed" ELSE attempts[j].status
  PROVE  TraceInv'
<1> SUFFICES ASSUME item' # "deleted"
             PROVE  (task.latest <= Len(attempts) /\ OwnAttempts /\ Recorded)'
  BY DEF TraceInv
<1>1. /\ task.latest <= Len(attempts) /\ Len(attempts') = Len(attempts) /\ Len(attempts) \in Nat
      /\ DOMAIN attempts = 1..Len(attempts) /\ Transmits(a)
  BY AttemptsDomain DEF RecordInv, TraceInv, RowsMove, Unposted, Transmits
<1>2. task'.latest <= Len(attempts')
  BY <1>1 DEF LatestKept
<1>3. OwnAttempts'
  <2> SUFFICES ASSUME NEW b \in Actors, Transmits(b)'
               PROVE  /\ actor'[b].mine \in DOMAIN attempts'
                      /\ attempts'[actor'[b].mine].status # "failed"
                      /\ \A c \in Actors : Transmits(c)' /\ actor'[b].mine = actor'[c].mine => b = c
                      /\ ~IsTask(b)' => actor'[b].mine # task'.latest
    BY DEF OwnAttempts
  <2>1. /\ Transmits(b) /\ actor'[b].mine = actor[b].mine /\ actor'[b].op = actor[b].op /\ b # a
    BY DEF Hush
  <2>2. actor[b].mine # actor[a].mine
    BY <1>1, <2>1 DEF OwnAttempts
  <2>3. actor[b].mine \in DOMAIN attempts /\ attempts[actor[b].mine].status # "failed"
    BY <2>1 DEF OwnAttempts
  <2>4. \A c \in Actors : Transmits(c)' /\ actor'[b].mine = actor'[c].mine => b = c
    BY <2>1 DEF OwnAttempts, Hush
  <2>5. ~IsTask(b)' => actor'[b].mine # task'.latest
    BY <1>1, <2>1, <2>3 DEF OwnAttempts, LatestKept, IsTask
  <2> QED
    BY <2>1, <2>2, <2>3, <2>4, <2>5
<1>4. Recorded'
  <2> SUFFICES ASSUME posted + stray > 0
               PROVE  \E i \in DOMAIN attempts' :
                        /\ attempts'[i].status # "failed"
                        /\ \A b \in Actors : Unposted(b)' => actor'[b].mine # i
    BY DEF Recorded
  <2>1. PICK i \in DOMAIN attempts : /\ attempts[i].status # "failed"
                                     /\ \A b \in Actors : Unposted(b) => actor[b].mine # i
    BY DEF Recorded
  <2>2. \A b \in Actors : Unposted(b)' => Transmits(b)'
    BY DEF Unposted, Transmits
  <2> QED
    BY <2>1, <2>2 DEF Hush
<1> QED
  BY <1>2, <1>3, <1>4

\* A failure is written by the owner of the attempt, or by a worker too late.
LEMMA FailureRecord ==
  ASSUME RecordInv, PInv', NEW a \in Actors, Rejected(a) \/ Uncertain(a)
  PROVE  RecordInv'
<1>1. PICK s \in {"failed", "unknown"}, retryable \in BOOLEAN :
        /\ WriteFailure(a, s, retryable) /\ Transmits(a)
        /\ s = "failed" => Unposted(a) /\ stray' = stray
  BY DEF Rejected, Uncertain, IsTask, Transmits, Unposted
<1>2. PInv /\ RowsMove /\ task' = task /\ posted' = posted /\ lapses \subseteq lapses'
  BY <1>1, FailureWritten DEF RecordInv, WriteFailure
<1>3. PICK x \in Process : x.phase \in {"idle", "raised"} /\ actor' = [actor EXCEPT ![a] = x]
  BY <1>1, <1>2, FailureWritten
<1>4. Hush /\ HolderKept /\ LatestKept
  BY <1>2, <1>3, HushMove DEF HolderKept, LatestKept
<1>5. ~Transmits(a)' /\ ~Unposted(a)'
  BY <1>2, <1>3 DEF Transmits, Unposted, PInv, TypeOK
<1>6. CASE item = "deleted"
  <2>1. item' = "deleted"
    BY <1>1, <1>6 DEF WriteFailure, rows
  <2> QED
    BY <2>1, DeletedKept
<1>7. CASE item # "deleted"
  <2>1. /\ pub' = s /\ attempts' = [attempts EXCEPT ![actor[a].mine].status = s]
        /\ item' \in {item, "publication_unknown", "failed"}
    BY <1>1, <1>7 DEF WriteFailure
  <2>2. /\ DOMAIN attempts' = DOMAIN attempts
        /\ \A j \in DOMAIN attempts :
             attempts'[j].status = IF j = actor[a].mine THEN s ELSE attempts[j].status
    BY <1>2, <2>1, OutcomeOf
  <2>3. OwnAttempts /\ Recorded
    BY <1>7 DEF RecordInv, TraceInv
  <2>4. TraceInv'
    <3>1. CASE s = "unknown"
      BY <1>1, <1>2, <1>4, <1>5, <2>2, <3>1, TraceStep DEF RecordInv
    <3>2. CASE s = "failed"
      BY <1>1, <1>2, <1>3, <1>4, <1>5, <1>7, <2>2, <2>3, <3>2, RejectedTrace
    <3> QED
      BY <3>1, <3>2
  <2>5. AgreeInv'
    <3>1. CASE InCharge(a)
      BY <1>2, <1>4, <1>5, <1>7, <2>1, <3>1, OutcomeWritten
    <3>2. CASE ~InCharge(a)
      <4>1. "late" \in lapses'
        BY <1>1, <3>2 DEF WriteFailure, InCharge
      <4> QED
        BY <4>1 DEF AgreeInv, Clean
    <3> QED
      BY <3>1, <3>2
  <2> QED
    BY <2>4, <2>5 DEF RecordInv
<1> QED
  BY <1>6, <1>7

LEMMA ConfirmRecord ==
  ASSUME RecordInv, PInv', NEW a \in Actors, Confirm(a)
  PROVE  RecordInv'
<1>1. /\ actor[a].phase = "landed" /\ actor' = [actor EXCEPT ![a] = Idle]
      /\ UNCHANGED <<stray, posted, lapses>> /\ PInv /\ Idle.phase = "idle"
  BY DEF Confirm, RecordInv, Idle
<1>2. Hush
  BY <1>1, HushMove
<1>3. Transmits(a) /\ ~Transmits(a)'
  BY <1>1 DEF Transmits, PInv, TypeOK
<1>4. CASE item = "deleted"
  <2>1. item' = "deleted"
    BY <1>4 DEF Confirm, rows
  <2> QED
    BY <2>1, DeletedKept
<1>5. CASE IsTask(a) /\ task.holder # a
  <2>1. UNCHANGED <<rows, task>>
    BY <1>5 DEF Confirm
  <2>2. HolderKept /\ LatestKept /\ RowsMove
    BY <1>1, <2>1, SameRows DEF HolderKept, LatestKept
  <2> QED
    BY <1>1, <1>2, <2>1, <2>2, RecordKept DEF rows
<1>6. CASE item # "deleted" /\ (IsTask(a) => task.holder = a)
  <2>1. Publish(actor[a].mine) /\ (UNCHANGED task \/ TaskEnds("succeeded"))
    BY <1>6 DEF Confirm
  <2>2. HolderKept /\ LatestKept
    BY <1>1, <2>1, EndedHolder DEF HolderKept, LatestKept
  <2>3. RowsMove
    BY <1>1, <1>6, <2>1, PublishRows
  <2>4. /\ attempts' = [attempts EXCEPT ![actor[a].mine].status = "confirmed"]
        /\ pub' = "published"
    BY <2>1 DEF Publish
  <2>5. TraceInv'
    BY <1>1, <1>2, <2>2, <2>3, <2>4, OutcomeOf, TraceStep DEF RecordInv
  <2>6. AgreeInv'
    BY <1>1, <1>2, <1>3, <1>6, <2>2, <2>3, <2>4, OutcomeWritten DEF InCharge
  <2> QED
    BY <2>5, <2>6 DEF RecordInv
<1> QED
  BY <1>4, <1>5, <1>6

\* Who leaves in the middle of a request leaves its attempt as it is.
LEMMA LeaveRecord ==
  ASSUME RecordInv, PInv', NEW a \in Actors, Leave(a)
  PROVE  RecordInv'
<1>1. /\ stray' = IF actor[a].phase = "awaiting" THEN stray + 1 ELSE stray
      /\ actor' = [actor EXCEPT ![a] = Idle] /\ UNCHANGED <<posted, lapses>>
      /\ UNCHANGED <<rows, task>> \/ (TaskEnds("needs_review") /\ MarkUnknown)
      /\ PInv /\ Idle.phase = "idle"
  BY DEF Leave, RecordInv, Idle
<1>2. Hush
  BY <1>1, HushMove
<1>3. posted' + stray' > 0 =>
        posted + stray > 0 \/ \E b \in Actors : Transmits(b) /\ ~Unposted(b)'
  <2>1. ~Unposted(a)'
    BY <1>1 DEF Unposted, PInv, TypeOK
  <2> QED
    BY <1>1, <2>1 DEF Transmits
<1>4. CASE TaskEnds("needs_review") /\ MarkUnknown
  BY <1>1, <1>2, <1>3, <1>4, UnknownRecord
<1>5. CASE UNCHANGED <<rows, task>>
  <2>1. HolderKept /\ LatestKept /\ RowsMove
    BY <1>1, <1>5, SameRows DEF HolderKept, LatestKept
  <2>2. TraceInv'
    BY <1>1, <1>2, <1>3, <1>5, <2>1, TraceStep DEF RecordInv, rows
  <2>3. AgreeInv'
    BY <1>1, <1>2, <1>5, <2>1, AgreeStep DEF RecordInv, rows
  <2> QED
    BY <2>2, <2>3 DEF RecordInv
<1> QED
  BY <1>1, <1>4, <1>5

\* A reservation adds an attempt of its own to what is on record.
LEMMA ReserveRecord ==
  ASSUME RecordInv, PInv', NEW a \in Actors, NEW op \in {"now", "retry", "due", "task"},
         NEW seen \in ItemStatus, Reserve(a, op, seen), item # "deleted",
         actor[a].phase \in {"idle", "opened", "claimed"},
         task'.holder = task.holder,
         \/ task'.latest = task.latest
         \/ task'.latest = Len(attempts) + 1 /\ op = "task",
         lapses \subseteq lapses',
         Clean' => pub \notin {"publishing", "published"} /\ item # "published"
  PROVE  RecordInv'
<1> DEFINE n == Len(attempts) + 1
<1> DEFINE x == [phase |-> "sending", op |-> op, item |-> seen, pub |-> "none",
                 mine |-> n, retryable |-> FALSE]
<1>1. /\ UNCHANGED <<item, stray, posted>> /\ pub' = "publishing" /\ PInv
      /\ attempts' = Append(attempts, [status |-> "sending", checked |-> FALSE])
      /\ actor' = [actor EXCEPT ![a] = x]
  BY DEF Reserve, RecordInv
<1>2. /\ DOMAIN attempts = 1..Len(attempts) /\ Len(attempts) \in Nat
      /\ DOMAIN attempts' = 1..n /\ Len(attempts') = n
      /\ \A i \in DOMAIN attempts : attempts'[i] = attempts[i]
      /\ attempts'[n].status = "sending"
  <2>1. attempts \in Seq(AttemptRow) /\ [status |-> "sending", checked |-> FALSE] \in AttemptRow
    BY <1>1 DEF PInv, TypeOK, AttemptRow
  <2> QED
    BY <1>1, <2>1, AppendProperties, AttemptsDomain
<1>3. /\ \A b \in Actors \ {a} : actor'[b] = actor[b]
      /\ actor'[a].phase = "sending" /\ actor'[a].op = op /\ actor'[a].mine = n
  BY <1>1 DEF PInv, TypeOK
<1>4. task.latest <= Len(attempts) /\ OwnAttempts /\ Recorded /\ task.latest \in Nat
  BY <1>1 DEF RecordInv, TraceInv, PInv, TypeOK, TaskRow
<1>5. \A b \in Actors : Transmits(b)' /\ b # a => Transmits(b) /\ actor'[b] = actor[b]
  BY <1>3 DEF Transmits
<1>6. task'.latest <= Len(attempts')
  BY <1>2, <1>4
<1>7. OwnAttempts'
  <2> SUFFICES ASSUME NEW b \in Actors, Transmits(b)'
               PROVE  /\ actor'[b].mine \in DOMAIN attempts'
                      /\ attempts'[actor'[b].mine].status # "failed"
                      /\ \A c \in Actors : Transmits(c)' /\ actor'[b].mine = actor'[c].mine => b = c
                      /\ ~IsTask(b)' => actor'[b].mine # task'.latest
    BY DEF OwnAttempts
  <2>1. \A c \in Actors : Transmits(c)' /\ c # a => actor'[c].mine \in 1..Len(attempts)
    BY <1>2, <1>4, <1>5 DEF OwnAttempts
  <2>2. CASE b = a
    BY <1>2, <1>3, <1>4, <2>1, <2>2 DEF IsTask
  <2>3. CASE b # a
    <3>1. /\ Transmits(b) /\ actor'[b] = actor[b] /\ actor[b].mine \in 1..Len(attempts)
          /\ attempts[actor[b].mine].status # "failed"
      BY <1>2, <1>4, <1>5, <2>3 DEF OwnAttempts
    <3>2. \A c \in Actors : Transmits(c)' /\ actor'[b].mine = actor'[c].mine => b = c
      BY <1>2, <1>3, <1>4, <1>5, <3>1 DEF OwnAttempts
    <3>3. ~IsTask(b)' => actor'[b].mine # task'.latest
      BY <1>2, <1>4, <3>1 DEF OwnAttempts, IsTask
    <3> QED
      BY <1>2, <3>1, <3>2, <3>3
  <2> QED
    BY <2>2, <2>3
<1>8. Recorded'
  <2> SUFFICES ASSUME posted + stray > 0
               PROVE  \E i \in DOMAIN attempts' :
                        /\ attempts'[i].status # "failed"
                        /\ \A b \in Actors : Unposted(b)' => actor'[b].mine # i
    BY <1>1 DEF Recorded
  <2>1. PICK i \in DOMAIN attempts : /\ attempts[i].status # "failed"
                                     /\ \A b \in Actors : Unposted(b) => actor[b].mine # i
    BY <1>4 DEF Recorded
  <2>2. i \in DOMAIN attempts' /\ i # n /\ attempts'[i].status # "failed"
    BY <1>2, <2>1
  <2> QED
    BY <1>3, <2>1, <2>2 DEF Unposted
<1>9. ASSUME Clean' PROVE (OneSending /\ SendingInCharge /\ PublishedAgree)'
  <2>1. /\ \A b \in Actors : ~InCharge(b)
        /\ \A i \in DOMAIN attempts : attempts[i].status # "sending"
    BY <1>9, NothingSending DEF Clean
  <2>2. OneSending'
    BY <1>1, <1>2, <2>1 DEF OneSending
  <2>3. SendingInCharge'
    BY <1>1, <1>2, <1>3, <1>5, <2>1 DEF SendingInCharge, InCharge, IsTask
  <2> QED
    BY <1>1, <1>9, <2>2, <2>3 DEF PublishedAgree
<1> QED
  BY <1>6, <1>7, <1>8, <1>9 DEF RecordInv, TraceInv, AgreeInv

LEMMA ReserveRecords ==
  ASSUME RecordInv, PInv', NEW a \in Actors,
         (\E mode \in SyncModes : SyncReserve(a, mode)) \/ DueReserve(a) \/ TaskReserve(a)
  PROVE  RecordInv'
<1>1. PInv /\ item \in ItemStatus
  BY DEF RecordInv, PInv, TypeOK
<1>2. ASSUME NEW mode \in SyncModes, SyncReserve(a, mode)
      PROVE  RecordInv'
  <2>1. /\ item # "deleted" /\ task' = task /\ lapses \subseteq lapses'
        /\ actor[a].phase \in {"idle", "opened"} /\ mode \in {"now", "retry"}
    BY <1>2 DEF SyncReserve, SyncModes
  <2>2. PICK seen \in ItemStatus : Reserve(a, mode, seen)
    BY <1>1, <1>2 DEF SyncReserve, PInv, TypeOK, Process
  <2>3. Clean' => Allowed(mode)
    BY <1>2 DEF SyncReserve, Clean
  <2>4. Clean' => pub \notin {"publishing", "published"} /\ item # "published"
    BY <2>1, <2>3 DEF Allowed, Publishable, Recoverable
  <2> QED
    BY <2>1, <2>2, <2>4, ReserveRecord
<1>3. CASE DueReserve(a)
  <2>1. /\ item = "scheduled" /\ UNCHANGED <<task, lapses>> /\ Reserve(a, "due", item)
        /\ actor[a].phase = "idle" /\ pub \notin {"publishing", "published"}
    BY <1>3 DEF DueReserve, Publishable
  <2> QED
    BY <1>1, <2>1, ReserveRecord
<1>4. CASE TaskReserve(a)
  <2>1. /\ Reserve(a, "task", item) /\ actor[a].phase = "claimed" /\ item # "deleted"
        /\ task' = [task EXCEPT !.latest = Len(attempts) + 1] /\ lapses \subseteq lapses'
        /\ pub \notin {"publishing", "published"} /\ item # "published"
    BY <1>4 DEF TaskReserve, Claimed, Publishable
  <2>2. task'.holder = task.holder /\ task'.latest = Len(attempts) + 1
    BY <1>1, <2>1 DEF PInv, TypeOK, TaskRow
  <2> QED
    BY <1>1, <2>1, <2>2, ReserveRecord
<1> QED
  BY <1>2, <1>3, <1>4

LEMMA RecordInit == Init => RecordInv
<1> SUFFICES ASSUME Init PROVE RecordInv
  OBVIOUS
<1>1. PInv
  BY PublicationInit
<1>2. /\ \A a \in Actors : ~Transmits(a)
      /\ posted = 0 /\ stray = 0 /\ attempts = <<>> /\ task.latest = 0 /\ item = "in_work"
  BY DEF Init, Idle, NoTask, Transmits
<1>3. Len(attempts) = 0 /\ DOMAIN attempts = {}
  BY <1>2
<1> QED
  BY <1>1, <1>2, <1>3
  DEF RecordInv, TraceInv, AgreeInv, OwnAttempts, Recorded, OneSending, SendingInCharge, InCharge,
      PublishedAgree

LEMMA RecordStep == RecordInv /\ [Next]_vars => RecordInv'
<1> SUFFICES ASSUME RecordInv, [Next]_vars PROVE RecordInv'
  OBVIOUS
<1>1. PInv'
  BY PublicationStep DEF RecordInv
<1>2. CASE UNCHANGED vars
  <2>1. UNCHANGED rows /\ actor' = actor /\ task' = task /\ PInv
    BY <1>2 DEF vars, rows, RecordInv
  <2>2. RowsMove /\ Hush /\ HolderKept /\ LatestKept
    BY <2>1, SameRows, SameSenders DEF HolderKept, LatestKept
  <2> QED
    BY <1>1, <1>2, <2>2, RecordKept DEF vars, rows
<1>3. ASSUME NEW a \in Actors,
             \/ \E op \in Operations : Open(a, op)
             \/ Close(a)
             \/ \E mode \in SyncModes : SyncReserve(a, mode)
             \/ Claim(a) \/ TaskReserve(a) \/ TaskRefuses(a) \/ AlreadyPublished(a)
             \/ DueReserve(a) \/ SendOut(a) \/ Lands(a) \/ Rejected(a) \/ Uncertain(a)
             \/ FinishTask(a) \/ Confirm(a) \/ Leave(a)
      PROVE  RecordInv'
  BY <1>1, <1>3, IdleRecord, ReserveRecords, WireRecord, FailureRecord, ConfirmRecord, LeaveRecord
<1>4. CASE Next
  BY <1>1, <1>3, <1>4, EditorRecord, OutcomeRecord, ReturnRecord, TableRecord, RecoverRecord,
     WireRecord DEF Next
<1> QED
  BY <1>2, <1>4

THEOREM RecordInvariance == Spec => []RecordInv
BY RecordInit, RecordStep, PTL DEF Spec

\* Whatever windows are open, whatever is lost and however late a worker is, a message
\* in the channel has an attempt that is not declared failed.
THEOREM MessagesAreRecorded == Spec => []MessageIsRecorded
<1>1. RecordInv => MessageIsRecorded
  BY DEF RecordInv, TraceInv, Recorded, MessageIsRecorded
<1> QED
  BY <1>1, RecordInvariance, PTL

\* Material, publication and attempts agree that a material is published.
THEOREM RowsAgreeOnPublished == Spec => []PublishedAgree
<1>1. RecordInv => PublishedAgree
  <2> SUFFICES ASSUME RecordInv PROVE PublishedAgree
    OBVIOUS
  <2>1. CASE item = "published" /\ Clean
    BY <2>1 DEF RecordInv, AgreeInv
  <2>2. CASE ~(item = "published" /\ Clean)
    BY <2>2 DEF PublishedAgree, Clean
  <2> QED
    BY <2>1, <2>2
<1> QED
  BY <1>1, RecordInvariance, PTL

-----------------------------------------------------------------------------
(* What is published stays published.                                      *)

Stays == pub' = "published" /\ Len(attempts') = Len(attempts)

LEMMA RewrittenAttempt ==
  ASSUME TypeOK, NEW i, NEW r, attempts' = [attempts EXCEPT ![i] = r]
  PROVE  Len(attempts') = Len(attempts)
<1>1. attempts \in Seq(AttemptRow)
  BY DEF TypeOK
<1> DEFINE n == Len(attempts)
<1>2. n \in Nat /\ attempts \in [1..n -> AttemptRow]
  BY <1>1
<1>3. attempts' \in [1..n -> AttemptRow \cup {r}]
  BY <1>2
<1>4. attempts' \in Seq(AttemptRow \cup {r})
  BY <1>2, <1>3
<1> QED
  BY <1>2, <1>3, <1>4

LEMMA MarkUnknownStays ==
  ASSUME TypeOK, pub = "published", MarkUnknown
  PROVE  Stays
<1>1. CASE Reached = "sending"
  BY <1>1, RewrittenAttempt DEF MarkUnknown, Stays
<1>2. CASE Reached # "sending"
  BY <1>2 DEF MarkUnknown, Stays, rows
<1> QED
  BY <1>1, <1>2

LEMMA PublishStays ==
  ASSUME TypeOK, NEW i, Publish(i)
  PROVE  Stays
BY RewrittenAttempt DEF Publish, Stays

\* Requests and the table of tasks.
LEMMA EditorStays ==
  ASSUME TypeOK, pub = "published", item' # "deleted", {"late", "outdated"} \cap lapses' = {},
         \/ Approve \/ Reopen \/ Schedule \/ Delete
         \/ CheckPublication \/ MarkPublished \/ ReturnToWork
         \/ SubmitPublication \/ SubmitRetry \/ EnqueueDue \/ CancelTask
         \/ LeaseEnds \/ RecoverExpired \/ StrayLands
  PROVE  Stays
<1>1. ASSUME Approve \/ Reopen \/ Schedule PROVE Stays
  BY <1>1 DEF Approve, Reopen, Schedule, SetStatus, Stays
<1>2. ASSUME Delete PROVE FALSE
  BY <1>2 DEF Delete
<1>3. ASSUME CheckPublication PROVE Stays
  BY <1>3, RewrittenAttempt, PublishStays DEF CheckPublication, Stays
<1>4. ASSUME MarkPublished PROVE Stays
  BY <1>4, PublishStays DEF MarkPublished
<1>5. ASSUME ReturnToWork PROVE FALSE
  <2>1. PICK i \in 1..MaxSends : lapses' = lapses \cup Lapse("return", i)
    BY <1>5 DEF ReturnToWork
  <2>2. Allowed("return")
    BY <2>1 DEF Lapse
  <2> QED
    BY <2>2 DEF Allowed, Recoverable
<1>6. ASSUME SubmitPublication \/ SubmitRetry \/ EnqueueDue \/ CancelTask \/ LeaseEnds
             \/ StrayLands
      PROVE  Stays
  BY <1>6 DEF SubmitPublication, SubmitRetry, EnqueueDue, NewTask, CancelTask, LeaseEnds,
              StrayLands, rows, Stays
<1>7. ASSUME RecoverExpired PROVE Stays
  BY <1>7, MarkUnknownStays DEF RecoverExpired
<1> QED
  BY <1>1, <1>2, <1>3, <1>4, <1>5, <1>6, <1>7

\* A sending is not reserved, and no failure is written: a sender who may write one is
\* still what the rows say, and they say published.
LEMMA SenderStays ==
  ASSUME RecordInv, pub = "published", item' # "deleted",
         {"late", "outdated"} \cap lapses' = {}, NEW a \in Actors,
         \/ \E mode \in SyncModes : SyncReserve(a, mode)
         \/ TaskReserve(a) \/ DueReserve(a) \/ Rejected(a) \/ Uncertain(a)
  PROVE  FALSE
<1>1. ASSUME NEW mode \in SyncModes, SyncReserve(a, mode) PROVE FALSE
  <2>1. Allowed(mode)
    BY <1>1 DEF SyncReserve
  <2> QED
    BY <2>1 DEF Allowed, SyncModes, Recoverable, Publishable
<1>2. ASSUME TaskReserve(a) \/ DueReserve(a) PROVE FALSE
  BY <1>2 DEF TaskReserve, DueReserve, Publishable
<1>3. ASSUME NEW status, NEW retryable, WriteFailure(a, status, retryable),
             Transmits(a)
      PROVE  FALSE
  <2>1. item # "deleted"
    BY <1>3 DEF WriteFailure, rows
  <2>2. InCharge(a) /\ Clean
    BY <1>3 DEF WriteFailure, InCharge, Clean
  <2> QED
    BY <2>1, <2>2 DEF RecordInv, AgreeInv, SendingInCharge
<1>4. ASSUME Rejected(a) PROVE FALSE
  BY <1>3, <1>4 DEF Rejected, Transmits
<1>5. ASSUME Uncertain(a) PROVE FALSE
  BY <1>3, <1>5 DEF Uncertain, Transmits
<1> QED
  BY <1>1, <1>2, <1>4, <1>5

LEMMA ProcessStays ==
  ASSUME TypeOK, pub = "published", NEW a \in Actors,
         \/ \E op \in Operations : Open(a, op)
         \/ Close(a) \/ Claim(a) \/ TaskRefuses(a) \/ AlreadyPublished(a)
         \/ SendOut(a) \/ Lands(a) \/ FinishTask(a) \/ Confirm(a) \/ Leave(a)
  PROVE  Stays
<1>1. ASSUME (\E op \in Operations : Open(a, op)) \/ Close(a) \/ Claim(a)
             \/ AlreadyPublished(a) \/ SendOut(a) \/ Lands(a)
      PROVE  Stays
  BY <1>1 DEF Open, Close, Claim, AlreadyPublished, SendOut, Lands, rows, Stays
<1>2. ASSUME TaskRefuses(a) PROVE Stays
  BY <1>2, MarkUnknownStays DEF TaskRefuses, rows, Stays
<1>3. ASSUME FinishTask(a) PROVE Stays
  BY <1>3, MarkUnknownStays DEF FinishTask, rows, Stays
<1>4. ASSUME Confirm(a) PROVE Stays
  BY <1>4, PublishStays DEF Confirm, rows, Stays
<1>5. ASSUME Leave(a) PROVE Stays
  BY <1>5, MarkUnknownStays DEF Leave, rows, Stays
<1> QED
  BY <1>1, <1>2, <1>3, <1>4, <1>5

\* A published material is not sent again and does not become unpublished, unless a
\* worker writes late or a request writes by rows that have changed.
THEOREM PublishedStays == Spec => PublishedIsFinal
<1>1. RecordInv /\ [Next]_vars =>
        [pub = "published" /\ {"late", "outdated"} \cap lapses' = {} /\ item' # "deleted"
           => pub' = "published" /\ Len(attempts') = Len(attempts)]_vars
  <2> SUFFICES ASSUME RecordInv, Next, pub = "published", item' # "deleted",
                      {"late", "outdated"} \cap lapses' = {}
               PROVE  Stays
    BY DEF Stays
  <2>1. TypeOK
    BY DEF RecordInv, PInv
  <2> QED
    BY <2>1, EditorStays, SenderStays, ProcessStays DEF Next
<1> QED
  BY <1>1, RecordInvariance, PTL DEF Spec, PublishedIsFinal
=============================================================================
