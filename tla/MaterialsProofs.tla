-------------------------- MODULE MaterialsProofs ---------------------------
(***************************************************************************)
(* Theorems about Moderation, for every set of requests and texts, and     *)
(* Directory, for every set of sources, channels and deletions.            *)
(*                                                                         *)
(* What a request writes follows from the row it has loaded, so the        *)
(* invariant says of each request that its operation was allowed on that   *)
(* row; and of a rewrite task that as long as the version is the one of    *)
(* its snapshot, no request has written since.                             *)
(*                                                                         *)
(* NothingOrphaned is not inductive: a deletion must have read the id of   *)
(* every material that it is about to delete, but for those created behind *)
(* its back, and a post must not be stored without its source.             *)
(***************************************************************************)
EXTENDS Moderation, Directory, TLAPS

-----------------------------------------------------------------------------
(* Moderation.                                                             *)

\* What a request may hold: an operation that was allowed on the row it loaded, or a
\* rewrite of a row whose status it has set to `rewriting`.
Faithful(q) ==
  /\ q.phase = "loaded" => Allowed(q.op, q.row) /\ q.previous = q.row.status
  /\ q.phase = "asking" => q.row.status = "rewriting" /\ q.previous \in Editing

\* The version of the row tells whether a request has written since the task was asked for.
Fresh ==
  task.phase \in {"queued", "asking"} =>
    /\ task.snapshot.version <= item.version
    /\ task.snapshot.version = item.version => task.edits = edits

ModerationInv ==
  /\ item \in Rows
  /\ request \in [Requests -> Request]
  /\ task \in RewriteTask
  /\ edits \in Nat
  /\ settled \in [now : Nat, asked : Nat]
  /\ \A r \in Requests : Faithful(request[r])
  /\ Fresh
  /\ TaskRewriteKeepsEdits
  /\ ScheduledHasTime

-----------------------------------------------------------------------------
(* Lemmas about rows and their updates.                                    *)

\* A row keeps its type when one of its columns gets a value of that column.
LEMMA RowColumns ==
  ASSUME NEW row \in Rows
  PROVE  /\ \A s \in Statuses : [row EXCEPT !.status = s] \in Rows
         /\ \A x \in Texts : [row EXCEPT !.text = x] \in Rows
         /\ \A b \in BOOLEAN : [row EXCEPT !.timed = b] \in Rows
         /\ \A v \in 0..MaxVersion : [row EXCEPT !.version = v] \in Rows
BY DEF Rows

\* set_status writes the status and whether there is a time, and nothing else.
LEMMA SettingStatus ==
  ASSUME NEW row \in Rows, NEW status \in Statuses
  PROVE  /\ SetStatus(row, status) \in Rows
         /\ SetStatus(row, status).status = status
         /\ SetStatus(row, status).timed = (status = "scheduled")
         /\ SetStatus(row, status).text = row.text
<1>1. /\ [row EXCEPT !.status = status] \in Rows
      /\ (status = "scheduled") \in BOOLEAN
  BY RowColumns
<1>2. [[row EXCEPT !.status = status] EXCEPT !.timed = (status = "scheduled")] \in Rows
  BY <1>1, RowColumns
<1> QED BY <1>2 DEF SetStatus, Rows

\* An update writes the columns that differ from the loaded row, keeps the others, and
\* advances the version exactly if it writes anything.
LEMMA Flushing ==
  ASSUME item \in Rows, CanFlush, NEW known \in Rows, NEW new \in Rows
  PROVE  /\ Flush(known, new) \in Rows
         /\ Flush(known, new).status = IF new.status # known.status THEN new.status ELSE item.status
         /\ Flush(known, new).text = IF new.text # known.text THEN new.text ELSE item.text
         /\ Flush(known, new).timed = IF new.timed # known.timed THEN new.timed ELSE item.timed
         /\ \/ Flush(known, new) = item
            \/ Flush(known, new).version = item.version + 1
<1> DEFINE changed == {c \in DOMAIN item \ {"version"} : new[c] # known[c]}
<1>1. DOMAIN item = {"status", "text", "timed", "version"}
  BY DEF Rows
<1>2. DOMAIN Flush(known, new) = {"status", "text", "timed", "version"}
  BY <1>1 DEF Flush
<1>3. /\ Flush(known, new).status = IF new.status # known.status THEN new.status ELSE item.status
      /\ Flush(known, new).text = IF new.text # known.text THEN new.text ELSE item.text
      /\ Flush(known, new).timed = IF new.timed # known.timed THEN new.timed ELSE item.timed
      /\ Flush(known, new).version = item.version + (IF changed = {} THEN 0 ELSE 1)
  BY <1>1 DEF Flush
<1>4. item.version + 1 \in 0..MaxVersion /\ item.version \in 0..MaxVersion
  BY ModerationAssumption DEF CanFlush, Rows
<1>5. Flush(known, new) \in Rows
  <2>1. /\ Flush(known, new).status \in Statuses /\ Flush(known, new).text \in Texts
        /\ Flush(known, new).timed \in BOOLEAN
    BY <1>3 DEF Rows
  <2>2. Flush(known, new).version \in 0..MaxVersion
    BY <1>3, <1>4
  <2>3. Flush(known, new) = [status |-> Flush(known, new).status, text |-> Flush(known, new).text,
                              timed |-> Flush(known, new).timed, version |-> Flush(known, new).version]
    <3>1. Flush(known, new) = [c \in {"status", "text", "timed", "version"} |-> Flush(known, new)[c]]
      BY <1>1 DEF Flush
    <3> QED BY <3>1
  <2> QED BY <2>1, <2>2, <2>3 DEF Rows
<1>6. ASSUME changed = {} PROVE Flush(known, new) = item
  <2>1. \A c \in DOMAIN item : Flush(known, new)[c] = item[c]
    <3>1. item.version + 0 = item.version BY <1>4
    <3> QED BY <1>6, <3>1 DEF Flush
  <2> QED BY <1>1, <1>2, <1>5, <2>1 DEF Rows
<1> QED BY <1>3, <1>5, <1>6

\* What a commit keeps: the version tells of it, and a status that it moves comes with the
\* time that belongs to it.
LEMMA Committing ==
  ASSUME ModerationInv, NEW known \in Rows, NEW new \in Rows, Commit(known, new),
         UNCHANGED <<task, settled>>,
         \/ new.status = known.status /\ new.timed = known.timed
         \/ new.status # known.status /\ (new.status = "scheduled" => new.timed /\ ~known.timed)
  PROVE  item' \in Rows /\ edits' \in Nat /\ Fresh' /\ TaskRewriteKeepsEdits' /\ ScheduledHasTime'
<1>1. /\ item' \in Rows /\ item' = Flush(known, new)
      /\ item' = item \/ item'.version = item.version + 1
      /\ edits' = IF item' = item THEN edits ELSE edits + 1
  BY Flushing DEF ModerationInv, Commit
<1>2. item.version \in Nat /\ task.snapshot.version \in Nat
  BY ModerationAssumption DEF ModerationInv, Rows, RewriteTask
<1>3. Fresh'
  BY <1>1, <1>2 DEF ModerationInv, Fresh
<1>4. ScheduledHasTime'
  BY <1>1, Flushing DEF ModerationInv, Commit, ScheduledHasTime
<1>5. edits' \in Nat /\ TaskRewriteKeepsEdits'
  BY <1>1 DEF ModerationInv, TaskRewriteKeepsEdits
<1> QED BY <1>1, <1>3, <1>4, <1>5

\* A request that has returned holds nothing.
LEMMA IdleRequest == Idle \in Request /\ Faithful(Idle)
BY ModerationAssumption DEF Idle, Request, Collected, Rows, Statuses, Editing, Texts, Faithful

\* Replacing what one request holds keeps the others.
LEMMA Replacing ==
  ASSUME ModerationInv, NEW r \in Requests, NEW q \in Request, Faithful(q), request' = [request EXCEPT ![r] = q]
  PROVE  request' \in [Requests -> Request] /\ \A x \in Requests : Faithful(request'[x])
BY DEF ModerationInv

LEMMA ModerationInitially == Init => ModerationInv
<1> SUFFICES ASSUME Init PROVE ModerationInv
  OBVIOUS
<1>1. Collected \in Rows /\ Collected.status = "pending"
  BY ModerationAssumption DEF Collected, Rows, Statuses, Editing, Texts
<1>2. item \in Rows /\ item.status = "pending"
  <2>1. PICK text \in Texts \ {"llm"} : item = [Collected EXCEPT !.text = text]
    BY DEF Init
  <2>2. [Collected EXCEPT !.text = text] \in Rows
    BY <1>1, <2>1, RowColumns
  <2> QED BY <1>1, <2>1, <2>2 DEF Rows
<1>3. task \in RewriteTask
  BY <1>1 DEF Init, RewriteTask
<1>4. request \in [Requests -> Request] /\ \A r \in Requests : Faithful(request[r])
  BY IdleRequest DEF Init
<1>5. edits \in Nat /\ settled \in [now : Nat, asked : Nat]
  BY DEF Init
<1>6. Fresh /\ TaskRewriteKeepsEdits /\ ScheduledHasTime
  BY <1>2 DEF Init, Fresh, TaskRewriteKeepsEdits, ScheduledHasTime
<1> QED BY <1>2, <1>3, <1>4, <1>5, <1>6 DEF ModerationInv

-----------------------------------------------------------------------------
(* Each step keeps the invariant.                                          *)

LEMMA LoadStep == ASSUME ModerationInv, NEW r \in Requests, NEW op \in Decisions, Load(r, op) PROVE ModerationInv'
<1> DEFINE q == [phase |-> "loaded", op |-> op, row |-> item, previous |-> item.status]
<1>1. q \in Request /\ Faithful(q)
  BY DEF Load, ModerationInv, Rows, Request, Faithful
<1>2. request' \in [Requests -> Request] /\ \A x \in Requests : Faithful(request'[x])
  BY <1>1, Replacing DEF Load
<1> QED BY <1>2 DEF Load, ModerationInv, Fresh, TaskRewriteKeepsEdits, ScheduledHasTime

LEMMA DropStep == ASSUME ModerationInv, NEW r \in Requests, Drop(r) PROVE ModerationInv'
<1>1. request' \in [Requests -> Request] /\ \A x \in Requests : Faithful(request'[x])
  BY IdleRequest, Replacing DEF Drop
<1> QED BY <1>1 DEF Drop, ModerationInv, Fresh, TaskRewriteKeepsEdits, ScheduledHasTime

LEMMA DecideStep == ASSUME ModerationInv, NEW r \in Requests, Decide(r) PROVE ModerationInv'
<1>1. PICK op \in {"submit", "approve", "reject", "reopen", "schedule"} :
        /\ Writing(r, op)
        /\ LET row == request[r].row
               held == IF op = "schedule" THEN [row EXCEPT !.timed = FALSE] ELSE row
           IN  Commit(held, SetStatus(row, Target(op)))
  BY DEF Decide
<1> DEFINE row == request[r].row
           held == IF op = "schedule" THEN [row EXCEPT !.timed = FALSE] ELSE row
           new == SetStatus(row, Target(op))
<1>2. row \in Rows /\ held \in Rows
  <2>1. row \in Rows BY DEF ModerationInv, Request
  <2> QED BY <2>1, RowColumns
<1>3. Target(op) \in Statuses /\ (Target(op) = "scheduled" => op = "schedule")
  BY <1>1 DEF Target, Statuses, Editing
<1>4. Target(op) # row.status
  <2>1. Allowed(op, row) BY <1>1 DEF ModerationInv, Faithful, Writing
  <2> QED BY <1>1, <2>1 DEF Allowed, Target, Editing
<1>5. /\ new \in Rows /\ new.status = Target(op)
      /\ new.timed = (Target(op) = "scheduled")
  BY <1>2, <1>3, SettingStatus
<1>6. held.status = row.status /\ (op = "schedule" => ~held.timed)
  BY <1>2 DEF Rows
<1>7. /\ item' \in Rows /\ edits' \in Nat /\ Fresh' /\ TaskRewriteKeepsEdits' /\ ScheduledHasTime'
  <2>1. Commit(held, new) BY <1>1
  <2>2. new.status # held.status /\ (new.status = "scheduled" => new.timed /\ ~held.timed)
    BY <1>3, <1>4, <1>5, <1>6
  <2>3. UNCHANGED <<task, settled>> BY DEF Decide
  <2> HIDE DEF held, new
  <2> QED BY <1>2, <1>5, <2>1, <2>2, <2>3, Committing
<1>8. request' \in [Requests -> Request] /\ \A x \in Requests : Faithful(request'[x])
  BY IdleRequest, Replacing DEF Decide
<1> QED BY <1>7, <1>8 DEF Decide, ModerationInv

LEMMA EditStep ==
  ASSUME ModerationInv, NEW r \in Requests, NEW text \in Drafts \cup {"none"}, Edit(r, text) PROVE ModerationInv'
<1> DEFINE row == request[r].row
           new == [row EXCEPT !.text = text]
<1>1. row \in Rows /\ new \in Rows /\ new.status = row.status /\ new.timed = row.timed
  <2>1. row \in Rows BY DEF ModerationInv, Request
  <2>2. new \in Rows BY <2>1, RowColumns DEF Texts
  <2> QED BY <2>1, <2>2 DEF Rows
<1>2. Commit(row, new) /\ UNCHANGED <<task, settled>>
  BY DEF Edit
<1>3. item' \in Rows /\ edits' \in Nat /\ Fresh' /\ TaskRewriteKeepsEdits' /\ ScheduledHasTime'
  <2> HIDE DEF new
  <2> QED BY <1>1, <1>2, Committing
<1>4. request' \in [Requests -> Request] /\ \A x \in Requests : Faithful(request'[x])
  BY IdleRequest, Replacing DEF Edit
<1> QED BY <1>2, <1>3, <1>4 DEF ModerationInv

LEMMA DeleteStep == ASSUME ModerationInv, NEW r \in Requests, Delete(r) PROVE ModerationInv'
<1>1. item' \in Rows /\ item'.status = "deleted" /\ item'.version = item.version
  <2>1. item' \in Rows BY RowColumns DEF Delete, ModerationInv, Statuses
  <2> QED BY <2>1 DEF Delete, ModerationInv, Rows
<1>2. request' \in [Requests -> Request] /\ \A x \in Requests : Faithful(request'[x])
  BY IdleRequest, Replacing DEF Delete
<1> QED BY <1>1, <1>2 DEF Delete, ModerationInv, Fresh, TaskRewriteKeepsEdits, ScheduledHasTime

LEMMA StartRewriteStep == ASSUME ModerationInv, NEW r \in Requests, StartRewrite(r) PROVE ModerationInv'
<1> DEFINE q == request[r]
<1>1. q \in Request /\ q.row \in Rows /\ q.previous \in Statuses
  BY DEF ModerationInv, Request
<1>2. q.row.status \in Editing /\ q.previous = q.row.status
  BY DEF StartRewrite, Writing, ModerationInv, Faithful, Allowed
<1>3. CASE q.row.status = "rewriting"
  <2> DEFINE n == [phase |-> "asking", op |-> q.op, row |-> q.row, previous |-> q.previous]
  <2>1. n \in Request /\ Faithful(n)
    BY <1>1, <1>2, <1>3 DEF Request, Faithful
  <2>2. request' = [request EXCEPT ![r] = n] /\ UNCHANGED <<item, edits, task, settled>>
    BY <1>1, <1>3 DEF StartRewrite, ModerationInv, Request
  <2>3. request' \in [Requests -> Request] /\ \A x \in Requests : Faithful(request'[x])
    BY <2>1, <2>2, Replacing
  <2> QED BY <2>2, <2>3 DEF ModerationInv, Fresh, TaskRewriteKeepsEdits, ScheduledHasTime
<1>4. CASE q.row.status # "rewriting"
  <2> DEFINE row == SetStatus(q.row, "rewriting")
             n == [phase |-> "asking", op |-> q.op, row |-> row, previous |-> q.previous]
  <2>1. row \in Rows /\ row.status = "rewriting"
    BY <1>1, SettingStatus DEF Statuses, Editing
  <2>2. n \in Request /\ Faithful(n)
    BY <1>1, <1>2, <2>1 DEF Request, Faithful
  <2>3. /\ Commit(q.row, row) /\ UNCHANGED <<task, settled>>
        /\ request' = [request EXCEPT ![r] = n]
    BY <1>4 DEF StartRewrite
  <2>4. request' \in [Requests -> Request] /\ \A x \in Requests : Faithful(request'[x])
    BY <2>2, <2>3, Replacing
  <2>5. item' \in Rows /\ edits' \in Nat /\ Fresh' /\ TaskRewriteKeepsEdits' /\ ScheduledHasTime'
    <3> HIDE DEF row
    <3> QED BY <1>1, <1>4, <2>1, <2>3, Committing
  <2> QED BY <2>3, <2>4, <2>5 DEF ModerationInv
<1> QED BY <1>3, <1>4

LEMMA AnsweredStep == ASSUME ModerationInv, NEW r \in Requests, RewriteAnswered(r) PROVE ModerationInv'
<1> DEFINE row == request[r].row
           new == [row EXCEPT !.text = "llm"]
<1>1. row \in Rows /\ new \in Rows /\ new.status = row.status /\ new.timed = row.timed
  <2>1. row \in Rows BY DEF ModerationInv, Request
  <2>2. new \in Rows BY <2>1, RowColumns DEF Texts
  <2> QED BY <2>1, <2>2 DEF Rows
<1>2. Commit(row, new) /\ UNCHANGED <<task, settled>>
  BY DEF RewriteAnswered
<1>3. item' \in Rows /\ edits' \in Nat /\ Fresh' /\ TaskRewriteKeepsEdits' /\ ScheduledHasTime'
  <2> HIDE DEF new
  <2> QED BY <1>1, <1>2, Committing
<1>4. request' \in [Requests -> Request] /\ \A x \in Requests : Faithful(request'[x])
  BY IdleRequest, Replacing DEF RewriteAnswered
<1> QED BY <1>2, <1>3, <1>4 DEF ModerationInv

LEMMA FailedStep == ASSUME ModerationInv, NEW r \in Requests, RewriteFailed(r) PROVE ModerationInv'
<1>1. request' \in [Requests -> Request] /\ \A x \in Requests : Faithful(request'[x])
  BY IdleRequest, Replacing DEF RewriteFailed
<1>2. CASE request[r].previous = "rewriting"
  BY <1>1, <1>2 DEF RewriteFailed, ModerationInv, Fresh, TaskRewriteKeepsEdits, ScheduledHasTime
<1>3. CASE request[r].previous # "rewriting"
  <2> DEFINE row == request[r].row
             new == SetStatus(row, request[r].previous)
  <2>1. row \in Rows /\ row.status = "rewriting" /\ request[r].previous \in Editing
    BY DEF RewriteFailed, ModerationInv, Faithful, Request
  <2>2. new \in Rows /\ new.status = request[r].previous
    BY <2>1, SettingStatus DEF Statuses
  <2>3. Commit(row, new) /\ UNCHANGED <<task, settled>>
    BY <1>3 DEF RewriteFailed
  <2>4. item' \in Rows /\ edits' \in Nat /\ Fresh' /\ TaskRewriteKeepsEdits' /\ ScheduledHasTime'
    <3>1. new.status # row.status /\ new.status # "scheduled"
      BY <1>3, <2>1, <2>2 DEF Editing
    <3> HIDE DEF new
    <3> QED BY <2>1, <2>2, <2>3, <3>1, Committing
  <2> QED BY <1>1, <2>3, <2>4 DEF ModerationInv
<1> QED BY <1>2, <1>3

LEMMA TaskStep ==
  ASSUME ModerationInv, SubmitRewrite \/ TaskRefused \/ TaskAsks \/ TaskFails \/ TaskApplies PROVE ModerationInv'
<1>1. item.version \in Nat /\ item.version \in 0..MaxVersion
  BY ModerationAssumption DEF ModerationInv, Rows
<1>2. ASSUME NEW phase \in {"queued", "asking", "done", "failed"}, TaskEnds(phase)
      PROVE  /\ task' \in RewriteTask /\ task'.phase = phase
             /\ task'.snapshot = task.snapshot /\ task'.edits = task.edits
  BY <1>2 DEF TaskEnds, ModerationInv, RewriteTask
<1>3. CASE SubmitRewrite
  <2>1. task' \in RewriteTask
    BY <1>3 DEF SubmitRewrite, ModerationInv, RewriteTask
  <2> QED BY <1>1, <1>3, <2>1 DEF SubmitRewrite, ModerationInv, Fresh, TaskRewriteKeepsEdits, ScheduledHasTime
<1>4. CASE TaskRefused
  BY <1>2, <1>4 DEF TaskRefused, ModerationInv, Fresh, TaskRewriteKeepsEdits, ScheduledHasTime
<1>5. CASE TaskAsks
  BY <1>2, <1>5 DEF TaskAsks, ModerationInv, Fresh, TaskRewriteKeepsEdits, ScheduledHasTime
<1>6. CASE TaskFails
  <2>1. PICK phase \in {"queued", "failed"} : TaskEnds(phase)
    BY <1>6 DEF TaskFails
  <2> QED BY <1>2, <1>6, <2>1 DEF TaskFails, ModerationInv, Fresh, TaskRewriteKeepsEdits, ScheduledHasTime
<1>7. CASE TaskApplies
  <2>1. task.snapshot.version = item.version
    BY <1>7 DEF TaskApplies, Unchanged
  <2>2. task.edits = edits /\ task.edits \in Nat
    BY <1>7, <2>1 DEF TaskApplies, ModerationInv, Fresh, RewriteTask
  <2>3. settled' \in [now : Nat, asked : Nat] /\ TaskRewriteKeepsEdits'
    BY <1>7, <2>2 DEF TaskApplies, TaskRewriteKeepsEdits
  <2>4. item' \in Rows /\ item'.status = "rewriting"
    <3> DEFINE a == [item EXCEPT !.text = "llm"]
               b == [a EXCEPT !.status = "rewriting"]
               c == [b EXCEPT !.version = item.version + 1]
    <3>1. a \in Rows BY RowColumns DEF ModerationInv, Texts
    <3>2. b \in Rows
      <4> HIDE DEF a
      <4> QED BY <3>1, RowColumns DEF Statuses, Editing
    <3>3. c \in Rows
      <4>1. item.version + 1 \in 0..MaxVersion BY <1>1, <1>7, ModerationAssumption DEF TaskApplies
      <4> HIDE DEF b
      <4> QED BY <3>2, <4>1, RowColumns
    <3>4. item' = c BY <1>7 DEF TaskApplies
    <3> QED BY <1>7, <3>3, <3>4 DEF TaskApplies, ModerationInv, Rows
  <2>5. task' \in RewriteTask /\ task'.phase = "done"
    BY <1>2, <1>7 DEF TaskApplies
  <2> QED BY <1>7, <2>3, <2>4, <2>5 DEF TaskApplies, ModerationInv, Fresh, ScheduledHasTime
<1> QED BY <1>3, <1>4, <1>5, <1>6, <1>7

LEMMA PublishStep == ASSUME ModerationInv, Publish PROVE ModerationInv'
<1>1. PICK status \in {"published", "failed", "publication_unknown"} :
        item' = [item EXCEPT !.status = status, !.version = @ + 1,
                             !.timed = @ /\ status # "published"]
  BY DEF Publish
<1> DEFINE a == [item EXCEPT !.status = status]
           b == [a EXCEPT !.version = item.version + 1]
           c == [b EXCEPT !.timed = item.timed /\ status # "published"]
<1>2. a \in Rows BY RowColumns DEF ModerationInv, Statuses, Editing
<1>3. b \in Rows
  <2>1. item.version + 1 \in 0..MaxVersion BY ModerationAssumption DEF Publish, ModerationInv, Rows
  <2> HIDE DEF a
  <2> QED BY <1>2, <2>1, RowColumns
<1>4. c \in Rows
  <2>1. (item.timed /\ status # "published") \in BOOLEAN OBVIOUS
  <2> HIDE DEF b
  <2> QED BY <1>3, <2>1, RowColumns
<1>5. item' = c BY <1>1 DEF ModerationInv, Rows
<1>6. item'.status # "scheduled" /\ item'.version = item.version + 1
  BY <1>1 DEF ModerationInv, Rows
<1>7. item.version \in Nat /\ task.snapshot.version \in Nat
  BY ModerationAssumption DEF ModerationInv, Rows, RewriteTask
<1> QED BY <1>4, <1>5, <1>6, <1>7 DEF Publish, ModerationInv, Fresh, TaskRewriteKeepsEdits, ScheduledHasTime

LEMMA ModerationInductive == ModerationInv /\ [Next]_vars => ModerationInv'
<1> SUFFICES ASSUME ModerationInv, [Next]_vars PROVE ModerationInv'
  OBVIOUS
<1>1. CASE Editorial
  BY <1>1, LoadStep, DropStep, DecideStep, DeleteStep, EditStep, StartRewriteStep, AnsweredStep,
     FailedStep DEF Editorial
<1>2. CASE Tasks
  BY <1>2, TaskStep, PublishStep DEF Tasks
<1>3. CASE UNCHANGED vars
  BY <1>3 DEF vars, ModerationInv, Fresh, TaskRewriteKeepsEdits, ScheduledHasTime
<1> QED BY <1>1, <1>2, <1>3 DEF Next

-----------------------------------------------------------------------------
(* Theorems.                                                               *)

\* The inductive invariant holds in every reachable state.
THEOREM Invariance == Spec => []ModerationInv
<1> QED BY ModerationInitially, ModerationInductive, PTL DEF Spec

\* Rows, requests and tasks have their types, and only a material in editing is rewritten.
THEOREM TypeCorrect == Spec => []TypeOK
<1>1. ModerationInv => TypeOK
  BY DEF ModerationInv, TypeOK, Faithful
<1> QED BY <1>1, Invariance, PTL

\* A rewrite task never writes over an edit or a decision made since it was requested
\* (handlers.rewrite).
THEOREM TasksKeepEdits == Spec => []TaskRewriteKeepsEdits
<1>1. ModerationInv => TaskRewriteKeepsEdits
  BY DEF ModerationInv
<1> QED BY <1>1, Invariance, PTL

\* The publication scheduler finds every scheduled material by its time
\* (repositories/queue_item.py).
THEOREM ScheduledIsTimed == Spec => []ScheduledHasTime
<1>1. ModerationInv => ScheduledHasTime
  BY DEF ModerationInv
<1> QED BY <1>1, Invariance, PTL

\* A commit never moves the status and the text at once: a decision keeps the text, a text
\* keeps the status.
THEOREM DecisionsKeepTexts == Spec => TextAndStatusApart
<1> DEFINE Both == item'.text # item.text /\ item'.status # item.status
<1>1. ASSUME ModerationInv, NEW r \in Requests, NEW op \in Decisions, Load(r, op) PROVE ~Both
  BY <1>1 DEF Load
<1>2. ASSUME ModerationInv, NEW r \in Requests, Drop(r) \/ Delete(r) PROVE ~Both
  BY <1>2 DEF Drop, Delete, ModerationInv, Rows
<1>3. ASSUME ModerationInv, NEW r \in Requests, NEW new \in Rows, NEW known \in Rows, Commit(known, new),
             new.text = known.text \/ new.status = known.status
      PROVE  ~Both
  BY <1>3, Flushing DEF ModerationInv, Commit
<1>4. ASSUME ModerationInv, NEW r \in Requests PROVE request[r].row \in Rows /\ request[r].previous \in Statuses
  BY <1>4 DEF ModerationInv, Request
<1>5. ASSUME ModerationInv, NEW r \in Requests, Decide(r) PROVE ~Both
  <2>1. PICK op \in {"submit", "approve", "reject", "reopen", "schedule"} :
          LET row == request[r].row
              held == IF op = "schedule" THEN [row EXCEPT !.timed = FALSE] ELSE row
          IN  Commit(held, SetStatus(row, Target(op)))
    BY <1>5 DEF Decide
  <2> DEFINE row == request[r].row
             held == IF op = "schedule" THEN [row EXCEPT !.timed = FALSE] ELSE row
             new == SetStatus(row, Target(op))
  <2>2. held \in Rows /\ held.text = row.text
    <3>1. held \in Rows BY <1>4, <1>5, RowColumns
    <3> QED BY <1>4, <1>5, <3>1 DEF Rows
  <2>3. new \in Rows /\ new.text = row.text
    <3>1. Target(op) \in Statuses BY <2>1 DEF Target, Statuses, Editing
    <3> QED BY <1>4, <1>5, <3>1, SettingStatus
  <2>4. Commit(held, new) BY <2>1
  <2> HIDE DEF held, new
  <2> QED BY <1>3, <1>5, <2>2, <2>3, <2>4
<1>6. ASSUME ModerationInv, NEW r \in Requests, NEW text \in Texts,
             Commit(request[r].row, [request[r].row EXCEPT !.text = text])
      PROVE  ~Both
  <2>1. [request[r].row EXCEPT !.text = text] \in Rows BY <1>4, <1>6, RowColumns
  <2>2. [request[r].row EXCEPT !.text = text].status = request[r].row.status
    BY <1>4, <1>6, <2>1 DEF Rows
  <2> QED BY <1>3, <1>4, <1>6, <2>1, <2>2
<1>7. ASSUME ModerationInv, NEW r \in Requests, NEW status \in Statuses,
             item' = item \/ Commit(request[r].row, SetStatus(request[r].row, status))
      PROVE  ~Both
  <2>1. SetStatus(request[r].row, status) \in Rows
        /\ SetStatus(request[r].row, status).text = request[r].row.text
    BY <1>4, <1>7, SettingStatus
  <2> QED BY <1>3, <1>4, <1>7, <2>1
<1>8. ASSUME ModerationInv, NEW r \in Requests, StartRewrite(r) \/ RewriteAnswered(r) \/ RewriteFailed(r)
      PROVE  ~Both
  <2>1. "rewriting" \in Statuses /\ "llm" \in Texts BY DEF Statuses, Editing, Texts
  <2>2. request[r].previous \in Statuses BY <1>4, <1>8
  <2>3. CASE StartRewrite(r) BY <1>7, <1>8, <2>1, <2>3 DEF StartRewrite
  <2>4. CASE RewriteAnswered(r) BY <1>6, <1>8, <2>1, <2>4 DEF RewriteAnswered
  <2>5. CASE RewriteFailed(r) BY <1>7, <1>8, <2>2, <2>5 DEF RewriteFailed
  <2> QED BY <1>8, <2>3, <2>4, <2>5
<1>9. ASSUME ModerationInv, Tasks, Both PROVE task.phase = "asking" /\ task'.phase = "done"
  <2>1. CASE TaskApplies BY <1>9, <2>1 DEF TaskApplies, TaskEnds, ModerationInv, RewriteTask
  <2>2. CASE Publish
    <3>1. item'.text = item.text BY <1>9, <2>2 DEF Publish, ModerationInv, Rows
    <3> QED BY <1>9, <3>1
  <2>3. CASE SubmitRewrite \/ TaskRefused \/ TaskAsks \/ TaskFails
    BY <1>9, <2>3 DEF SubmitRewrite, TaskRefused, TaskAsks, TaskFails
  <2> QED BY <1>9, <2>1, <2>2, <2>3 DEF Tasks
<1>10. ASSUME ModerationInv, Editorial PROVE ~Both
  <2>1. ASSUME NEW r \in Requests, NEW text \in Drafts \cup {"none"}, Edit(r, text) PROVE ~Both
    BY <1>6, <1>10, <2>1 DEF Edit, Texts
  <2> QED BY <1>1, <1>2, <1>5, <1>8, <1>10, <2>1 DEF Editorial
<1>11. ModerationInv /\ [Next]_vars => [Both => task.phase = "asking" /\ task'.phase = "done"]_vars
  BY <1>9, <1>10 DEF Next
<1> QED BY <1>11, Invariance, PTL DEF Spec, TextAndStatusApart

-----------------------------------------------------------------------------
(* Directory.                                                              *)

Ids == Sources \cup Channels \cup Materials

DirectoryTyped ==
  /\ entry \in [Sources \cup Channels -> {"none", "active", "paused", "deleted"}]
  /\ link \in [Materials -> {"none", "active", "paused"}]
  /\ collected \subseteq Sources
  /\ material \in [Materials -> {"none", "live", "deleted"}]
  /\ media \subseteq Materials /\ loaded \subseteq Materials /\ excused \subseteq Materials
  /\ deletion \in [Deletions -> [phase : {"idle", "read", "deleted"}, id : Ids \cup {NoRow},
                                 ids : SUBSET Materials]]
  /\ upload \in [Uploads -> Materials \cup {NoRow}]

\* Rows refer to rows that exist.
Referring ==
  /\ \A s \in collected : Present(s)
  /\ \A m \in Materials : m \in Live \/ link[m] # "none" => Present(m[1]) /\ Present(m[2])

\* What a deletion is about to delete it has read.
Seen ==
  \A d \in Deletions, m \in Materials :
    deletion[d].phase = "read" /\ m \in Live /\ m \in Covered(deletion[d].id)
      => m \in deletion[d].ids \cup excused

FilesKept ==
  \A m \in media : \/ m \in Live \cup excused
                   \/ \E d \in Deletions : deletion[d].phase = "deleted" /\ m \in deletion[d].ids

DirectoryInv == DirectoryTyped /\ Referring /\ Seen /\ FilesKept

-----------------------------------------------------------------------------
LEMMA DirectoryInitially == DirectoryInit => DirectoryInv
<1> SUFFICES ASSUME DirectoryInit PROVE DirectoryInv
  OBVIOUS
<1>1. DirectoryTyped
  BY DEF DirectoryInit, DirectoryTyped, NoDeletion
<1>2. Referring /\ Seen /\ FilesKept
  BY DEF DirectoryInit, Referring, Seen, FilesKept, Live, NoDeletion
<1> QED BY <1>1, <1>2 DEF DirectoryInv

\* A material is a source and a channel.
LEMMA MaterialParts ==
  \A m \in Materials : m[1] \in Sources /\ m[2] \in Channels
BY DEF Materials

\* Administration adds rows, or changes their state.
LEMMA PutStep ==
  ASSUME DirectoryInv, NEW id \in Sources \cup Channels, NEW state \in {"active", "paused"}, Puts(id, state)
  PROVE  DirectoryInv'
<1>1. DirectoryTyped' /\ \A e \in Sources \cup Channels : Present(e) => Present(e)'
  BY DEF Puts, DirectoryInv, DirectoryTyped, Present
<1>2. Live' = Live
  BY DEF Puts, Live
<1>3. Referring'
  BY <1>1, <1>2, MaterialParts DEF Puts, DirectoryInv, DirectoryTyped, Referring
<1> QED BY <1>1, <1>2, <1>3 DEF Puts, DirectoryInv, Seen, FilesKept

LEMMA LinkStep ==
  ASSUME DirectoryInv, NEW m \in Materials, NEW state \in {"none", "active", "paused"}, PutsLink(m, state),
         state = "none" \/ link[m] # "none" \/ (Present(m[1]) /\ Present(m[2]))
  PROVE  DirectoryInv'
<1>1. Live' = Live /\ \A e : Present(e)' <=> Present(e)
  BY DEF PutsLink, Live, Present
<1>2. DirectoryTyped'
  BY DEF PutsLink, DirectoryInv, DirectoryTyped
<1>3. Referring'
  BY <1>1 DEF PutsLink, DirectoryInv, DirectoryTyped, Referring
<1> QED BY <1>1, <1>2, <1>3 DEF PutsLink, DirectoryInv, Seen, FilesKept

\* New materials of rows that exist: those a deletion has not seen are excused.
LEMMA CreateStep ==
  ASSUME DirectoryInv, NEW new \in SUBSET Materials, Creates(new),
         \A m \in new : Present(m[1]) /\ Present(m[2]),
         collected' \subseteq Sources, \A s \in collected' : Present(s),
         loaded' \subseteq Materials, UNCHANGED <<entry, link, media, deletion, upload>>
  PROVE  DirectoryInv'
<1>1. Live' = Live \cup new /\ \A e : Present(e)' <=> Present(e)
  BY DEF Creates, Live, Present, DirectoryInv, DirectoryTyped
<1>2. excused \subseteq excused' /\ Unseen(new) \subseteq excused' /\ excused' \subseteq Materials
  BY DEF Creates, Unseen, DirectoryInv, DirectoryTyped
<1>3. DirectoryTyped'
  BY <1>2 DEF Creates, DirectoryInv, DirectoryTyped
<1>4. Referring'
  BY <1>1 DEF DirectoryInv, Referring
<1>5. Seen'
  BY <1>1, <1>2 DEF DirectoryInv, Seen, Unseen, Covered
<1>6. FilesKept'
  BY <1>1, <1>2 DEF DirectoryInv, FilesKept
<1> QED BY <1>3, <1>4, <1>5, <1>6 DEF DirectoryInv

\* The collector and the editor: their other steps create nothing.
LEMMA CollectStep == ASSUME DirectoryInv, NEW s \in Sources, CollectSource(s) PROVE DirectoryInv'
<1> DEFINE served == {m \in loaded : m[1] = s}
           new == {m \in served : material[m] = "none"}
<1>1. loaded' = loaded \ served /\ UNCHANGED <<entry, link, media, deletion, upload>>
  BY DEF CollectSource
<1>2. loaded' \subseteq Materials
  BY <1>1 DEF DirectoryInv, DirectoryTyped
<1>3. CASE s \notin collected /\ \A m \in served : Present(s) /\ Present(m[2])
  <2>1. collected' = collected \cup {s} /\ Creates(new) /\ served # {}
    BY <1>3 DEF CollectSource
  <2>2. new \in SUBSET Materials /\ \A m \in new : Present(m[1]) /\ Present(m[2])
    BY <1>3 DEF DirectoryInv, DirectoryTyped
  <2>3. \A e \in collected' : Present(e)
    BY <1>3, <2>1 DEF DirectoryInv, Referring
  <2>4. collected' \subseteq Sources
    BY <2>1 DEF DirectoryInv, DirectoryTyped
  <2> HIDE DEF new
  <2> QED BY <1>1, <1>2, <2>1, <2>2, <2>3, <2>4, CreateStep
<1>4. CASE ~(s \notin collected /\ \A m \in served : Present(s) /\ Present(m[2]))
  <2>1. UNCHANGED <<collected, material, excused>>
    BY <1>4 DEF CollectSource
  <2> QED BY <1>1, <1>2, <2>1
       DEF DirectoryInv, DirectoryTyped, Referring, Seen, FilesKept, Live, Present, Covered
<1> QED BY <1>3, <1>4

LEMMA CreateItemStep == ASSUME DirectoryInv, NEW m \in Materials, CreateItem(m) PROVE DirectoryInv'
<1>1. Creates({m}) /\ UNCHANGED <<entry, link, collected, media, loaded, deletion, upload>>
  BY DEF CreateItem
<1>2. Present(m[1]) /\ Present(m[2]) /\ \A s \in collected : Present(s)
  BY DEF CreateItem, DirectoryInv, Referring
<1> QED BY <1>1, <1>2, CreateStep DEF DirectoryInv, DirectoryTyped

LEMMA OtherStep ==
  ASSUME DirectoryInv, LoadLinks \/ \E s \in Sources : SkipSource(s)
  PROVE  DirectoryInv'
BY DEF LoadLinks, SkipSource, DirectoryInv, DirectoryTyped, Referring, Seen, FilesKept, Live, Present, Covered

\* An upload: what it finds is a material, and a file it stores after the material and
\* its cleanup is excused.
LEMMA UploadStep ==
  ASSUME DirectoryInv, NEW u \in Uploads,
         (\E m \in Materials : BeginUpload(u, m)) \/ StoreFiles(u) \/ RefuseUpload(u)
  PROVE  DirectoryInv'
<1>1. UNCHANGED <<entry, link, collected, material, loaded, deletion>>
  BY DEF BeginUpload, StoreFiles, RefuseUpload
<1>2. Live' = Live /\ \A e : Present(e)' <=> Present(e)
  BY <1>1 DEF Live, Present
<1>3. upload' \in [Uploads -> Materials \cup {NoRow}]
  BY DEF BeginUpload, StoreFiles, RefuseUpload, DirectoryInv, DirectoryTyped
<1>4. /\ excused \subseteq excused' /\ excused' \subseteq Materials
      /\ media' \subseteq Materials
      /\ \A m \in media' \ media : m \in Live \cup excused' \/ ~CleanedUp(m)
  <2>1. CASE (\E m \in Materials : BeginUpload(u, m)) \/ RefuseUpload(u)
    BY <2>1 DEF BeginUpload, RefuseUpload, DirectoryInv, DirectoryTyped
  <2>2. CASE StoreFiles(u)
    <3>1. upload[u] \in Materials
      BY <2>2 DEF StoreFiles, DirectoryInv, DirectoryTyped
    <3> QED BY <2>2, <3>1 DEF StoreFiles, DirectoryInv, DirectoryTyped
  <2> QED BY <2>1, <2>2
<1>5. DirectoryTyped'
  BY <1>1, <1>3, <1>4 DEF DirectoryInv, DirectoryTyped
<1>6. Referring'
  BY <1>1, <1>2 DEF DirectoryInv, Referring
<1>7. Seen'
  BY <1>1, <1>2, <1>4 DEF DirectoryInv, Seen, Covered
<1>8. FilesKept'
  BY <1>1, <1>2, <1>4 DEF DirectoryInv, FilesKept, CleanedUp
<1> QED BY <1>5, <1>6, <1>7, <1>8 DEF DirectoryInv

-----------------------------------------------------------------------------
(* The steps of a deletion.                                                *)

LEMMA BeginStep ==
  ASSUME DirectoryInv, NEW d \in Deletions, NEW id \in Ids, BeginDeletion(d, id) PROVE DirectoryInv'
<1>1. /\ deletion[d].phase = "idle"
      /\ deletion' = [deletion EXCEPT ![d] = [phase |-> "read", id |-> id, ids |-> Live \cap Covered(id)]]
      /\ UNCHANGED <<entry, link, collected, material, media, loaded, upload, excused>>
  BY DEF BeginDeletion
<1>2. Live' = Live /\ Live \subseteq Materials /\ \A e : Present(e)' <=> Present(e)
  BY <1>1 DEF Live, Present
<1>3. DirectoryTyped'
  BY <1>1, <1>2 DEF DirectoryInv, DirectoryTyped
<1>4. Referring'
  BY <1>1, <1>2 DEF DirectoryInv, Referring
<1>5. Seen'
  BY <1>1, <1>2 DEF DirectoryInv, DirectoryTyped, Seen
<1>6. FilesKept'
  BY <1>1, <1>2 DEF DirectoryInv, DirectoryTyped, FilesKept
<1> QED BY <1>3, <1>4, <1>5, <1>6 DEF DirectoryInv

LEMMA DeleteRowsStep == ASSUME DirectoryInv, NEW d \in Deletions, DeleteRows(d) PROVE DirectoryInv'
<1> DEFINE id == deletion[d].id
<1>1. /\ deletion[d].phase = "read"
      /\ entry' = [e \in DOMAIN entry |-> IF e = id THEN "deleted" ELSE entry[e]]
      /\ link' = [m \in Materials |-> IF id \in {m[1], m[2]} THEN "none" ELSE link[m]]
      /\ collected' = collected \ {id}
      /\ material' = [m \in Materials |-> IF m \in Covered(id) THEN "deleted" ELSE material[m]]
      /\ deletion' = [deletion EXCEPT ![d] = [phase |-> "deleted", id |-> NoRow, ids |-> @.ids]]
      /\ UNCHANGED <<media, loaded, upload, excused>>
  BY DEF DeleteRows, Cascade
<1>2. /\ deletion'[d].phase = "deleted" /\ deletion'[d].ids = deletion[d].ids
      /\ \A x \in Deletions \ {d} : deletion'[x] = deletion[x]
  BY <1>1 DEF DirectoryInv, DirectoryTyped
<1>3. Live' = Live \ Covered(id)
  BY <1>1 DEF Live
<1>4. \A e \in Sources \cup Channels : e # id => (Present(e)' <=> Present(e))
  BY <1>1 DEF Present, DirectoryInv, DirectoryTyped
<1>5. DirectoryTyped'
  BY <1>1 DEF DirectoryInv, DirectoryTyped
<1>6. Referring'
  <2>1. \A s \in collected' : Present(s)'
    BY <1>1, <1>4 DEF DirectoryInv, DirectoryTyped, Referring
  <2>2. ASSUME NEW m \in Materials, m \in Live' \/ link'[m] # "none"
        PROVE  Present(m[1])' /\ Present(m[2])'
    <3>1. m \in Live \/ link[m] # "none"
      BY <1>1, <1>3, <2>2
    <3>2. m[1] # id /\ m[2] # id
      BY <1>1, <1>3, <2>2 DEF Covered
    <3> QED BY <1>4, <3>1, <3>2, MaterialParts DEF DirectoryInv, Referring
  <2> QED BY <2>1, <2>2 DEF Referring
<1>7. Seen'
  BY <1>1, <1>2, <1>3 DEF DirectoryInv, Seen, Covered
<1>8. FilesKept'
  <2> SUFFICES ASSUME NEW m \in media
               PROVE  \/ m \in Live' \cup excused
                      \/ \E x \in Deletions : deletion'[x].phase = "deleted" /\ m \in deletion'[x].ids
    BY <1>1 DEF FilesKept
  <2>1. CASE m \in Live /\ m \in Covered(id)
    BY <1>1, <1>2, <2>1 DEF DirectoryInv, DirectoryTyped, Seen
  <2>2. CASE m \in Live \cup excused /\ ~(m \in Live /\ m \in Covered(id))
    BY <1>3, <2>2
  <2>3. CASE \E x \in Deletions : deletion[x].phase = "deleted" /\ m \in deletion[x].ids
    BY <1>1, <1>2, <2>3
  <2> QED BY <2>1, <2>2, <2>3 DEF DirectoryInv, FilesKept
<1> QED BY <1>5, <1>6, <1>7, <1>8 DEF DirectoryInv

LEMMA EndStep == ASSUME DirectoryInv, NEW d \in Deletions, CleanUp(d) \/ Breaks(d) PROVE DirectoryInv'
<1>1. /\ deletion' = [deletion EXCEPT ![d] = NoDeletion]
      /\ UNCHANGED <<entry, link, collected, material, loaded, upload>>
      /\ media' \subseteq media
  BY DEF CleanUp, Breaks
<1>2. excused \subseteq excused' /\ excused' \subseteq Materials
  BY DEF CleanUp, Breaks, DirectoryInv, DirectoryTyped
<1>3. deletion'[d].phase = "idle" /\ \A x \in Deletions \ {d} : deletion'[x] = deletion[x]
  BY <1>1 DEF DirectoryInv, DirectoryTyped, NoDeletion
<1>4. Live' = Live /\ \A e : Present(e)' <=> Present(e)
  BY <1>1 DEF Live, Present
<1>5. DirectoryTyped'
  <2>1. NoDeletion \in [phase : {"idle", "read", "deleted"}, id : Ids \cup {NoRow}, ids : SUBSET Materials]
    BY DEF NoDeletion
  <2> QED BY <1>1, <1>2, <2>1 DEF DirectoryInv, DirectoryTyped
<1>6. Referring'
  BY <1>1, <1>4 DEF DirectoryInv, Referring
<1>7. Seen'
  BY <1>2, <1>3, <1>4 DEF DirectoryInv, Seen, Covered
<1>8. FilesKept'
  <2> SUFFICES ASSUME NEW m \in media'
               PROVE  \/ m \in Live \cup excused'
                      \/ \E x \in Deletions : deletion'[x].phase = "deleted" /\ m \in deletion'[x].ids
    BY <1>4 DEF FilesKept
  <2>1. CASE m \in Live \cup excused
    BY <1>2, <2>1
  <2>2. CASE deletion[d].phase = "deleted" /\ m \in deletion[d].ids
    BY <2>2 DEF CleanUp, Breaks
  <2>3. ASSUME NEW x \in Deletions \ {d}, deletion[x].phase = "deleted" /\ m \in deletion[x].ids
        PROVE  deletion'[x].phase = "deleted" /\ m \in deletion'[x].ids
    BY <1>3, <2>3
  <2> QED BY <1>1, <2>1, <2>2, <2>3 DEF DirectoryInv, FilesKept
<1> QED BY <1>5, <1>6, <1>7, <1>8 DEF DirectoryInv

-----------------------------------------------------------------------------
LEMMA DirectoryInductive == DirectoryInv /\ [DirectoryNext]_directoryVars => DirectoryInv'
<1> SUFFICES ASSUME DirectoryInv, [DirectoryNext]_directoryVars PROVE DirectoryInv'
  OBVIOUS
<1>1. ASSUME NEW state \in {"active", "paused"}, NEW s \in Sources, NEW t \in Channels,
             CreateLink(s, t, state)
      PROVE  DirectoryInv'
  <2>1. <<s, t>> \in Materials /\ <<s, t>>[1] = s /\ <<s, t>>[2] = t
    BY DEF Materials
  <2> QED BY <1>1, <2>1, LinkStep DEF CreateLink
<1>2. ASSUME NEW state \in {"active", "paused"}, NEW m \in Materials, UpdateLink(m, state)
      PROVE  DirectoryInv'
  BY <1>2, LinkStep DEF UpdateLink
<1>3. ASSUME NEW d \in Deletions, DeleteRows(d) \/ CleanUp(d) \/ Breaks(d) PROVE DirectoryInv'
  BY <1>3, DeleteRowsStep, EndStep
<1>4. CASE UNCHANGED directoryVars
  BY <1>4 DEF directoryVars, DirectoryInv, DirectoryTyped, Referring, Seen, FilesKept, Live, Present, Covered
<1>5. ASSUME NEW d \in Deletions, NEW id \in Sources \cup Channels \cup Materials, BeginDeletion(d, id)
      PROVE  DirectoryInv'
  BY <1>5, BeginStep DEF Ids
<1>6. ASSUME NEW state \in {"active", "paused"}, NEW s \in Sources, CreateSource(s, state) \/ UpdateSource(s, state)
      PROVE  DirectoryInv'
  BY <1>6, PutStep DEF CreateSource, UpdateSource
<1>7. ASSUME NEW state \in {"active", "paused"}, NEW t \in Channels, CreateTarget(t, state) \/ UpdateTarget(t, state)
      PROVE  DirectoryInv'
  BY <1>7, PutStep DEF CreateTarget, UpdateTarget
<1>8. ASSUME NEW m \in Materials, DeleteLink(m) PROVE DirectoryInv'
  BY <1>8, LinkStep DEF DeleteLink
<1>9. ASSUME NEW s \in Sources, CollectSource(s) \/ SkipSource(s) PROVE DirectoryInv'
  BY <1>9, CollectStep, OtherStep
<1>10. ASSUME NEW m \in Materials, CreateItem(m) PROVE DirectoryInv'
  BY <1>10, CreateItemStep
<1>11. CASE LoadLinks
  BY <1>11, OtherStep
<1>12. ASSUME NEW u \in Uploads, (\E m \in Materials : BeginUpload(u, m)) \/ StoreFiles(u) \/ RefuseUpload(u)
       PROVE  DirectoryInv'
  BY <1>12, UploadStep
<1> QED BY <1>1, <1>2, <1>3, <1>4, <1>5, <1>6, <1>7, <1>8, <1>9, <1>10, <1>11, <1>12 DEF DirectoryNext

\* Nothing outlives what it belongs to, and a file outlives its material only in the
\* cases NothingOrphaned names, an upload overtaken by a deletion among them
\* (sources.py, targets.py, queue.py, media_storage.py).
THEOREM NothingIsOrphaned == DirectorySpec => []NothingOrphaned
<1>1. DirectoryInv => NothingOrphaned
  BY DEF DirectoryInv, Referring, FilesKept, NothingOrphaned
<1>2. DirectorySpec => []DirectoryInv
  BY DirectoryInitially, DirectoryInductive, PTL DEF DirectorySpec
<1> QED BY <1>1, <1>2, PTL
=============================================================================
