----------------------------- MODULE Moderation ------------------------------
(***************************************************************************)
(* The text and the editorial status of one material: requests of editors, *)
(* the synchronous rewrite, rewrite tasks and the publisher, all on one    *)
(* queue_items row.  rewritten_text stands for the text and the signature. *)
(*                                                                         *)
(* A request loads the row without a lock and writes later; its UPDATE     *)
(* carries only the columns whose value differs from the loaded one, and   *)
(* advances updated_at if there is any.  Tasks lock the row instead, which *)
(* makes what they read and write one step.                                *)
(***************************************************************************)
EXTENDS Naturals, FiniteSets

CONSTANTS
  Requests,    \* requests that can be in the middle of something
  Drafts,      \* texts an editor can type
  MaxVersion   \* bound: committed changes of the row

ASSUME ModerationAssumption ==
  /\ MaxVersion \in Nat
  /\ Drafts \cap {"none", "llm"} = {}

VARIABLES
  item,     \* the row; version stands for updated_at
  request,  \* what each request holds in memory
  task,     \* the latest rewrite task of the material
  edits,    \* committed changes other than those of rewrite tasks
  settled   \* the value of edits when the last rewrite task wrote, and when it was
            \* requested

vars == <<item, request, task, edits, settled>>

-----------------------------------------------------------------------------
Editing == {"pending", "rewriting", "rejected"}
Statuses == Editing \cup {"awaiting", "approved", "scheduled", "published", "failed",
                          "publication_unknown", "deleted"}
Texts == Drafts \cup {"none", "llm"}

\* timed: scheduled_at is set.
Rows == [status : Statuses, text : Texts, timed : BOOLEAN, version : 0..MaxVersion]

Decisions == {"edit", "submit", "approve", "reject", "reopen", "schedule", "delete", "rewrite"}
\* loaded: the row is read; asking: the LLM is asked and `rewriting` committed.
Request == [phase : {"idle", "loaded", "asking"}, op : Decisions \cup {"none"},
            row : Rows, previous : Statuses]
RewriteTask == [phase : {"none", "queued", "asking", "done", "failed"},
                snapshot : Rows, edits : Nat]

Collected == [status |-> "pending", text |-> "none", timed |-> FALSE, version |-> 0]
Idle == [phase |-> "idle", op |-> "none", row |-> Collected, previous |-> "pending"]

\* A collected or manually created material; create refuses a second row for the
\* same post and channel.
Init ==
  /\ \E text \in Texts \ {"llm"} : item = [Collected EXCEPT !.text = text]
  /\ request = [r \in Requests |-> Idle]
  /\ task = [phase |-> "none", snapshot |-> Collected, edits |-> 0]
  /\ edits = 0
  /\ settled = [now |-> 0, asked |-> 0]

-----------------------------------------------------------------------------
(* Requests of editors (queue.py, queue_rewrite.py).                       *)

\* Fault: every request is taken whatever the status.
AllowedAlways(op, row) == row.status \notin {"publication_unknown", "deleted"}

Allowed(op, row) ==
  CASE op = "submit"   -> row.status \in Editing /\ row.text # "none"
    [] op \in {"approve", "reject"} -> row.status = "awaiting"
    [] op = "reopen"   -> row.status \in {"awaiting", "approved", "rejected", "scheduled"}
    [] op = "schedule" -> row.status = "approved"
    [] op = "rewrite"  -> row.status \in Editing
    [] OTHER           -> row.status \notin {"publication_unknown", "deleted"}

Load(r, op) ==
  /\ request[r].phase = "idle" /\ Allowed(op, item)
  /\ request' = [request EXCEPT ![r] = [phase |-> "loaded", op |-> op, row |-> item,
                                        previous |-> item.status]]
  /\ UNCHANGED <<item, task, edits, settled>>

\* The client or the process is gone; a committed `rewriting` stays.
Drop(r) ==
  /\ request[r].phase # "idle"
  /\ request' = [request EXCEPT ![r] = Idle]
  /\ UNCHANGED <<item, task, edits, settled>>

\* Fault: the UPDATE carries every column.
FlushWholeRow(loaded, new) == [new EXCEPT !.version = item.version + 1]

\* The UPDATE of a session that loaded the row as `loaded` and now has `new`.
Flush(loaded, new) ==
  LET changed == {c \in DOMAIN item \ {"version"} : new[c] # loaded[c]}
  IN  [c \in DOMAIN item |->
        IF c = "version" THEN item.version + (IF changed = {} THEN 0 ELSE 1)
        ELSE IF c \in changed THEN new[c] ELSE item[c]]

\* No UPDATE of a deleted row; the bound is on the updates.
CanFlush == item.status # "deleted" /\ item.version < MaxVersion

Commit(loaded, new) ==
  /\ CanFlush
  /\ item' = Flush(loaded, new)
  /\ edits' = IF item' = item THEN edits ELSE edits + 1

\* Fault: scheduled_at is left to the caller.
SetStatusAlone(row, status) == [row EXCEPT !.status = status]

\* repository.set_status
SetStatus(row, status) == [row EXCEPT !.status = status, !.timed = (status = "scheduled")]

Target(op) == CASE op = "submit"   -> "awaiting"
                [] op = "approve"  -> "approved"
                [] op = "reject"   -> "rejected"
                [] op = "reopen"   -> "pending"
                [] op = "schedule" -> "scheduled"

Writing(r, op) == request[r].phase = "loaded" /\ request[r].op = op

Decide(r) ==
  \E op \in {"submit", "approve", "reject", "reopen", "schedule"} :
    /\ Writing(r, op)
    /\ LET row == request[r].row
           \* a schedule always brings a new time
           held == IF op = "schedule" THEN [row EXCEPT !.timed = FALSE] ELSE row
       IN  Commit(held, SetStatus(row, Target(op)))
    /\ request' = [request EXCEPT ![r] = Idle]
    /\ UNCHANGED <<task, settled>>

\* update_queue_item leaves the status alone, whatever it is.
Edit(r, text) ==
  /\ Writing(r, "edit")
  /\ Commit(request[r].row, [request[r].row EXCEPT !.text = text])
  /\ request' = [request EXCEPT ![r] = Idle]
  /\ UNCHANGED <<task, settled>>

Delete(r) ==
  /\ Writing(r, "delete") /\ item.status # "deleted"
  /\ item' = [item EXCEPT !.status = "deleted"]
  /\ request' = [request EXCEPT ![r] = Idle]
  /\ UNCHANGED <<task, edits, settled>>

\* rewrite_queue_item commits `rewriting` before it asks the LLM.
StartRewrite(r) ==
  /\ Writing(r, "rewrite")
  /\ IF request[r].row.status = "rewriting"
       THEN /\ request' = [request EXCEPT ![r].phase = "asking"]
            /\ UNCHANGED <<item, edits>>
       ELSE LET row == SetStatus(request[r].row, "rewriting")
            IN  /\ Commit(request[r].row, row)
                /\ request' = [request EXCEPT ![r] = [phase |-> "asking", op |-> @.op, row |-> row,
                                                        previous |-> @.previous]]
  /\ UNCHANGED <<task, settled>>

\* The answer is written over the row as it was loaded before the LLM was asked.
RewriteAnswered(r) ==
  /\ request[r].phase = "asking"
  /\ Commit(request[r].row, [request[r].row EXCEPT !.text = "llm"])
  /\ request' = [request EXCEPT ![r] = Idle]
  /\ UNCHANGED <<task, settled>>

\* The session still holds the row with the status it wrote, and puts the former
\* status back over whatever the row has become.
RewriteFailed(r) ==
  /\ request[r].phase = "asking"
  /\ IF request[r].previous = "rewriting" THEN UNCHANGED <<item, edits>>
     ELSE Commit(request[r].row, SetStatus(request[r].row, request[r].previous))
  /\ request' = [request EXCEPT ![r] = Idle]
  /\ UNCHANGED <<task, settled>>

-----------------------------------------------------------------------------
(* The rewrite task (task_submission.py, handlers.py).                     *)

SubmitRewrite ==
  /\ task.phase \notin {"queued", "asking"}
  /\ item.status \in Editing
  /\ task' = [phase |-> "queued", snapshot |-> item, edits |-> edits]
  /\ UNCHANGED <<item, request, edits, settled>>

\* Fault: only what the editor sees of the material is compared.
SameTextAndStatus(snapshot) ==
  item.text = snapshot.text /\ item.status = snapshot.status

\* rewrite_snapshot of the row now is the one of the payload.
Unchanged(snapshot) ==
  /\ item.text = snapshot.text /\ item.status = snapshot.status
  /\ item.version = snapshot.version

TaskEnds(phase) == task' = [task EXCEPT !.phase = phase]

\* Both before the LLM is asked and when the answer is written.
TaskRefused ==
  /\ task.phase \in {"queued", "asking"} /\ ~Unchanged(task.snapshot)
  /\ TaskEnds("failed")
  /\ UNCHANGED <<item, request, edits, settled>>

TaskAsks ==
  /\ task.phase = "queued" /\ Unchanged(task.snapshot)
  /\ TaskEnds("asking")
  /\ UNCHANGED <<item, request, edits, settled>>

\* Rights, the LLM or the lease: the task fails or is claimed once more.
TaskFails ==
  /\ task.phase = "asking"
  /\ \E phase \in {"queued", "failed"} : TaskEnds(phase)
  /\ UNCHANGED <<item, request, edits, settled>>

TaskApplies ==
  /\ task.phase = "asking" /\ Unchanged(task.snapshot)
  /\ item.version < MaxVersion
  /\ item' = [item EXCEPT !.text = "llm", !.status = "rewriting", !.version = @ + 1]
  /\ settled' = [now |-> edits, asked |-> task.edits]
  /\ TaskEnds("done")
  /\ UNCHANGED <<request, edits>>

-----------------------------------------------------------------------------
(* The publisher writes its outcome by id, over a status set meanwhile;    *)
(* Publication models that, here the outcome follows at once.              *)
Publish ==
  /\ item.status \in {"approved", "scheduled", "failed"}
  /\ item.version < MaxVersion
  /\ \E status \in {"published", "failed", "publication_unknown"} :
       item' = [item EXCEPT !.status = status, !.version = @ + 1,
                            !.timed = @ /\ status # "published"]
  /\ edits' = edits + 1
  /\ UNCHANGED <<request, task, settled>>

-----------------------------------------------------------------------------
Editorial ==
  \/ \E r \in Requests :
       \/ \E op \in Decisions : Load(r, op)
       \/ Drop(r)
       \/ Decide(r) \/ Delete(r)
       \/ \E text \in Drafts \cup {"none"} : Edit(r, text)
       \/ StartRewrite(r) \/ RewriteAnswered(r) \/ RewriteFailed(r)

Tasks ==
  \/ SubmitRewrite \/ TaskRefused \/ TaskAsks \/ TaskFails \/ TaskApplies
  \/ Publish

Next == Editorial \/ Tasks

Spec == Init /\ [][Next]_vars

-----------------------------------------------------------------------------
(* Properties.                                                             *)

\* The rows, requests and tasks have their types, and only a material in editing is
\* rewritten, so a failed rewrite never brings back a later stage.
TypeOK ==
  /\ item \in Rows
  /\ request \in [Requests -> Request]
  /\ \A r \in Requests : request[r].phase = "asking" => request[r].previous \in Editing
  /\ task \in RewriteTask
  /\ edits \in Nat
  /\ settled \in [now : Nat, asked : Nat]

\* A rewrite task writes its text only over a material nobody has touched since
\* the task was requested: no edit and no decision is overwritten, even if text
\* and status are the same again (handlers.rewrite, BACKGROUND_TASKS.md).
TaskRewriteKeepsEdits == settled.now = settled.asked

\* A decision keeps the text committed since its row was loaded, and a text keeps
\* the decision: whatever overlaps, no request moves the status and replaces the
\* text in one write; only a rewrite task does (repositories/queue_item.py).
TextAndStatusApart ==
  [][item'.text # item.text /\ item'.status # item.status
       => task.phase = "asking" /\ task'.phase = "done"]_vars

\* A scheduled material has a time, or publish_due_items would never find it.
ScheduledHasTime == item.status = "scheduled" => item.timed
=============================================================================
