------------------------------ MODULE Collection ------------------------------
(***************************************************************************)
(* The collector: passes over the active VK sources that store new posts   *)
(* and put them into the queue, the background task that starts a pass,    *)
(* and the history of runs.                                                *)
(*                                                                         *)
(* The posts of a wall are numbered as VK numbers them, from 1.  wall[s]   *)
(* is the number of the newest.  A source goes on from the newest post     *)
(* stored for it, and the first time takes a single one.                   *)
(***************************************************************************)
EXTENDS Naturals, FiniteSets, FiniteSetsExt

CONSTANTS
  Sources,       \* ids of the sources
  Targets,       \* channels every source is linked to
  Executors,     \* processes that can run a pass
  Nobody,        \* not an executor
  Blank,         \* posts, each a source and a number, without text, photo or video
  Unsteady,      \* posts that are pinned to their wall now and then, or deleted from it
  MaxPosts,      \* bound: posts of each wall
  PageSize,      \* posts VK returns at once (100)
  MaxAttempts,   \* POLICIES[COLLECTION].max_attempts
  MaxFaults      \* bound: failures, restarts and changes of the active sources

ASSUME CollectionAssumption ==
  /\ Sources \subseteq Nat /\ IsFiniteSet(Sources)
  /\ Nobody \notin Executors
  /\ MaxPosts \in [Sources -> Nat \ {0}]
  /\ {PageSize, MaxAttempts} \subseteq Nat \ {0} /\ MaxFaults \in Nat

VARIABLES
  wall, pin,     \* of each source at VK: the newest post, the pinned one (0: none),
  gone,          \* and the posts deleted there
  active,        \* sources with an active link to an active channel
  stored,        \* posts of each source
  item,          \* queue_items: a source, a post and a channel
  deleted,       \* ghost: the ones an editor has deleted
  task,          \* the latest collection task
  lock,          \* holder of the advisory lock
  pass,          \* what each executor is doing
  run,           \* the latest row of collection_runs written by each executor
  faults,
  shifted        \* ghost: sources that lost an ordinary post between two pages of a
                 \* reading

vars == <<wall, pin, gone, active, stored, item, deleted, task, lock, pass, run, faults,
          shifted>>
vk == <<wall, pin, gone, shifted>>
rows == <<stored, item, deleted>>

-----------------------------------------------------------------------------
Posts(s) == 1..MaxPosts[s]
HasContent(s, p) == <<s, p>> \notin Blank
Newest(S) == IF S = {} THEN 0 ELSE Max(S)

\* start: ghost, the walls when the pass began; checkpoint: _get_last_external_post_id;
\* repeated: two pages have shown the same post; skimmed: ghost, sources whose first
\* reading met a pinned post.
PassState == [phase : {"idle", "claimed", "next", "asking", "pinned", "asked", "ended"},
              todo : SUBSET Sources, start : [Sources -> Nat], sources : SUBSET Sources,
              skimmed : SUBSET Sources,
              checkpoint : Nat, offset : Nat, batch : SUBSET Nat, repeated : BOOLEAN,
              failed : BOOLEAN, succeeded : BOOLEAN]
TaskState == [state : {"none", "queued", "running", "ended"},
              owner : Executors \cup {Nobody}, attempts : 0..MaxAttempts]
RunState == [status : {"none", "running", "success", "partial", "failed", "skipped",
                       "interrupted"}, current : BOOLEAN]
NoPass == [phase |-> "idle", todo |-> {}, start |-> [s \in Sources |-> 0],
           sources |-> {}, skimmed |-> {}, checkpoint |-> 0, offset |-> 0, batch |-> {},
           repeated |-> FALSE, failed |-> FALSE, succeeded |-> FALSE]

Init ==
  /\ wall = [s \in Sources |-> 1] /\ pin = [s \in Sources |-> 0]
  /\ gone = [s \in Sources |-> {}]
  /\ active = Sources
  /\ stored = [s \in Sources |-> {}]
  /\ item = {} /\ deleted = {}
  /\ task = [state |-> "none", owner |-> Nobody, attempts |-> 0]
  /\ lock = Nobody
  /\ pass = [e \in Executors |-> NoPass]
  /\ run = [e \in Executors |-> [status |-> "none", current |-> FALSE]]
  /\ faults = 0 /\ shifted = {}

Fault == faults < MaxFaults /\ faults' = faults + 1

\* order_by(Source.source_id)
Current(e) == Min(pass[e].todo)

-----------------------------------------------------------------------------
(* VK and the editors.                                                     *)

Existing(s) == (1..wall[s]) \ gone[s]
Ordinary(s) == Existing(s) \ {pin[s]}

Appear(s) ==
  /\ wall[s] < MaxPosts[s] /\ wall' = [wall EXCEPT ![s] = @ + 1]
  /\ UNCHANGED <<pin, gone, shifted, active, rows, task, lock, pass, run, faults>>

\* An ordinary post leaves the pages: the older ones move up, which a reading between
\* two pages does not notice.
BetweenPages(e, s) == pass[e].phase = "asking" /\ pass[e].offset > 0 /\ Current(e) = s
Leaves(s) ==
  shifted' = IF \E e \in Executors : BetweenPages(e, s) THEN shifted \cup {s} ELSE shifted

Pin(s, p) ==
  /\ <<s, p>> \in Unsteady /\ p \in Ordinary(s)
  /\ pin' = [pin EXCEPT ![s] = p] /\ Leaves(s)
  /\ UNCHANGED <<wall, gone, active, rows, task, lock, pass, run, faults>>

Unpin(s) ==
  /\ pin[s] # 0 /\ pin' = [pin EXCEPT ![s] = 0]
  /\ UNCHANGED <<wall, gone, shifted, active, rows, task, lock, pass, run, faults>>

Vanish(s, p) ==
  /\ <<s, p>> \in Unsteady /\ p \in Existing(s)
  /\ gone' = [gone EXCEPT ![s] = @ \cup {p}]
  /\ IF pin[s] = p THEN pin' = [pin EXCEPT ![s] = 0] /\ UNCHANGED shifted
                   ELSE UNCHANGED pin /\ Leaves(s)
  /\ UNCHANGED <<wall, active, rows, task, lock, pass, run, faults>>

Switch(s) ==
  /\ Fault /\ active' = IF s \in active THEN active \ {s} ELSE active \cup {s}
  /\ UNCHANGED <<vk, rows, task, lock, pass, run>>

DeleteItem(i) ==
  /\ item' = item \ {i} /\ deleted' = deleted \cup {i}
  /\ UNCHANGED <<vk, active, stored, task, lock, pass, run, faults>>

-----------------------------------------------------------------------------
(* The task (scheduler.run_once, enqueue_collection, handlers.collection). *)

\* One collection task is active at a time; a slot of the schedule asks once.
Enqueue ==
  /\ task.state \in {"none", "ended"}
  /\ task' = [state |-> "queued", owner |-> Nobody, attempts |-> 0]
  /\ run' = [e \in Executors |-> [run[e] EXCEPT !.current = FALSE]]
  /\ UNCHANGED <<vk, active, rows, lock, pass, faults>>

Claim(e) ==
  /\ task.state = "queued" /\ pass[e].phase = "idle"
  /\ task' = [state |-> "running", owner |-> e, attempts |-> task.attempts + 1]
  /\ pass' = [pass EXCEPT ![e].phase = "claimed"]
  /\ UNCHANGED <<vk, active, rows, lock, run, faults>>

Again == [state |-> IF task.attempts < MaxAttempts THEN "queued" ELSE "ended",
          owner |-> Nobody, attempts |-> task.attempts]
Ended == [task EXCEPT !.state = "ended", !.owner = Nobody]

\* A late executor finds its lease lost.
TaskEnds(e, new) == task' = IF task.owner = e THEN new ELSE task

\* collection_busy
Busy(e) ==
  /\ pass[e].phase = "claimed" /\ lock # Nobody
  /\ TaskEnds(e, Again)
  /\ pass' = [pass EXCEPT ![e] = NoPass]
  /\ UNCHANGED <<vk, active, rows, lock, run, faults>>

\* A pass that raised is unexpected_task_error, any other a success, partial or not.
EndTask(e) ==
  /\ pass[e].phase = "ended"
  /\ TaskEnds(e, Ended)
  /\ pass' = [pass EXCEPT ![e] = NoPass]
  /\ UNCHANGED <<vk, active, rows, lock, run, faults>>

\* recover_expired: the lease ends while its owner is dead or only stalled.
Expire ==
  /\ task.state = "running"
  /\ IF pass[task.owner].phase = "idle" THEN faults' = faults ELSE Fault
  /\ task' = Again
  /\ run' = [e \in Executors |-> IF run[e] = [status |-> "running", current |-> TRUE]
                                   THEN [run[e] EXCEPT !.status = "interrupted"] ELSE run[e]]
  /\ UNCHANGED <<vk, active, rows, lock, pass>>

\* Fault: the advisory lock stays with the pooled connection.
ReleaseForgotten(e) == lock' = lock

Release(e) == lock' = IF lock = e THEN Nobody ELSE lock

\* The process dies: its connections close, its task waits for recovery.
Crash(e) ==
  /\ Fault /\ pass[e].phase # "idle"
  /\ Release(e) /\ pass' = [pass EXCEPT ![e] = NoPass]
  /\ UNCHANGED <<vk, active, rows, task, run>>

\* The time of the task is up or its heartbeat failed: CancelledError passes every
\* except clause of the pass, so its run stays `running`.
Cancelled(e) ==
  /\ Fault /\ pass[e].phase \notin {"idle", "ended"}
  /\ Release(e) /\ pass' = [pass EXCEPT ![e] = NoPass]
  /\ \/ TaskEnds(e, Again)
     \/ UNCHANGED task
  /\ UNCHANGED <<vk, active, rows, run>>

-----------------------------------------------------------------------------
(* A pass (collector.py).                                                  *)

\* Fault: the pass does not take the lock.
StartPassUnlocked(e) ==
  /\ pass[e].phase = "claimed"
  /\ pass' = [pass EXCEPT ![e] = [NoPass EXCEPT !.phase = "next", !.start = wall,
                                        !.todo = active, !.sources = active]]
  /\ run' = [run EXCEPT ![e] = [status |-> "running", current |-> task.owner = e]]
  /\ UNCHANGED <<vk, active, rows, task, lock, faults>>

\* Both locks, start_run and the active links.
StartPass(e) ==
  /\ pass[e].phase = "claimed" /\ lock = Nobody
  /\ lock' = e
  /\ pass' = [pass EXCEPT ![e] = [NoPass EXCEPT !.phase = "next", !.start = wall,
                                        !.todo = active, !.sources = active]]
  /\ run' = [run EXCEPT ![e] = [status |-> "running", current |-> task.owner = e]]
  /\ UNCHANGED <<vk, active, rows, task, faults>>

Inside(e, phase) == pass[e].phase = phase /\ UNCHANGED <<vk, active, task>>

BeginSource(e) ==
  /\ Inside(e, "next") /\ pass[e].todo # {} /\ ~pass[e].failed
  /\ pass' = [pass EXCEPT ![e].phase = "asking", ![e].offset = 0, ![e].batch = {},
                          ![e].checkpoint = Newest(stored[Current(e)])]
  /\ UNCHANGED <<rows, lock, run, faults>>

\* The posts of a page; VK counts the offset in ordinary posts from the newest.
Rank(s, p) == Cardinality({q \in Ordinary(s) : q > p})
Page(s, offset) == {p \in Ordinary(s) : Rank(s, p) \in offset..(offset + PageSize - 1)}
Ranked(s, n) == {p \in Ordinary(s) : Rank(s, p) = n}

\* get_latest_post: the first item of the wall, which is the pinned post if there is one.
ReadLatest(e) ==
  /\ Inside(e, "asking") /\ pass[e].checkpoint = 0
  /\ LET s == Current(e)
     IN  pass' = [pass EXCEPT ![e].phase = IF pin[s] = 0 THEN "asked" ELSE "pinned",
                              ![e].batch = IF pin[s] = 0 THEN Ranked(s, 0) ELSE {pin[s]}]
  /\ UNCHANGED <<rows, lock, run, faults>>

\* It then asks with offset 1, which passes over the newest ordinary post as well, and
\* keeps the pinned one if nothing comes.
ReadNext(e) ==
  /\ Inside(e, "pinned")
  /\ LET next == Ranked(Current(e), 1)
     IN  pass' = [pass EXCEPT ![e].phase = "asked",
                              ![e].batch = IF next = {} THEN @ ELSE next,
                              ![e].skimmed = @ \cup {Current(e)}]
  /\ UNCHANGED <<rows, lock, run, faults>>

\* Fault: a page ends the reading even if no known post was reached.
ReadPageOnce(e) ==
  /\ Inside(e, "asking") /\ pass[e].checkpoint > 0
  /\ LET s == Current(e)
         new == {p \in Page(s, 0) : p > pass[e].checkpoint}
     IN  pass' = [pass EXCEPT ![e].phase = "asked", ![e].batch = new]
  /\ UNCHANGED <<rows, lock, run, faults>>

\* get_posts_after.  A post that appears between two pages moves the others on, so
\* that the next page repeats one.
ReadPage(e) ==
  /\ Inside(e, "asking") /\ pass[e].checkpoint > 0
  /\ LET s == Current(e)
         offset == pass[e].offset
         page == Page(s, offset)
         new == {p \in page : p > pass[e].checkpoint}
         last == new # page \/ page = {} \/ offset + PageSize >= Cardinality(Existing(s))
     IN  pass' = [pass EXCEPT ![e].phase = IF last THEN "asked" ELSE "asking",
           ![e].offset = offset + PageSize, ![e].batch = @ \cup new,
           ![e].repeated = @ \/ \E p \in pass[e].batch \cap new : HasContent(s, p)]
  /\ UNCHANGED <<rows, lock, run, faults>>

NextSource(e, ok) ==
  pass' = [pass EXCEPT ![e].phase = "next", ![e].todo = @ \ {Current(e)}, ![e].offset = 0,
             ![e].batch = {}, ![e].checkpoint = 0, ![e].repeated = FALSE,
             ![e].succeeded = @ \/ ok, ![e].failed = @ \/ ~ok]

Asks(e) == Inside(e, "asking") \/ Inside(e, "pinned")

\* Fault: an error of VK counts as a source without news.
SourceFailsQuietly(e) ==
  /\ Fault /\ Asks(e)
  /\ NextSource(e, TRUE)
  /\ UNCHANGED <<rows, lock, run>>

\* VK refuses or cannot be reached.
SourceFails(e) ==
  /\ Fault /\ Asks(e)
  /\ NextSource(e, FALSE)
  /\ UNCHANGED <<rows, lock, run>>

\* A post taken twice would get a second queue item, which the unique constraint
\* refuses, and with it all posts of the source.
StoreFails(e) ==
  /\ Inside(e, "asked") /\ pass[e].repeated
  /\ NextSource(e, FALSE)
  /\ UNCHANGED <<rows, lock, run, faults>>

ItemsOf(s, batch) == {<<s, p, t>> : p \in {b \in batch : HasContent(s, b)}, t \in Targets}

\* _store_post_and_queue_items for each post, and one commit.
StoreSource(e) ==
  /\ Inside(e, "asked") /\ ~pass[e].repeated
  /\ LET s == Current(e)
         batch == pass[e].batch
     IN  /\ stored' = [stored EXCEPT ![s] = @ \cup batch]
         /\ item' = item \cup ItemsOf(s, batch)
  /\ NextSource(e, TRUE)
  /\ UNCHANGED <<deleted, lock, run, faults>>

\* The rollback of a failed source has expired every loaded row: reading the name of
\* the next source raises, which fails the run.
Outcome(e) ==
  CASE pass[e].sources = {}                               -> "skipped"
    [] pass[e].sources # {} /\ ~pass[e].failed            -> "success"
    [] pass[e].failed /\ pass[e].succeeded
                       /\ pass[e].todo = {}               -> "partial"
    [] OTHER                                              -> "failed"

\* finish_run writes by the id of the run, over `interrupted` as well.
FinishRun(e) ==
  /\ Inside(e, "next") /\ (pass[e].todo = {} \/ pass[e].failed)
  /\ run' = [run EXCEPT ![e].status = Outcome(e)]
  /\ Release(e) /\ pass' = [pass EXCEPT ![e] = [NoPass EXCEPT !.phase = "ended"]]
  /\ UNCHANGED <<rows, faults>>

-----------------------------------------------------------------------------
Step(e) ==
  \/ Busy(e) \/ StartPass(e) \/ BeginSource(e) \/ ReadLatest(e) \/ ReadNext(e)
  \/ ReadPage(e) \/ StoreFails(e) \/ StoreSource(e) \/ FinishRun(e) \/ EndTask(e)

Next ==
  \/ \E s \in Sources :
       \/ Appear(s) \/ Unpin(s) \/ Switch(s)
       \/ \E p \in Posts(s) : Pin(s, p) \/ Vanish(s, p)
  \/ \E i \in item : DeleteItem(i)
  \/ Enqueue \/ Expire
  \/ \E e \in Executors : Claim(e) \/ Step(e) \/ SourceFails(e) \/ Crash(e) \/ Cancelled(e)

Spec == Init /\ [][Next]_vars

\* The schedule goes on, executors work, recovery finds the tasks of dead ones.
Fairness ==
  /\ WF_vars(Enqueue \/ (\E e \in Executors : Claim(e)) \/ (Expire /\ faults' = faults))
  /\ \A e \in Executors : WF_vars(Step(e))

FairSpec == Spec /\ Fairness

-----------------------------------------------------------------------------
(* Properties.                                                             *)

\* Walls, posts, the task, passes and runs have their types, and a pass that reads
\* and stores holds the lock.
TypeOK ==
  /\ wall \in [Sources -> Nat] /\ pin \in [Sources -> Nat]
  /\ gone \in [Sources -> SUBSET Nat] /\ active \subseteq Sources
  /\ stored \in [Sources -> SUBSET Nat]
  /\ \A s \in Sources :
       /\ wall[s] \in Posts(s) /\ pin[s] <= wall[s] /\ pin[s] \notin gone[s]
       /\ stored[s] \cup gone[s] \subseteq 1..wall[s]
  /\ item \cup deleted \subseteq Sources \X Nat \X Targets
  /\ task \in TaskState /\ run \in [Executors -> RunState]
  /\ pass \in [Executors -> PassState] /\ shifted \subseteq Sources
  /\ \A e \in Executors : pass[e].phase \in {"next", "asking", "pinned", "asked"} <=> lock = e

\* No post that stays an ordinary one is jumped over: what lies between two stored posts
\* of a source is stored, whatever fails, dies or appears between two pages (collector.py).
\* The exception: a post that gets pinned or deleted between two pages moves the older
\* ones up, and get_posts_after goes on behind one it has not read.
NoPostSkipped ==
  \A s \in Sources \ shifted : \A p \in 1..wall[s] :
    <<s, p>> \notin Unsteady /\ (\E q, r \in stored[s] : q < p /\ p < r) => p \in stored[s]

\* A material an editor has deleted is not collected once more (collector.py).
DeletedStaysDeleted == item \cap deleted = {}

\* Posts of the wall a pass began with that are not behind the checkpoint of the source.
Missing(e, s) ==
  {p \in 1..pass[e].start[s] : <<s, p>> \notin Unsteady /\ p > Newest(stored[s])}

\* A run in the journal is a success only if every post that was on the walls when
\* it began is behind the checkpoint of its source, but for one post of a source whose
\* first reading met a pinned post (collector.py, vk/client.py, collection_history.py).
SuccessIsComplete ==
  [][\A e \in Executors : run[e].status # "success" /\ run'[e].status = "success" =>
       \A s \in pass[e].sources : \A p, q \in Missing(e, s) :
         s \in pass[e].skimmed /\ p = q]_vars

\* Once the pinned posts stay what they are, the collector catches up with the walls:
\* what a failed, cancelled or interrupted run has left behind a later one makes good
\* (handlers.collection).
Behind ==
  \E s \in active : \E p \in 1..wall[s] :
    <<s, p>> \notin Unsteady /\ p \notin stored[s] /\ \A q \in stored[s] : q < p

CatchesUp == <>[][pin' = pin]_pin => (Behind ~> ~Behind)
=============================================================================
