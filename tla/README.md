# A TLA+ model of reposter

`reposter` collects posts of VK communities, lets editors rewrite, moderate and schedule
them, and publishes them in channels of the MAX messenger. It is an asynchronous Python
service (FastAPI, SQLAlchemy, PostgreSQL) with a separate scheduler process, optional
background workers and, optionally, Celery over Redis. This directory holds TLA+ modules
of its core, TLC runs over small instances, and TLAPS proofs for every instance. Paths
below are relative to `src/news_reposter/` of the repository unless they end in `.md`.

## 1. Inventory

### Components, their state and their operations

| component | code | state | operations |
|---|---|---|---|
| task store | `background/store.py`, `contracts.py`, `api/v1/background_tasks.py` | `background_tasks` (state, attempts, lease token, lease end, available_at), latest `publication_attempts` row of a task | enqueue, claim, owned, heartbeat, finish, recover_expired, mark_publication_unknown, cancel |
| worker | `background/worker.py` | the claimed task, its token and handler in memory; a renewal coroutine | run_once, renew, serve, recover_only |
| handlers | `background/handlers.py` | none of their own | rewrite, publication, collection, maintenance, classify_error |
| outbox and transports | `background/outbox.py`, `celery_app.py` | `task_outbox`, `task_deliveries`, Redis lists | dispatch_once, reconcile_celery, publish, run_task |
| publisher | `services/publisher.py` | `publications`, `publication_attempts`, the request to MAX | publish_queue_item, publish_due_items |
| publication requests | `api/v1/queue_publish.py`, `task_submission.py` | the session's loaded rows | publish now, retry, check, mark published, return to work, submit tasks |
| publication scheduler | `services/publication_scheduler.py` | `queue_items.scheduled_at` against task snapshots | enqueue_due_publications, direct pass |
| editorial queue | `api/v1/queue*.py`, `repositories/queue_item.py` | `queue_items` | update, submit, approve, reject, reopen, schedule, delete |
| rewriting | `services/rewrite.py`, `api/v1/queue_rewrite.py`, `llm/` | rewritten text and status | synchronous rewrite, rewrite task |
| collector and history | `services/collector.py`, `collection_history.py` | posts, queue items, checkpoints, runs; advisory lock | collect once, start/finish run and source, interrupt |
| schedulers | `services/scheduler.py`, `scheduler_runner.py`, `media_cleanup.py` | leadership lock, next run | next_run_at, wake-up loop, election |
| sessions and accounts | `services/user_sessions.py`, `authentication.py`, `users.py`, `password_change.py`, `auth/` | `users`, `user_sessions`, row locks | login, validate, touch, revoke, change of password, administer |
| rate limit of logins | `services/authentication.py`, `repositories/login_attempt.py` | `login_attempts`, advisory locks of name and address | check, count, block |
| media | `services/media_*.py`, `api/v1/queue_video.py`, `queue_media_state.py` | files, a JSON order per material, a lock per process | upload, reorder, delete, clean up |
| avatars | `services/avatars.py` | `users.avatar_storage_key`, files | replace, delete |
| directory | `api/v1/sources.py`, `targets.py`, `target_sources.py` and their repositories | sources, channels, links; what cascades from them | create, update, delete |
| the rest | audit, integrations, operations, frontend | single rows, logs, UI | see the components of `PROJECT.json` |

### How they interact

* A request or a scheduler inserts business changes, a task and an outbox row in one
  transaction. A dispatcher hands the id to a transport; a worker claims the row, runs
  the handler outside any transaction, and finishes the row if it still owns it.
* A publication touches five tables. It can be started by a task, by a synchronous
  request and by the scheduler's direct pass (`background_tasks_enabled` off). The
  only protocol between them is a row lock up to the committed `sending` attempt.
* Every worker runs recovery before it claims. Under Celery that happens only when a
  message arrives.
* The collector, the publisher, the editors and the cleanup meet in a material and its
  files; what the volume holds is not part of any transaction.
* An `AsyncSession` keeps objects it has loaded; `SELECT ... FOR UPDATE` takes the lock but
  does not refresh them, and a flush writes only the columns that differ from the loaded
  value. Half of the interleavings below come from this.

### What is hard

Leases that end while the holder is paused; a request to MAX whose outcome is not known
and may still arrive; recovery racing a late writer; ids lost or repeated by Redis; two
dispatchers on a row; requests that decide by stale rows; a long sequence of editorial
moves around an unknown outcome. `PROJECT.json` lists each hazard with the line where it
bites and the properties that would catch it.

### What makes each component correct

* task store: bounded executions, one active task per subject, one external effect per
  task, an honest final state, ended rows never change, an owner is never robbed while its
  lease lasts;
* outbox: no id is lost, a stale dispatcher hides nothing, every accepted task starts and
  (polling transport) ends;
* publication: no message without a decision, no message without a record, published is
  final, publication, material and attempt agree;
* moderation: a decision carries no old text along and a text no old decision, a rewrite
  task overwrites no edit, what is scheduled has a time;
* collection: no post is jumped over, none is collected again after an editor deleted it,
  a success is complete, what one pass leaves behind another makes good;
* media, avatars, directory: only whole files are sent, the limit holds but for what the
  two processes cannot know of each other, the cleanup takes what nobody refers to and
  nothing else, no row and no file is orphaned;
* accounts: no session outlives its password or its account, a reset stands, guesses are
  bounded under concurrency;
* schedule: the loop asks at every moment the settings name and at no other.

## 2. Modules

```
TaskLifecycle            what the runtime promises about one task (abstract)
    ^ implemented by (refinement mapping Lifecycle in TaskStore)
TaskStore  <-- extended by --  Outbox             delivery, composed with the store
    |-- MCTaskStore                |-- MCOutbox
    |-- TaskStoreProofs            |-- OutboxProofs       extends TaskStoreProofs
Publication                one material, all its publishers and editors
    |-- MCPublication, PublicationProofs
Moderation                 text and status of one material
Directory                  sources, channels, links, materials
    |-- MCMaterials, MaterialsProofs        both, side by side
Media                      the files of one material              MCMedia
Collection                 passes of the collector                MCCollection
Accounts                   accounts and sessions
LoginLimit                 failures and blocks
Avatars                    row and file of an avatar
Schedule                   next_run_at and the loop
    |-- MCAdministration   the four, side by side
FilesProofs                theorems about Media and Avatars
AccessProofs               theorems about Accounts and LoginLimit
CollectionProofs           theorems about Collection and Schedule
Extrema                    lemmas on least and greatest numbers, for the last two
```

`MCMaterials` and `MCAdministration` put modules that share no state in one run: a
variable `moving`, chosen at the start, says which of them moves while the others rest, so
that the run is the sum of the instances and not their product.

The material appears in four modules, each with the columns and processes its properties
need. `Publication` has the outcome of sendings and takes texts and files as given;
`Moderation` has text, status and their overlapping writes and takes a publication as one
step; `Media` has the files; `Directory` has the row's existence.

### TaskStore

One action is one database transaction or one event outside the database. `row[k]` is
the `background_tasks` row of idempotency key `k` (the unique index makes keys
identities); `attempt[k]` is its latest publication attempt with the token of the execution
that created it; `worker[w]` is what a worker process remembers. `issued` draws lease
tokens (`uuid4`, compared only within a task). `inflight` and `posted` count messages on
their way to and in the MAX channel, and `applied` the results that `finish` recorded.

| action | code |
|---|---|
| `Enqueue` | the insert of `store.enqueue`, refused by the active-subject index |
| `Cancel` | `cancel_task` |
| `RunOnce` | the first transaction of `run_once`: `recover_expired` and `claim` |
| `RecoverOnly` | the same with nothing to claim, and `worker --recover` |
| `Heartbeat`, `Abandon` | `renew`; a crash, a shutdown or a cancelled execution |
| `FinishSucceeded`, `FinishError` | the end of `run_once` with `finish` or `LostLease` |
| `Reserve` | the handler's first transaction: owned, checks, the `sending` row |
| `Send`, `NotReady`, `UploadFails`, `Rejected`, `Uncertain`, `Confirm` | `publish_queue_item` after the reservation, with `confirmed` of the handler |
| `Accepted` | MAX takes a request, perhaps after its sender has gone (external) |
| `Reconcile` | check or mark published, as far as the task's attempt is concerned |
| `Tick` | `now()`: leases and delays of all rows age by one |

`Tick` may be preceded by any number of steps and no step is forced, so a worker may be
paused for any time and a lease may end at any point. A recovered set is any subset of
the expired rows (`SKIP LOCKED`, `LIMIT 100`). Retry delays are any value up to
`Backoff`, which stands for the exponential with jitter.

### Outbox

Adds the `task_outbox` row, dispatchers, `task_deliveries`, copies of an id in Redis and
a budget of faults. `Transport` chooses the workers' loop: `Poll`/`PollNothing` (serve) or
`Consume`/`ConsumeNothing` (one Celery message, one `run_once` of that id). A dispatcher
is three steps: take the row, publish, record. `WorkerCrashes` returns the message
(`acks_late`, `reject_on_worker_lost`); `Cancelled` does not, because `run_once` returns.
`Copy` stands for Redis and keeps at most `MaxCopies` apart. The delay after a failed dispatch
is any value up to a cap (`DispatchDelays`), as after a failed execution: attempts of an outbox row are
not counted, so nothing is claimed about the exponent of `outbox.py:122`.

### Publication

One material. `item`, `pub`, `attempts` are its `queue_items`, `publications` and
`publication_attempts` rows (the last in order of attempt_number), `task` its latest
publication task, `actor[a]` a process in the middle of something, `stray` requests whose
sender has gone. `used` says that the scheduler has made a task of the current
`scheduled_at`. `licence` counts the messages the editors have agreed to: one, and one
more for each retry or return to work decided while an earlier message may be out there.
`lapses` is a ghost: `"late"` when a worker wrote a failure without owning its task,
`"overtaken"` when a retry task sends although the latest attempt is not the one it was
accepted for (`about`), `"outdated"` when a request wrote an outcome, or reserved a sending,
by loaded rows that no longer allowed it.

`OpenWindows` names the operations whose load and write other steps may separate
(`Open` ... `Writes` or `SyncReserve`); an operation not in it is one step. The passing
run opens the editorial moves and the manual mark; the violation runs open what they need,
and the theorems hold for any choice but where they say so. `WriteFailure`
writes the item's status only if it differs from the loaded one, as the session does.
`Delete` cascades. `Reopen` also stands for submit and reject, since `in_work` is every
status before approval. The handler's checks of rights, target and snapshot are the
freedom of `TaskRefuses`.

### Moderation

One `queue_items` row. A request reads it without a lock (`Load`), holds it in memory and
writes later: `Decide` (submit, approve, reject, reopen, schedule with `set_status`), `Edit`,
`Delete`, `StartRewrite`/`RewriteAnswered`/`RewriteFailed` (the synchronous rewrite, which
commits `rewriting` before it asks the LLM). `Flush` is the UPDATE of the session: only
columns that differ from the loaded value, and `updated_at` (`version`) if there is any. The
rewrite task compares its snapshot before it asks and again, under the row lock, when it
writes (`TaskRefused`, `TaskAsks`, `TaskApplies`). `edits` and `settled` are ghosts of the
property about tasks.

### Directory

`entry` are the sources and targets rows, `link` the links, `material` the queue items and
`media` those with files. A deletion reads the ids of the materials that will cascade
(`BeginDeletion`), deletes the rows (`DeleteRows`) and removes the directories (`CleanUp`);
it may break off anywhere (`Breaks`). The collector's pass reads the links once
(`LoadLinks`) and stores later. An upload asks once whether its material exists
(`BeginUpload`, queue.py:358), waits for its slot and its stream, and then makes the directory
and stores the file (`StoreFiles`) or does not (`RefuseUpload`); a whole deletion with its cleanup
fits in between. `excused` are materials created behind the back of a deletion, left by a broken
cleanup, or given a file by an upload after the cleanup; the daily cleanup of `Media` is
there for all of them.

### Media

`file[u]` is what upload `u` has on disk: nothing, a temporary part, the whole file. The lock
around an upload belongs to one process of two (`lock[p]`), so `OpenUpload` counts the
attachments under a lock that another process does not see. The publisher reads the
saved choice and then the files one by one (`ReadPhoto`, `ReadVideo`); the daily cleanup reads
the ids of all materials and then walks the files (`ReadIds`, `Clean`).

### Collection

`wall[s]` is the newest post of a source at VK, `pin[s]` a pinned one, `gone[s]` the posts
deleted there. Posts appear, get pinned and vanish at any moment, also between two pages;
`Unsteady` are the posts that may be pinned or deleted, which no property counts as missed.
An ordinary post that leaves the pages between two of them, pinned or deleted (`Leaves`),
moves the older ones up and can hide one of these from the reading; that is noted in
`shifted`. An offset counts ordinary posts, as the comment at `client.py:123-126` says. A
first reading takes the first item of the wall (`ReadLatest`); if that is a pinned post, it
asks again with offset 1 (`ReadNext`) in a second request, and the source is noted in
`skimmed`, because the newest ordinary post is passed over (section 3).
Sources are numbers, since a pass takes them in the order of their ids
(`Current`). `pass[e]` is what an executor is doing:
lock and links (`StartPass`), checkpoint, pages (`ReadLatest`, `ReadNext`, `ReadPage`), one commit per source
(`StoreSource`, `StoreFails`, `SourceFails`), the outcome (`FinishRun`). The task that starts it
may expire, be claimed by the other executor and find the advisory lock held (`Busy`).
A crash and a cancellation leave the run `running`, as in the code, where CancelledError
passes every except clause; recovery closes it as interrupted (`Expire`).

### Accounts

A login and a change of password hold the row of the user while they verify
(`EnterLogin`...`FinishLogin`, `EnterChange`...`ChangePassword`). Every other request validates its
session with what it read (`Present`, `Accept`, `Refuse`), and an administrator acts by the
account that was loaded then (`Manages`). Sessions age in three steps: fresh, due for
`touch_active`, too old. The limit of sessions revokes the oldest (`Excess`).

### LoginLimit

A request comes with its name and, unless the address is unknown, its address (`Origins`).
`Arrive` notes the time, `Admit` and `Limit` take the advisory locks of name and address and
look at the newest failures, `FailLogin` and `EndLogin` record and release.

### Avatars

A request locks the row, writes a file under a new name, commits, and removes the
previous file. Commits fail, or succeed with their answer lost (`CommitFails`); a process
dies (`CrashAvatar`). So do the operations on the volume: a write that raises outside every
`try` and may leave part of a file (`ReplaceFails`, avatars.py:109), and a removal whose error
is swallowed (`_delete_storage_key`, avatars.py:161-164), after a commit (`DeletePrevious`) or
after a failed one (`CommitFails`). `broken` counts the three kinds of trouble apart.

### Schedule

`NextRun` is `next_run_at` with its window arithmetic; `PlanWait`, `WakeUp` and `RunOnce` are the
loop, `SaveSettings` an administrator, `RunConflicts` and `RunFails` what may come in between; `RunFails` also stands for settings that
cannot be read, which costs the same minute. `Moment` defines independently what the
settings mean; `AsksAtEveryMoment` compares the two.

### TaskLifecycle

phase, tries and effect of a task; one step moves every task at most once, because one
transaction may recover many. Retrying or giving up requires that no effect took place.

## 3. Runs

| run | instance | shows |
|---|---|---|
| `task_store` | 2 publications of one item, 1 rewrite, 2 workers, 2 attempts, lease 2, backoff 1; symmetry of the publications and of the workers | type, budget, one effect, no false failure, honest success, one active task, fencing, implements `TaskLifecycle` |
| `outbox_postgres` | 1 publication, 2 workers, 1 dispatcher, lease 2, 2 faults | receipts back deliveries; every task settles |
| `outbox_celery` | 1 rewrite, 2 workers, 2 dispatchers, 2 faults, 2 copies | one effect under repeated delivery; stale dispatchers; starts despite loss |
| `celery_stuck` | 1 rewrite, 1 worker | finding, below |
| `publication` | 2 processes, 2 attempts of the task, 2 reservations, windows of approve, reopen, schedule and mark open; symmetry | no unintended duplicate, every message on record, published agrees and is final |
| `materials` | 2 requests, 1 draft, 4 versions of the row; 1 source, 2 channels, 2 deletions, 1 upload; symmetry of the requests, channels and deletions | texts and decisions stay apart, tasks keep edits, scheduled has a time; nothing is orphaned but what the property names |
| `media` | 1 photo, 2 videos, 2 processes, limit of 1 attachment and of 2 per message, ages of 1 | limit, whole files only, cleanup takes neither too much nor too little |
| `collection` | 2 sources with 3 and 1 posts, a post of each that may be pinned, that of the first also deleted, 1 channel, 2 executors, pages of 1 post, 2 attempts, 1 fault | nothing skipped, deleted stays deleted, success is complete, catches up |
| `administration` | 2 users, 2 requests, 1 session each, 2 passwords, 3 sessions; 2 names, 1 address that one request hides, 2 logins, thresholds 2 and 3, a window of 2, a block of 3, a wait of 1; 3 avatar requests, 2 crashes, lost answers or failed file operations; a day of 10, 4 schedules | sessions follow accounts and passwords, resets stand, guesses are bounded, avatars are accounted for, every moment is asked for |
| `stale_request`, `late_sender`, `deleted_while_sending` | 2 processes, one attempt | findings, below |

`CHECK_DEADLOCK FALSE` everywhere: the system may stop when all is settled and every
bound is used up.

Why the bounds are enough. Two workers suffice for one stale and one current execution
of a task, and `MaxAttempts` 2 for a retry after a recovery; with a lease of 2 a worker
may act at full, partial and no lease. Two keys of a subject compete for the active slot,
and the rewrite is the safe queue beside them. For delivery, two dispatchers make a
stale one; two copies a duplicate; two faults a loss and a crash in one behaviour. In
`Publication` two processes already give every pair of publishers; two reservations are a
first attempt and its retry. Each property was also run against a plausible fault of the
code (the definitions marked `Fault:`, none of which a specification uses), and each
fault is found.

In `Moderation` two requests overlap in every way, also with a task, and four versions are
an edit, a decision, a rewrite and one more. `Directory` needs two deletions that overlap
over one channel, or one deletion and two channels (none of them paused then); the run has
both, and an upload that overlaps either. In `Media` the limit
can only be exceeded by two processes, and a limit of 1 with three uploads lets every
process try; ages of 1 are a day older than anything fresh. In `Collection` a page of one
post makes every post a page boundary; three posts are a checkpoint, one that a moved
page may lose and one behind it; the second source is there to be cut off by the failure of
the first. `MCCollection` lets pins and deletions change only while that wall is being read, since
nothing else looks at them, and keeps the only post of the second wall; the
proofs have no such restriction. In `LoginLimit` a wait of 1 against a window of 2 commits failures out of order,
so that the tolerance `GuessesAreBounded` grants is really used: without it TLC finds a
violation in this very instance. `Schedule` takes a window inside a day, one across midnight, one from midnight and
a disabled one; intervals that do not divide them; two days.

Bounds that are not the code's: `MaxSends`, `MaxCopies`, `MaxFaults`, `MaxVersion`, `MaxPosts`,
`MaxPassword`, `MaxCreated`, `MaxClock`, `MaxFailures`, `MaxBroken`, `LastTime`, `MaxChanges`,
`MaxErrors`; everything else is finite by itself.

### Fairness

`Outbox`: time passes (`OutboxTick`); loops that sleep and repeat run
again (`DispatchBegin`, `DispatchEnd`, `PublishReaches`, `ReconcileCelery`, `Poll`,
`PollNothing`, `Consume`, `ConsumeNothing`); an execution ends, since
`POLICIES[q].timeout_seconds` cancels it (`FinishError`). Strong fairness is used where
another process may take a row first or a delay may disable the step for a while, which
each loop outlives by trying again.

`Media`: an upload ends (`EndUpload`; a streaming request has a client and a size), days pass
(strongly, for they wait for requests that are shorter than a day), and the cleanup's
loop goes on (`ReadIds`, `Clean`).

`Collection`: the schedule asks for collections, executors claim, recovery finds the tasks of
dead ones (`Enqueue`, `Claim`, `Expire` of a task whose owner has gone), and a pass that has begun
goes on (`Step`). `CatchesUp` is promised once the pinned posts stay what they are: a wall whose
pins change during every reading may hide a post every time. Deletions end by themselves,
for a post is deleted once. Failures of VK are bounded by `MaxFaults` and never forced.

Nothing is assumed of faults, requests,
confirmations, MAX, heartbeats, editors or an operator's `--recover`.

### Findings

1. `celery_stuck`. A failed heartbeat cancels the execution, `run_once` returns and the
   message is acknowledged. `worker.py:90` promises "bounded lease recovery", but recovery
   runs only when another message arrives and `reconcile_celery` ignores running rows.
   In a busy installation an unrelated task does it sooner or later; nothing guarantees it.
2. `stale_request`. `publisher.py:240` says that the row lock serialises a manual start
   and all schedulers. The request has loaded the rows before it waits for the lock, and
   the locking select does not refresh them: it checks old statuses and sends again.
3. `late_sender`. `BACKGROUND_TASKS.md:33` says that an executor that lost its lease
   cannot record a result. The `except` branch of `publish_queue_item` commits the failure
   without asking.
4. `deleted_while_sending`. `store.py:267` concludes from a missing attempt that nothing
   was sent. Deletion is allowed during sending and takes the attempt along.

Met while modelling, and left without a run of their own:

* A retry task does not name the attempt it was accepted for (`handlers.py:164-174`; the
  snapshot of `intents.py` has no attempt in it). An editor accepts the risk of a duplicate
  for attempt 1 and the task waits; the synchronous retry sends attempt 2, unknown again;
  somebody checks it; the task then sends a third message although nobody has
  accepted the risk of attempt 2. `BACKGROUND_TASKS.md:41-44` promises no automatic sending over
  an unknown result and a queued retry only after the risk was accepted.
  `NoUnintendedDuplicate` makes the exception (`"overtaken"`); without it TLC finds this in
  thirteen steps with `MaxSends` 3.
* The rollback of a failed source expires the rows the pass still needs, so the next
  source raises and the pass ends (`collector.py:238-263`), contrary to
  `BACKGROUND_TASKS.md:46-48`. `Outcome` and `FinishRun` model it; `CatchesUp` shows that a
  later pass makes it good.
* `scheduler.py:191-195` logs that a failed start is repeated in a minute, but the loop then asks
  for the next moment: what was due is given up (`RunFails`, `missed`). The minute is longer
  than the poll, so a change of the settings during it is seen late as well.
* `check_publication`, `mark_published` and `return_to_work` write by the attempt they loaded
  (`queue_publish.py:184-231` asks MAX in between). If a retry has reserved another attempt
  meanwhile, the write declares the publication `published` or `failed` under it.
  `PublishedAgree` and `PublishedIsFinal` except such behaviours (`"outdated"`);
  `MessageIsRecorded` and `NoUnintendedDuplicate` need no such exception.
* The repository's `README.md:49-50` says that the first time only the newest post of a source
  that is not pinned is stored. `client.py:92-96` passes over a pinned first item by asking with
  offset 1. By the comment at `client.py:123-126`, after which `get_posts_after` counts its offsets,
  that is the second newest ordinary post; the newest waits for the next pass, which finds it
  ahead of the checkpoint, but the first pass ends as a success. `tests/test_vk_client.py:60-112`
  answers offset 1 with the newest, so the client reads VK in two ways and one of them is wrong.
  The model follows the comment, because it is the reading the code argues for; under the other
  one the first reading would be right and the comment wrong. `SuccessIsComplete` excepts one
  post of such a source (`skimmed`); without that TLC finds a violation in a dozen steps.
* The comment at `client.py:123-126` explains how the offset avoids skipping a post that is
  pinned. A post that gets pinned, or deleted at VK, between two pages still moves the older
  ones up by one, and the first of them is not read; the newest post becomes the checkpoint
  and nothing asks for the other again. `NoPostSkipped` excepts the source (`shifted`).
* An upload that has found its material goes on when the material is deleted meanwhile: it
  makes the directory again and leaves a file of a dead material until the daily cleanup.
  `NothingOrphaned` excepts it.
* What `avatars.py` fails to remove, or has written in part, nobody looks for again: neither
  the swallowed error at line 163 nor the write at line 109 has a cleanup. `AvatarAccounted`
  allows one file for each.
* The rate limit compares the newest failures, and the time of a failure is that of the
  request's arrival, before it waited for its locks. A request that waited can spread the
  newest failures over more than the window, and a block is then not seen:
  `authentication.py:85-96`. The bound of `GuessesAreBounded` is therefore weaker by the wait.
* A PATCH of a source with only `url` or only `platform` (`schemas/source.py:116-132`) can leave a
  pair that `SourceRead` refuses, and with it every list of sources.
* A network failure while a photo is uploaded to MAX has no status code and ends the
  task as rejected (`handlers.py:199`).
* The synchronous rewrite writes its text over an edit, or its former status over a
  decision, made while the LLM was asked; `TextAndStatusApart` says how far this goes.

`PublishedIsFinal` and `PublishedAgree` are stated for behaviours without a late failure
write, because finding 3 breaks them, and without an outdated one, as above.

## 4. Proofs

`TaskStoreProofs` proves, for all constants that satisfy `ConstantsAssumption` (any sets of
keys and workers, any policy with at least one attempt, any positive lease and delay):
`TypeCorrect`, `RetriesBounded`, `OneActivePerSubject`, `EffectOnce`, `NeverFalselyFailed`,
`SuccessBacked`, `OwnershipIsFenced` and `RefinesLifecycle`, all from `Invariance`.

None of the safety properties is inductive. That a publication is not sent again rests on
what an execution that lost its lease can still do, so `IInv` adds:

* `RowShape`: a lease only while running, a delay only while waiting;
* `TokensIssued`, `TokensDiffer`: no two living executions of a task share a token;
* `SafeTask`, `PublicationTask`: a message exists only if the latest attempt may have sent
  it, and a task that waits, failed or was cancelled has no such attempt;
* `WorkerOK`: a worker between its reservation and its answer is the creator of the
  latest attempt, and its task either runs under its token or needs review; an execution
  that still owns its task and has not reserved finds nothing sent; a worker that
  committed a failure agrees with its attempt.

The argument: a reservation happens under ownership, so nothing was sent before;
recovery of a task with a reservation never goes to `retry_wait`, so nobody reserves after
it, and the late sender writes an attempt that is still its own. `RowStep` gives the
moves a row can make; the `...Messages` lemmas show, action by action, that `TasksOK` and
`WorkersOK` survive; `OwnerStep`, `EndMessages` and `GoOnMessages` carry what is common.
`FenceStep` and `TerminalStep` give the action property, `LifecycleStep` the refinement.
`IInv` was model-checked on the `task_store` instance before it was proved.

`OutboxProofs` shows for any number of dispatchers and workers and both transports that
the composition with delivery is a refinement: `ImplementsTaskStore` (`OutboxSpec => Spec`, with
no mapping, because `Outbox` extends the store's variables). All theorems above carry over;
`DeliveredTwiceActsOnce` is one of them, restated. `DeliveryBacked`, `OutboxTypeCorrect` and
`DeliveryIsFenced` are about delivery itself and rest on `OutboxInv`, which adds to
`ReceiptBacksDelivery` that a dispatcher in the accepted phase knows of a receipt in the
database (`AcceptedHasReceipt`): a dispatcher may pause between the two.

`PublicationProofs` proves `PublicationTypeCorrect` and `SentAsDecided`, for any set of
processes, any budget of executions and of sendings and every choice of open windows
without `"now"`, the window that `stale_request` opens. Counting messages against decisions
is not inductive. `LicenceInv` adds why a sender always finds one decision unused:
`FreshCovered`, a publication that is new or failed has used no more than was decided for
earlier attempts; and `RiskCovered`, a retry task that nothing has overtaken carries a
decision only the sending of a later attempt uses up. `TaskShape`, `OpenedIsOpen` and
`AboutExisting` tie tasks and processes to the rows they act on.

What the rows tell of the channel is `RecordInv`, for every choice of windows, `"now"`
included: `MessagesAreRecorded`, `RowsAgreeOnPublished` and `PublishedStays`. A message without a
record would be one whose last attempt was declared failed, so `OwnAttempts` says that each
sender has an attempt no other sender has and that recovery of the task cannot reach unless
the sender is the task's own; `Recorded` that a message which has left its sender keeps an
attempt no present sender can declare failed. That alone does not make a published material final: `OneSending`
(only the latest attempt can be `sending`, and only while the publication is) and
`SendingInCharge` (a sender that has not lost its task is what the rows say) hold as long as
nothing late or outdated was written, and only with both does a failure write never hit a
published row.

`MaterialsProofs`, `Moderation`: `TypeCorrect`, `TasksKeepEdits`, `ScheduledIsTimed`, `DecisionsKeepTexts`, for any
requests and drafts. The invariant says of each request that its operation was allowed on
the row it loaded (`Faithful`), from which it follows what its UPDATE can change, and of each
task that an unchanged version means an unchanged count of edits (`Fresh`). `Flushing` is
the lemma about the UPDATE. `Directory`: `NothingIsOrphaned`, with `Seen`: what a deletion is about
to delete it has read, but for what was created behind its back. Files follow: one that
a dead material gets from an upload is either removed by a cleanup still to come or excused.

`FilesProofs`, `Media`: `TypeCorrect`, `LimitKept`, `WholeFilesAreSent`, `LivingAreSpared`, for any set of
uploads and processes. The limit is inductive only with the uploads that still stream counted
(`Bounded`), at most one per process (`LocksOK`); the cleanup spares the living because no
file ages while it is written or while a cleanup is on its way (`Young`). `Avatars`:
`AvatarsAreAccounted`, for any set of requests and any number of crashes, lost answers and failed
writes and removals, each of which adds one leftover at most. Names are never
used twice: what the row or a pending removal names was written by a request that has
committed (`NamedIsPast`), so nobody removes what another still writes.

`AccessProofs`, `Accounts`: `AccountsTypeCorrect`, `DisabledLoggedOut`, `SessionsKeepUp`, `ResetsStand`. The
invariant `LocksOK` says that whoever verifies a password holds the row lock and knows the row
as it is; `Backed` that live sessions belong to active accounts with their password.
`LoginLimit`: `GuessingIsBounded`, for any names, addresses, requests, thresholds, window, block and
wait. The property speaks of any failures, the code looks at the newest. `Unblocked` keeps of
each failure that the newest ones before it did not block it, which holds because a request
that verifies still holds the locks under which it was admitted (`Admitted`); `Timely` bounds
how far the times are out of order. `NewestExist` and `NewestLead` then put any choice of as many
failures below the newest ones, and `BoundFollows` is the arithmetic. The code bounds no wait for the
locks: `MaxWait` is a parameter of the model, and the theorem says how the bound depends on it.

`CollectionProofs`, `Collection`: `CollectionTypeCorrect`, `NothingIsSkipped`, `DeletedIsGone` and `SuccessTells`, for
any walls, page size, channels, attempts and number of executors. That the newest stored post
may serve as a checkpoint is an induction over pages: `Ahead` says that a post older than one
already read is read or has a rank (its place among the ordinary posts, as VK counts offsets)
the next page starts at or before. New posts only raise ranks, so they repeat posts and hide
none; `RankReached` says that ranks have no gaps, so that a page that is empty or reaches the
checkpoint leaves nothing out. `Caught` carries the walls of the beginning to the end of the pass for
`SuccessIsComplete`: nothing of them is missing in a source that is done, or, if it is in
`skimmed`, a single post, since the post of rank 1 has one newer ordinary post;
`PassHolds` and the lock keep what a pass read equal to what is stored;
`ItemsStored` says that a deleted material had a stored post, which is behind the checkpoint.
`Schedule`: `EveryMomentIsAsked`, for any day, settings, poll and retry. `NextRunOf` proves that
`next_run_at` returns the first moment not yet past: the window it takes is the first that has
not ended (`WindowDayOf`), and rounding up skips no step (`StepsOf`). Until the loop wakes up
nothing else is due (`Covered`, with `Planned` on how long it sleeps); `SlotOf` bounds what the key
of a task can hide (`Answered`).

`Extrema` has the lemmas on least and greatest elements that `CollectionProofs` and `AccessProofs` share
(`MinOf`, `MaxOf`), from the well-founded order of the numbers.

Each of these invariants was model-checked on the run of its component before it was
proved. Nothing is assumed but the named assumptions on the constants, and only `SentAsDecided`
has a hypothesis of its own, the closed window `"now"`, without which `stale_request` refutes it.

Every invariant and every action property of a passing run is stated by a theorem. Only
model-checked: liveness, that is `EventuallySettled`, `StartsDespiteLoss`, `DeletedLeavesNothing` and
`CatchesUp` (the provers handle neither fairness nor `ENABLED`), and the counterexamples of the
findings. Induction over data and recursive operators are out of the provers' reach; no module
with theorems uses them.

## 5. Not modelled, and the plan

Left out of the modelled parts: message composition, HTTP details, wording, audit rows,
metrics; row locks apart from transactions (a transaction that PostgreSQL aborts is a
step that does not happen); rollback of a failed commit (the same). `--once` is a worker
that stops.

The sources of time are abstract: leases, delays and ages count steps, time zones have a
constant offset. Passwords, tokens and names are numbers or model values.

Not modelled:

* the scheduler's leadership (`scheduler_runner.py`): two leaders that overlap for seconds ask
  for the same task keys or meet the row lock of the publisher, which `Publication` has for
  any number of processes;
* roles but the administrator's and the channels of a user: predicates of one request over
  what it has loaded; what a task checks again is the freedom of `TaskRefuses`;
* the mode without background tasks in which the scheduler collects in its own loop, and
  `interrupt_stale_runs`, which only that mode uses;
* the error classes of the MAX and LLM clients: a failure may be of any class;
* the directories of MAX and VK, the audit journal, operations and the frontend, with their
  reasons in `PROJECT.json`.

What would come next: the leader with the two periods of its lock and its heartbeat; a
synchronous publication that dies after its reservation, for which the code has no way
back and hence no promise to check; the effect of the four findings' repairs on the
theorems that except them.
