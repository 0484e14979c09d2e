# VelaFlow: TLA+ models and proofs

This directory is a verification development for the Python packages under
`src/brain`. It holds TLA+ modules translated from the code, TLC
configurations that check them on small instances, and TLAPS proofs of the
properties that hold for every value of the parameters.

    tlc -workers 2 -config MCTaskQueue.cfg MCTaskQueue.tla      # model-check one configuration
    tlapm TaskQueue_proofs.tla                                   # check one proof module

`PROJECT.json` lists the runs, the definitions with the source lines they
model, the mutants that show each property can fail, the hazards of the code
and the theorems. Paths below are relative to `src/brain` unless they start
with `docs/`, `README.md`, `tests/`, `scripts/` or `deploy/`.

## 1. The system

VelaFlow is a multi-tenant task organiser. An HTTP API (FastAPI) accepts
requests and webhooks; a worker process takes jobs from an in-memory queue,
runs the medallion pipeline or an LLM call for a tenant, and writes JSON
records through a storage backend; a scheduler thread inside the worker
process submits jobs at the times each tenant configured. Every record is one
JSON file; there is no database and no transaction.

| Component | State it keeps | Operations | Interacts with | What makes it hard | What makes it correct |
|---|---|---|---|---|---|
| Task queue, `queue/tasks.py` | FIFO, `retry_count` in each message object, dead-letter deque with a drop counter, processed counter, `unfinished_tasks` | enqueue, dequeue, requeue, mark_done | producers: webhooks, scheduler; consumer: worker | message objects are shared and mutable; `task_done` may raise; bounded deque; all of it is lost at restart | a message is in one place; retried at most `max_retries` times; counters exact |
| Worker, `queue/worker.py` | `_running`, the in-memory `_daily_usage` under `_usage_lock`; `daily_usage.json` and `job_results/*.json` on disk | run loop, nine handlers, `_check_quota`, `_persist_usage`, `_store_job_result`, stop | queue, tenant store, storage, pipeline, LLM | date read before the lock; persist outside it; crash between job and charge; any exception is retried | daily allowance; every job paid for; results true and final; stop is graceful |
| Tenant scheduler, `queue/scheduler.py` | `_last_check` keys, in memory | tick, per-tenant checks, enqueue | tenant store, queue | 60 s sleep plus drift against an equality of `HH:MM`; restart; one bad record stops every tick | each due slot is submitted exactly once |
| Webhooks, `api/routes/webhooks.py` | `_job_status` (at most 1000), rate limiter, both per process | eight submissions, status poll | queue, rate limiter, permissions | eviction of unfinished entries; nobody updates an entry; several processes | a poll tells the truth about the job, to its own tenant |
| Permissions, `security/rbac.py`, `api/dependencies.py` | none | `check_access` | every route | two tables to keep in step | who may start something may also follow it |
| Sign-in, users and invites, `api/routes/auth.py`, `api/auth.py`, `tenant/user_manager.py` | user, index and invite records; tokens | login, redeem, create, bind, roles, deactivate | tenant store, ban manager | check-then-write over several files; the index lock is per request | accounts follow invites; access ends |
| Ban manager, `security/ban.py` | failures, stages and ends of bans; permanent bans on disk | failure, success, ban, unban | sign-in | escalation against expiry | a ban is served |
| Tenant store, `tenant/manager.py`, `tenant/models.py`, demo accounts `tenant/demo_manager.py`, billing `api/routes/billing.py` | one JSON record per tenant, partitions, a demo log | create, get, list, update, deactivate; demo creation and expiry; provider events | API, scheduler, worker | read-modify-write without a lock; events repeated and reordered; a clean-up of many steps | a credential stays readable by its owner; a deactivated tenant stays so |
| Storage, `storage/*.py` | files; one `.tmp` per key | read, write (write temporary, `os.replace`), list, delete | everything | concurrent writers share the temporary; crash half-way | a reader sees a whole value some writer wrote |
| Medallion pipeline, `pipeline/*.py`, `security/pii.py` | bronze batches, silver, gold, run records | ingest, transform, curate, execute; the route's daily count | storage | ids of one-second granularity; stage errors swallowed; stale batches; overlapping matches | gold is computed from this run's input; silver is clean |
| Processing engine, `engine/*.py` | DuckDB tables of the three layers | ingest, transform, enrich | catalog | each statement commits by itself; ties in a ranking | silver is the latest version of each record |
| Catalog, `catalog/*.py` | one SQLite file | create, grant, revoke, statistics, lineage, bootstrap | engine, API | execute and commit lock separately; a connection shared by threads | what a returned call did is durable |
| Retrieval, `rag.py`, `api/routes/rag.py` | one table of chunks | chunk, ingest, query, delete, purge | worker, API | quota checked before the ingest; a key without the tenant | at most the allowed documents; nothing of a text is lost |
| Planner, `planner.py` | none | score, rank, digests, weekend plan | command line, worker | several readings of the date; capacities at their edge | digests agree; days are not overbooked |
| Organizer, `organizer.py`, `todoist.py` | what a run fetched | analyse, move, label, report | Todoist, its user | stale by the time it acts; requests that fail | a tidied board stays tidy |
| Notion, `notion.py` | pages and databases on the server | sync both ways, set up, rebuild | Todoist, its user | lost answers, deaths, users editing both sides | one item per task; a dashboard is whole |
| Command line and language models, `cli.py`, `llm.py`, `llm_local.py` | none | five briefings, provider chain, delivery | everything above | lists fetched one after the other | the text holds the day |
| Breakers and limiter, `security/circuit_breaker.py`, `security/resilience.py` | state, failure and success counts, probe count, time of last failure; windows | can_execute, record, call, retry, allow | third-party clients, webhooks | threads record results of calls admitted in an earlier state | opens after enough failures, closes again; the window is kept |
| Action ledger, `security/action_ledger.py` | hash chain head in memory, a file per day | append, verify | API | restart, rollover, swallowed write errors, several processes | one chain per process |
| Backups, `scripts/drive_backup.py` | files in a shared folder, a key | archive, upload, prune, restore | Drive | retried uploads, several hosts, a changed key | the newest backups survive |

`PROJECT.json` lists every component with its sources, its modules and, where
something is left out, the reason; section 7 sums those up.

**How the parts run together.** `deploy/lxc/setup-enterprise.sh:108` starts one
worker process that builds its own `TaskQueue`; `QueueWorker.start`
(`queue/worker.py:228-264`) runs the scheduler thread and the loop. `_run_loop`
and `_usage_lock` are written for several threads per process, so `Workers`
is a parameter; with one element it is the deployment above. The API runs in
several processes behind one address, with no `await` between the accesses of
an async handler: within one process it is not interrupted by another, but
between two of its accesses to the storage another process may act (the demo
routes are plain functions and run in pool threads as well). Limiter, bans and job notes
are therefore per process.

## 2. Modules

Several modules define a *slip*: an operator, marked `\* Slip:`, that changes
another the way a plausible mistake in the code would. No action uses one; they
are the mutants of `PROJECT.json`.

### Queue, worker and scheduler

#### `JobLifecycle`: what the queue promises
One status and one retry count per job: submitted once, run by one worker at a
time, tried again only while retries are left, and then done, dead, or gone
with the process. No data structure appears.

#### `TaskQueue`: `queue/tasks.py`
State: the FIFO (`queue`), what each worker holds between `dequeue()` and
`mark_done()`/`requeue()` (`held`), `retry_count` (`retries`), the counter
behind `task_done()` (`unfinished`), the dead-letter deque, both counters, and
three history sets (`accepted`, `done`, `dead`). Actions: `Enqueue`,
`Dequeue`, `MarkDone`, `Requeue` (`Retry` or `DeadLetter`) and `QueueRestart`.
A failed attempt never calls `task_done()` although its retry calls `put()`
again, so `unfinished` only drifts upward; `TaskDoneNeverRaises` is the
inequality that keeps `mark_done()` from raising inside the worker's `try`.
`LifecycleRefined` says, by the refinement mapping `StatusOf`, that this
implements `JobLifecycle`.

#### `QueueWorker`: `queue/worker.py`
Extends `TaskQueue`. A worker thread is a walk over the labels of `pc`:

| Label | Code | Leaves for |
|---|---|---|
| `top` | `while self._running` | `poll`, `exited` |
| `poll` | `dequeue(timeout=2.0)` | `read`, `top` |
| `read` | `get_tenant`, the gates before the quota, the date at `:176` | `charge`, `execute`, `store`, `settle` |
| `charge` | `_check_quota` under `_usage_lock` | `execute`, `cap`, `store` |
| `cap` | the demo cost cap of a pipeline run | `execute`, `store` |
| `execute` | decryption, then the pipeline run or LLM call, or nothing (`Stubs`) | `persist`, `store`, `settle` |
| `persist`, `write` | `_persist_usage`: serialise the shared record, then `os.replace` | `store` |
| `store` | `_store_job_result` | `settle` |
| `settle` | `mark_done()` | `top` |

Every label at which the code leaves the process may raise (`Raise`): the
message is requeued, or, inside the RAG handler's own `try`, the verdict
becomes `error`. `Restart` may come between any two steps: disk survives, the
queue, the counters in memory and the locals do not. `Midnight`, `DemoExpires`
and `Stop` are the environment's. The nine handlers differ only in which
labels they visit; that is what the sets `Metered`, `Decrypts`, `NeedsToken`,
`ChecksExpiry`, `StoresResult`, `OnlyLogs` say, each read off the handlers. The
handlers of `notion_sync` and `board_analysis` (`Stubs`) build the tenant's
settings, do nothing with them and answer `completed`
(`queue/worker.py:508-547`): such a job does not enter `ran`. The answers are
written to `job_results`, which nothing in `src/brain` reads: the poll answers
from `_job_status` (`webhooks.py:633-638`).

`QueueObeyed` says that all this is a client the queue can have: every step of
the worker is one of `TaskQueue`'s operations or leaves the queue alone.

Abstractions: a tenant's credentials are only readable, unreadable or absent;
payloads, prompts and results are not modelled; storage writes are atomic (one
`os.replace`, see `LocalStorage`); the health-check file and the memory lock are
left out.

#### `TenantScheduler`: `queue/scheduler.py`
One daemon thread. `pc` is `asleep` (in `time.sleep(60)`), `awake` (a tick is
due), `checking` (between two tenants of a tick) or `ended`. `ListTenants`
takes the minute (`at`) and the tenants' records; `CheckTenant` is the whole of
`_check_tenant`, four schedules in one step; `TickFails` is the exception that
`_run_loop` logs; `TickEnds` and `Wake` close the loop and look at `_running`.
`lastCheck` is `_last_check`, one key for each plan; `submitted` is history:
how often each slot's job was enqueued. The environment moves the clock
(`TimePasses` by any amount, `ClockCorrected` backwards within the hour),
changes and deactivates tenants, stops the thread, and `WorkerWrites` puts the
worker's own records below the tenants' prefix, where `list_tenants` finds
them.

Abstractions: a listing is atomic; a schedule is a record of the fields
`_check_tenant` reads, and a time that does not parse is one no minute equals;
jobs are counted rather than queued, because the queue never refuses one. A
restart is not modelled: nothing of this module survives it, so it would be
`SchedulerInit` again, and the at-most-once below holds for each process only.

### Storage: `AtomicStore`, `LocalStorage` (`storage/*.py`)

`AtomicStore` is what the users of a backend take it for: documents put,
removed and read in one step each. `LocalStorage` is `local.py` at the level of
names and inodes. `OpenTemp` is `open(tmp_path, "w")`, which truncates a
left-over temporary file and does not replace it; `WriteHalf` writes a document
in two pieces; `Replace` is `os.replace`; `WriteFails` the `except` branch that
unlinks the temporary file; `OpenForRead` and `Load` are the two halves of
`read_json`; `Delete` unlinks a name and leaves the inode to those who have it
open; `Die` leaves everything as it is on the disk. `Writes` says which keys
each user writes. As long as the writers of a key take turns, each of them over
what the one before left, `StorageIsAtomic` holds, by the
mapping `Visible` (a key holds what its file holds) and `Answered` (a reader
has its answer when it opens the file).

### Webhooks: `Access`, `JobTracking`, `RateLimiter`

`Access` holds the permission tables of tiers and user roles and
`check_access`. `JobTracking` has the eight endpoints that start a job; each is
the permission, `enqueue` and `_track_job` with its sweep in one step, because
there is no `await` between them. `Poll` may land on any process
(`webhook_job_status`); `RestartApi` empties one. A refused request changes
nothing here, and the limiter is the module `RateLimiter` below.

### Accounts: `Accounts`, `BanManager`

`Accounts` is sign-in, access by access: `FindUser` (index, then record),
`LoginKnown` (`record_login` and the token), `ReadInvite`, `RedeemInvite`,
`ProvisionOwner`, `CreateUser`, `ReadIndex` and `WriteIndex` (two accesses,
since the lock belongs to a manager made for the request), `FirstLogin` and
`BindOwner`; and administration: `CreateInvite`, `UpdateRole`, `DeactivateUser`,
each a read and a write of a whole record. Processes interleave between
accesses and may die between any two. A token carries what the records said
when it was issued and ends `TokenLife` ticks later.

`BanManager` is one client's failures, its ban stage and the ends of its bans
(`AuthFails` is `record_failure` with `_evaluate_escalation`), success,
permanent bans, unban, and a restart, after which only what
`_load_persistent_bans` finds is left. `sentence` remembers the latest end of
any ban given and not lifted. The stage stays on the record when its ban is over,
and a stage the record is on is passed over (`security/ban.py:195-196`): `FirstDue` is the
failure that may bring the ban of a stage, the first with which its threshold is
met in its window and none later has been.

### Tenants: `TenantStore` (`tenant/manager.py`, `demo_manager.py`, `api/routes/{tenants,billing,demos,vault}.py`)

Every operation is a list of accesses (`Request` gives it), of which a thread
takes one at a time: `MarkPartitions`, `SaveCopy`, `ReadRecord`, `WriteRecord`
(the whole copy replaces the record), `CleanPartition`, `ReadLog`, `WriteLog`.
Registration, demo creation and expiry, the two billing events that change a
tenant, configuration with or without a credential and the first binding differ
in their lists. Threads die between accesses (`OfficeDies`), and a tenant's own
pipeline or vault writes documents at any time (`StoreData`).

### Catalog: `Catalog` (`catalog/store.py`)

`Execute` is one statement under the connection's lock, `Commit` the commit
under it again; threads of one process share the connection, so a commit takes
along what another thread executed. SQLite lets one connection write;
`TimesOut` is the busy timeout of the others; `Disconnect` the end of a
process and of its open transaction. Every call is one statement and a commit;
`Bootstrap` is the list of calls of `bootstrap_velaflow`.

### Retrieval: `VectorStore`, `Chunker` (`rag.py`)

`VectorStore` has one table whose key is a hash of document id and index, not
of the tenant: `Admit` compares the count with the limit, `StoreChunk` is one
`INSERT OR REPLACE`, `IngestBreaks` leaves what was stored,
`DeleteDocument` and `PurgeTenant` remove rows. `Chunker` is `chunk()` on
sentences as lengths: `NextChunk` is one turn of its loop with the overlap,
its behaviours build every text of up to `MaxSentences` sentences.

### Pipeline: `Medallion`, `Silver`, `SqlMedallion`

`Medallion` is one tenant's files and the runs over them, read by read and
write by write: `Trigger` (the route's counter first, then its refusals),
`Ingest`, `ReadBronze`, `WriteSilver`, `WriteScores`, `WriteDigest`,
`StageFails`, `Persist`, `Perish`. The sources a stage has left are a set, and
`First` is the one it comes to next, as each stage goes through them in one
order. Names carry the second, so two batches of one second are one file; silver
reads the latest batch of each source however old. `Silver` is what a batch
becomes: validation and repetition (`Valid`, one loop for the three sources), and
`Mask`, with the matches of the patterns as intervals of a text, replaced one
after the other from the last start to the first. `SqlMedallion` is the
DuckDB engine: all tenants in each table, a DELETE and an INSERT that commit
separately (`Interrupted` in between), the ranking that keeps a version.

### Digests: `Planner` (`planner.py`)

`Score`, `RankTasks`, `DailyDigest`, `WeeklyReview`, `AlertOf` and
`WeekendPlan` are the functions of the same purpose, over every list of up to
`MaxTasks` of the sample tasks. A ranking, and each section of a digest, is the
set of its tasks with the order of the sort key (`Ahead`), `section[:n]` is
`ShownOf`, and the weekend's loop a fold in that order with `Place`, one turn of
the loop. `midnight` is the task at which `score_task`, which reads the date anew for
each, sees the next day.

### Board: `Board` (`organizer.py`, `todoist.py`)

`Fetch`, then `MoveTask` and `LabelTask` of one task after the other, in whatever
order the server answered, then `Report`; a
request fails or not, the user edits (`Edit`) and the date turns (`NextDate`)
at any moment. `Analysis` is the part of `analyze_board` a run acts on.

### Notion: `NotionSync`, `Dashboard` (`notion.py`, `cli.py`)

`NotionSync` is `notion-sync --full` request by request: the planner's tasks to
its database, the whole board to its own, items without an id back to Todoist.
`Ask` is a request that is done and answered, done and not answered, or not
done. What a task always has (name, priority, URL) is its `text`, what it may lack
(due date, labels, duration, notes) its `extra`; `Properties` leaves the item's
extra as it was when the task has none (`notion.py:396-410`). Several syncs and the user act at once. `Dashboard` is `notion-setup`,
`notion-rebuild` as lists of requests (`SetupSteps`, `RebuildSteps`, with
`command.at` the one that comes next): when one raises the command ends, what was made stays, and only a complete setup
prints its ids.

### Briefings: `Briefing`, `LanguageModels` (`cli.py`, `llm.py`, `llm_local.py`)

`FetchList` is one filter of a command, merged with those before it. A filter is
asked for one page (`FilterLimit`, 200 in `todoist.py:118`) and its `next_cursor` is
not followed, so with more tasks it answers with any `FilterLimit` of them
(`Answers`), whereas `get_tasks` reads all pages;
`BuildText`, `AskProvider` (the next of the chain, which answers or not) and
`Deliver` follow. The user completes and replans tasks between the requests.
`LanguageModels` is the chain: which models, in which order, with and without
a proxy, in demo mode, and the local model that the worker's `llm_generate`
tries first.

### Backups: `DriveBackup` (`scripts/drive_backup.py`)

The sources of a host are a list of names (`Entries`) with versions, some of them
links (`LinkEntries`). `ArchiveEntry` reads one as it is by then, or finds it gone,
`Upload` is `_with_retry` around a request that may have been done although it failed, `ListBackups` and
`TrashOld` the retention (the set `Beyond` of files with enough newer ones, the
newest of them first), `StartRestore` and `ExtractEntry` the restore, which writes
regular files over what its target has, skips links, and leaves alone what the
archive lacks (`drive_backup.py:428-452`); several
hosts share the folder and the operator may change the key.

### Ledger: `ActionLedger` (`security/action_ledger.py`)

`Prepare` is what `log` does before the lock, `AppendEntry` what it does under
it: hash, head, count, segment, and a file append that may fail. Processes
share the day's file and nothing else; a restart empties the head.

### Guards: `CircuitBreaker`, `ResilienceBreaker`, `RateLimiter`

#### `CircuitBreaker`: `security/circuit_breaker.py`
One named breaker and the threads inside `retry_with_backoff`. A caller's
`phase` is `attempt` (at the head of the loop), `calling` (inside `fn`),
`backoff` (in `time.sleep`) or `exhausted` (behind the loop). Each method of
the breaker is one step, as it runs under its lock; `_check_recovery`, which
each of them calls first, is the operators `Checked`, `CallsChecked` and
`SuccessesChecked`. Between `Admit` and `Succeed` or `Fail` the breaker may
have gone through any other states. `probes` is history: the calls admitted in
the current half-open period that have not reported.

#### `ResilienceBreaker`: `security/resilience.py`, `CircuitBreaker` and decorator
`call()` decides under the lock (`Enter`, `RejectCall`), runs the function
without it, and records the result under the lock again (`CallSucceeds`,
`CallFails`). The function is one decorated with this file's
`retry_with_backoff`, so the breaker hears only of its last attempt.

#### `RateLimiter`: `security/resilience.py`, `RateLimiter`
`ReadTime` is the `time.monotonic()` before the lock, `Allow` the rest of
`allow()`: the sweep of idle keys, the window of the key, the verdict.
An entry of a key's list is the time its thread had read (`at`) with its place
in the order of appending (`no`), so the list is a set; `granted`, the time by
the clock, is history, and so is `grants`, every entry that was ever made.

Abstractions of the three: the failure counts stop at their threshold, because
the code only ever asks whether it is reached; `cooled` and `rested` say
whether the timeout since the last failure is over, which `CoolDown` and
`TimeoutPasses` may decide at any moment; the service is up or down, and a call
returns what it is at that moment.
`allow()` guards the webhooks and the sign-in and tenant routes; no module of
`src/brain` passes a breaker to a client yet, so the breakers are checked as the
library they are.

### Composition

`QueueWorker` composes worker and queue, `JobTracking` uses `Access`,
`Briefing` uses `LanguageModels`. The other components meet only through
storage, whose atomicity is what `LocalStorage` shows. Those that share no
variable are checked side by side: `MCGuards`, `MCRecords` and `MCData` extend
several modules, each behaviour moves one of them, its `focus`, and the others
stand still. The state space is then the sum of the components' and not the
product, and every property of a component is checked in every one of its
behaviours. `MCSilver`, `MCBoard` and `MCTenantScheduler` give the sample
values of their module, for `MCData` and for a run of their own. That the
composition hides nothing is proved (`GuardsRunEach`, `RecordsRunEach`,
`DataRunsEach`): each of its behaviours is one of every component.

## 3. Runs

| Run | Instance | Properties | What it shows |
|---|---|---|---|
| `task_queue` | 3 messages, 2 fair workers, 2 retries, a dead-letter deque of 1, restarts | `OnePlace`, `CountersExact`, `LifecycleRefined` | the deque overflows, a message exhausts its retries, and the queue implements the life cycle of a job |
| `worker_crash` | 1 thread; a run, a job that charges nothing, one of an unknown tenant, one whose handler is a stub; 2 days, 1 restart, 1 retry | `NeverOvercharged`, `ReportedJobsAreCharged`, `ResultsAreTrue`, `QueueObeyed` | no record in memory or on disk exceeds what was granted; a job reported complete stays charged; `completed` means carried out, of every handler that carries out anything; the worker uses the queue only as a client may |
| `worker_pair` | 2 threads, 4 metered jobs of a demo tenant: allowance of 2 runs and 1 call, cost cap 1 | `QuotaPerDay`, `JobsArePaid`, `SettledIsFinal` | the lock keeps each counter within its allowance, no path reaches a job unpaid, and a settled job's result is never rewritten; cap and expiry are reached |
| `worker_liveness` | 2 fair threads, 2 jobs, 1 retry, 1 restart | `JobsSettle`, `StopIsGraceful` | every accepted job settles unless the process stops or dies; `stop()` lets each thread finish and leave |
| `worker_midnight` | 2 threads, 3 jobs, 2 days | `WorkWithinQuota` (violated) | see findings |
| `scheduler_stuck` | 1 tenant, no other failures | `TickServesTheSchedule` (violated) | see findings |
| `guards` | both breakers and the limiter | `GuardsTypeOK`, `ClosedIsTolerant`, `NeverWedged`, `WindowKept`, `BreakersRecover`, `CallsEnd` | the breakers tolerate single failures, admit probes and close again; every retry loop ends; no key gets more than its requests of a window, less the wait for the lock |
| `breaker_stuck` | 2 callers, the default proportion: 1 half-open call, 2 successes to close | `Recovers` (violated) | see findings |
| `records` | storage, jobs, accounts, tenants, catalog, vectors, backups, bans, ledger | `RecordsTypeOK` and one property of each, below | what the services keep survives interleaved processes, crashes and failing writes |
| `data` | medallion, silver, SQL, chunker, planner, board, Notion, dashboard, briefing, schedules | `DataTypeOK` and one property of each, below | what the program makes of a user's data, with failing requests and users who go on working |
| `text_lost` | texts whose matches overlap | `TextAroundIsKept` (violated) | see findings |
| `read_only_moves` | a read-only board | `ReadOnlyLeavesBoard` (violated) | see findings |

What `records` and `data` say of each component:

| Component | Property | In words |
|---|---|---|
| storage | `StorageIsAtomic` | with one writer of a key at a time, readers anywhere see documents written, deleted and read in one step |
| jobs | `RecentJobsKnown` | the sweep forgets none of the newest jobs, notes each for its own tenant, and who may start a job may poll it |
| accounts | `AccountsAreGrounded`, `AccessEnds` | the index leads to records of the person, people are in the tenant their used invite named, a binding names a user of the tenant; a token outlives its user by no more than its life |
| tenants | `SealedForOwner` | a stored credential is always sealed for the owner the record names, whatever updates are lost |
| catalog | `ReturnedIsDurable` | what a returned call created is in the file, whoever crashes then |
| vectors | `QuotaSlack` | a tenant passes its document limit by no more than its requests in flight less one |
| backups | `BackupsSurvive` | the newest files are never trashed, a run that ended well left its archive, a restore that returned 0 gave back every regular file of its archive |
| bans | `BansAreServed` | a ban is served to its end unless lifted, and the failure that first makes a stage due brings its ban in full |
| ledger | `OneChainEach` | the entries of a process form one chain in the order of the files, gaps marked by a failed write |
| medallion | `LoneRunIsCoherent` | a run nobody overlapped that reports success leaves layers that agree with what it was given |
| silver | `SilverIsClean` | one output for each key with a complete record, in order, no character left of a match in which nothing grew, and where no matches overlap everything around them is kept |
| SQL | `SilverIsLatest` | after a transform each record with content has its latest version |
| chunker | `ChunksCoverText` | nothing is lost, order is kept, overlaps fit, no chunk is too long but by one sentence |
| planner | `PlansAreConsistent` | digest sections are disjoint and complete, digest, alert and review agree, a weekend day holds no more than is free |
| board | `LeavesItTidy` | an undisturbed run without errors leaves nothing to do, and a dry run lists what the analysis finds |
| notion | `BoardMirrors` | without overlapping syncs no task has two items of one database, and an undisturbed sync leaves the active tasks open with their texts and every attribute they have |
| dashboard | `DashboardIsWhole` | sections once, the configured dashboard complete, layouts not doubled by a clean rebuild |
| briefing | `BriefingHoldsTheDay` | a text given out has each task once, and every task of its day that the user left alone or as many as a filter's page |
| schedules | `SubmittedOnce` | no slot is submitted twice by one process |

**Bounds.** `Messages`, `Workers`, `Tenants` are finite sets; `MaxRetries` and
`DeadLetterMax` are the code's constants made small (3 and 10 000 there);
`MaxDay` and `MaxRestarts` cap the clock and the crashes. Two workers are the
fewest that interleave and three messages the fewest that keep both busy with
one waiting. An allowance of one or two makes every path (granted, last one,
refused) happen within three jobs. One midnight suffices because
`_check_quota` compares a record's date only for equality with the date at
hand. `CHECK_DEADLOCK FALSE` is set for the worker because `stop()` really ends
its threads, and in `records`, `data` and the two runs on parts of them because
the requests, commands and texts there are bounded in number and may all have
been made.

For the scheduler, `Moments` holds the minutes the clock can show (a Friday
17:00, at which all of a tenant's daily, hourly and weekend jobs are due, the
minute after it, and the Sunday's weekly one), and `Configs` a schedule that
turns everything on and one that moves the digest to the next minute, so that a
tenant can ask for the same day's digest twice; `Flaky` lets a tick fail for a
reason other than the tenants' prefix.

For the breakers, three callers are one more than the half-open calls, so that
one is rejected while two are out; thresholds of two tell the first failure or
success from the last. For the limiter, `MaxTime` lets a whole window pass and
its requests expire, `PruneEvery` is 1 instead of 5 so that sweeps happen
within it, and `Lag` is how long a thread may be held up between reading the
clock and taking the lock: `WindowKept` is stated of a window shortened by it,
because entries that carry an old time do expire early.

In `MCRecords.cfg`: three inodes for one key are a file, a temporary file and
one that a reader still has open. `JobHistory` 2 with `JobsEvicted` 1 stands for
1000 and 100, and three jobs make a sweep. Two processes, two people, one invite
and two user ids are enough for the same person or the same invite twice at
once; one change of `MaxChanges` is a crash, a role change or a deactivation in
between. Two threads and three operations on one tenant give each
pair of lost updates followed by a third operation that reads the result. Two
threads of one process and one of another reach every way in which a statement
is committed by somebody else. A limit of one document with two threads passes
it by one. Two hosts, a retention of one and three uploads reach a retried
upload, its pruning and a foreign run. Three names, one of them a link, and one
edit or removal give restores into a target that holds another archive's file. The ban clock outlasts every ban. Three
entries with segments of two, three threads in two processes and two days
reach a boundary, a restart and a shared file.

In `MCData.cfg`: two runs, two sources and two seconds give equal and different
names; a queue of batches of up to three records has a repeated, an incomplete
and a good one; two batches with three places have a tie, a blank and a later
version; chunks of 6 with overlaps of 3 and sentences of 1 to 8 meet each limit
exactly, one below and one above. The planner's nine sample tasks cover every
branch of the score, `TopLimit`, `OverdueLimit` and `WeekendLimit` are small
so that four tasks exceed them. The board lacks sections the organizer knows.
Two tasks, three items, two syncs and one change of the user's reach a lost
answer followed by a second sync, and overlapping syncs; `Syncers` is a symmetry
set (both take the same steps). The user gives one of two `Wordings`, one with an
extra and one without, so that an extra can be given and cleared. Three setups and two rebuilds reach a setup
that fails, one that succeeds, and a repeated rebuild. Three briefing tasks
with filters that answer with two of them make a page that is cut and one that is
not; one task is replanned, between any two requests. With one of the settings
(`MCFullSettings`) the tasks begin with any days, with the others all today.

`QuotaPerDay` is checked with two threads within one day and without restarts:
with two threads across midnight, or after a crash, the code does not keep it.

**Fairness.** Producers, the clock, `stop()` and crashes are never obliged to
act. Weak fairness is assumed of each worker thread alone (`WorkerTurn` in
`TaskQueue`, `Step` in `QueueWorker`): the thread is an unconditional loop,
`dequeue` has a timeout, and every call out of the process has one or raises,
so a thread that is not stopped takes its next step. `Raise` is among those
steps and no fairness favours success: `JobsSettle` therefore rests on the
retry bound, not on luck. For the breakers, calls return or raise (`CallStep`,
`ClientStep`), the timeout passes (`CoolDown`, `TimeoutPasses`), and somebody
keeps calling (`BeginCall`, `BeginProtectedCall`): without a caller no breaker
ever changes. The service is owed nothing; `Recovers` and `Recloses` speak only
of behaviours in which it answers for good from some point on. Nothing else is
assumed to be fair: requests and commands may stop anywhere, so the properties
of `records` and `data` are safety.

## 4. Findings

* **A late thread loses a day's count** (`worker_midnight`).
  `queue/worker.py:176` reads the date before `:179` takes `_usage_lock`. A
  thread that read the old date, and takes the lock after another opened the
  new day's record, replaces that record by one of the old day; the next
  charge starts the new day from zero. The docstring at `:174` promises that
  the lock prevents such races.
* **The worker's records stop the scheduler** (`scheduler_stuck`).
  `TenantManager.list_tenants` (`tenant/manager.py:109`) parses every JSON file
  below `tenants/`; the worker writes `daily_usage.json` and
  `job_results/*.json` there (`queue/worker.py:211`, `:225`), which are not
  tenant records, and `_from_dict` raises. `_run_loop`
  (`queue/scheduler.py:50-53`) logs it and sleeps, so from the first carried
  out job on no schedule is served, although `README.md:193-194` has the
  scheduler queue each tenant's jobs at their configured time.
* **A half-open breaker may stay so for ever** (`breaker_stuck`). With the
  defaults (`security/circuit_breaker.py:37-38`) one call is admitted in the
  half-open state and two successes are needed to leave it. The first success
  does not give its place back, so `can_execute` answers `False` from then on
  and no result can come. `docs/README-technical.md:386` promises automatic
  recovery. `NeverWedged` states what suffices: as many half-open calls as
  successes.
* **Masking removes text nobody matched** (`text_lost`). `mask`
  (`security/pii.py:118`) replaces matches from the last start to the first by
  the positions of the original text. Where two matches overlap (an
  international number and the nine digits in it) the second replacement ends at
  a position the first one has shifted: "Call +351 912345678, tomorrow" becomes
  "Call [PHONE_INTL] tomorrow". The comment at `:117` says the order preserves
  positions. The same staleness may leave a character of a match
  (`MatchesAreGone` in the table below).
* **Read-only does not hold for the organizer** (`read_only_moves`).
  `reorganize_board` (`organizer.py:355`) moves and labels unless `dry_run` is
  set, and nothing on its path reads `brain_read_only`; `config.py:96` and
  `docs/velaflow-book.md:398` say that no write goes to Todoist.

**Claims the code does not keep, stated without a run of their own.** Each of
these is a definition of its module that TLC refutes when it is put into the
configuration of the component:

| Definition | Claim | What happens |
|---|---|---|
| `WorkWithinQuota`, with a restart | `README.md:329-330`: counters are persisted so that quotas survive restarts | the record is written after the job (`queue/worker.py:375`, `:411`, `:485`, `:658`); a crash in between forgets it |
| `UndecryptableNotRetried` | `tenant/manager.py:267-269`: an unreadable credential is permanent | `_run_loop` requeues on any exception |
| `CompletedWasDone` | `queue/worker.py:510`: "Notion sync executes with per-tenant credentials" | the handler stores `completed` and ends; that of `board_analysis` likewise |
| `AcceptedJobsAreFound` | `webhooks.py:629`: poll an accepted job | another API process has no note of it |
| `NobodyReadsTorn`, with two writers of a key | `storage/local.py`: "Atomic write" | both write the same temporary file |
| `DeactivationHolds` | `deactivate_tenant` soft-deletes | an update that read the record before writes it back active |
| `MatchesAreGone`, with `MCLongTokens` | `security/pii.py:115`: "Replace all PII occurrences" | a token longer than the match it replaces moves the end of the match around it: "john+123456789@x.com ok" becomes "[EMAIL]m ok" |
| `DocumentsStay` | `rag.py`: tenant-scoped collections | the key of a chunk names no tenant, and `INSERT OR REPLACE` takes another's row |
| `UntamperedVerifies` | `verify_chain`: true if intact | two processes or a restart within a day break the chain of the file |
| `FailuresAreBanned` | `security/ban.py:8`: 5 failures in 5 min bring a 5 min ban | the stage outlives its ban and is then passed over (`:195-196`): after the first ban five more failures bring none |
| `RestoreIsExact` | `README.md:316`: "zero-touch restore" | links are skipped and files of an earlier restore stay, and the exit code is 0 |
| `WeekendHardCap` | `notion.py`: hard-capped at the capacity in total | the capacity is applied to each day |
| `UpcomingIsNear` | `planner.py`: "next 7 days" | any later date is listed |
| `EveryTaskIsFetched` | `todoist.py:133`: "Fetch tasks due today (includes overdue)" | one page of 200 is read, and no request fails |
| `ExactMirror` | `notion.py:1000`: "an exact mirror of the Todoist active board" | a due date, labels, a duration or notes that the user cleared stay in the item |
| `EditsSyncBack` | `notion.py`: edits sync back to Todoist | only items without a Todoist id go back; edits of others are overwritten |
| `DemoIgnoresRealKeys` | `config.py`: real keys ignored in demo mode | without a proxy the chain goes on to them |

**Seen while modelling, without a property.** The digest handler lacks the
expiry gate of its siblings. A demo account's cost cap is never compared for
LLM calls. A dead-lettered job leaves no result, and a job's status stays
`queued` for ever. The scheduler's 60 s sleep drifts against an equality of
minutes, and its marks do not survive a restart. A crash between
`redeem_invite` and `create_user` uses the invite up for nobody. A crash in
`create_demo` leaves an unlimited `vip` tenant. The clean-up of a deactivation
is a list of deletions any of which may not happen, and does not include the
vault. The demo log is read and rewritten whole. `/pipelines/run` counts a run
before it refuses it, on a counter of its own. A shorter text ingested again
leaves the tail of the longer one; nothing calls `purge_tenant`. A catalog
bootstrap restores a revoked grant, and the row count of one tenant is written
to a table's shared statistics. Overlapping Notion syncs make two items of one
task, and a lost answer a second task. A filter that fails looks like a day
without tasks. A retried upload counts twice against the retention, and hosts
whose names share a prefix evict each other's files. A late success resets the
failure count of an open breaker.

## 5. Proofs

`TaskQueue_proofs` proves, for any finite sets of messages and workers, any
retry bound and any deque size (`QueueAssumption`):

| Theorem | States |
|---|---|
| `QueueTypeCorrect` | `QueueTypeOK` |
| `OnePlaceAlways` | `OnePlace` |
| `DeadHaveNoRetriesLeft` | `DeadOnlyAfterRetries` |
| `TaskDoneIsSafe` | `TaskDoneNeverRaises` |
| `CountersAlwaysExact` | `CountersExact` |
| `QueueRefinesLifecycle` | `LifecycleRefined` |

*The argument.* `QueueTypeOK` is inductive by itself: `Retry` increments
below the bound it tests. `OnePlace` is inductive given the types: a fresh
message enters the FIFO once because `accepted` remembers it, and every other
operation moves one message out of one place and into another; the FIFO's
freedom from repetitions is carried by two lemmas on `Append` and `Tail`.
Together they form `QueueInv`, and the remaining invariants are inductive
relative to it. `CountersExact` needs `OnePlace` because a cardinality grows by
one only if the message was not counted already; `TaskDoneNeverRaises` needs it
because two workers holding one message would be counted twice;
`DeadOnlyAfterRetries` needs the disjointness, as otherwise a message in
`dead` could be retried again. The refinement shows, action by action, that
exactly one message's abstract status changes (`LifecycleStep`); here
`OnePlace` is what makes `StatusOf` well behaved, as the order of its tests
would matter if a message were in two places.

`QueueWorker_proofs` proves, for any workers, tenants, kinds of jobs and
allowances (`QueueAssumption`, `WorkerAssumption`):

| Theorem | States |
|---|---|
| `WorkerImplementsQueue` | `QueueObeyed`: `WorkerSpec => QueueSpec`, so the six theorems above hold of the worker too |
| `WorkerTypeCorrect` | `WorkerTypeOK` |
| `NeverOverchargedAlways` | `NeverOvercharged` |
| `JobsArePaidAlways` | `JobsArePaid` |
| `AllowanceOfOneDay` | `QuotaPerDay`, assuming `MaxDay = 1` and `MaxRestarts = 0` |
| `ResultsAlwaysTrue` | `ResultsAreTrue` |
| `SettledAlwaysFinal` | `SettledIsFinal`, an action property |
| `ReportedAlwaysCharged` | `ReportedJobsAreCharged`, assuming one thread (`OneThread`) |

*The argument.* `WorkerBase` collects what every handler relies on: the two type
invariants, that a thread inside a handler holds a message, and that one past
the quota of a metered job knows the day it read. `NeverOvercharged` is
strengthened to every place a usage record can be in, including the snapshot a
thread serialised and has not written. `JobsArePaid` needs more than the totals:
`PaidAhead` says that what was spent plus the threads that were granted a charge
and have not executed (`InFlight`) is at most what was granted, which a step of
one thread changes by at most one. `QuotaPerDay` needs that the record in memory
is the account of the day (`DayAccount`): true while there is one day and one
process; `worker_midnight` shows that the first hypothesis cannot be dropped with
two threads, and the crash of section 4 that the second cannot.

`ResultsAreTrue` speaks of settled messages, and is not inductive: it says
nothing of a thread about to settle one. `ResultsInv` adds what each thread is
about to report (`TruthfulAt`) and that a result is the last thing that happens
to a message (`AnswerIsLast`): one that has a result does not wait and is held
by no thread but one about to settle it. That needs `OnePlace` of the queue,
which holds of the worker because the worker implements the queue. With it
`SettledIsFinal` is a property of each step: a thread writes only the result of
the message it holds, and a held message is not settled (`HeldIsNotSettled`).

`ReportedJobsAreCharged` needs the order of the writes. `ChargeInv` says that the
record in memory covers the jobs reported and the jobs under way, that the one
on disk covers the jobs reported, that neither is later than today nor the disk
later than the memory, and of a thread that its snapshot is the record in memory
until it is written (`AtHand`). The number of jobs a record must answer for is
the cardinality of a set (`Claims`); charging one job adds one to both sides, and
a record of a new day answers for none of the days before. `AtHand` is where one
thread is used: `_persist_usage` writes outside the lock, and of two threads the
one with the older snapshot may write last and take the other's charge off the
disk, where a crash would lose it. `QueueWorker.start` runs one blocking loop,
so the deployment of section 1 meets the assumption.

`Guards_proofs` proves what stands between a caller and a service, for any
finite set of callers, any thresholds and half-open limit (`BreakerAssumption`
of the one breaker, `CircuitAssumption` of the other), and any threads, keys,
limits and windows (`LimiterAssumption`):

| Theorem | States |
|---|---|
| `BreakerTypeCorrect` | `BreakerTypeOK` |
| `ClosedAlwaysTolerant` | `ClosedIsTolerant` |
| `ProbesLimited` | `ProbeLimit` |
| `NeverWedgedAlways` | `NeverWedged` |
| `LimiterTypeCorrect` | `LimiterTypeOK` |
| `WindowAlwaysKept` | `WindowKept` |
| `CircuitTypeCorrect` | `CircuitTypeOK` |
| `GuardsTypesAlways` | `GuardsTypeOK`, of the composition `GuardsSpec` |

*The argument, breaker.* The last two of the breaker rest on one invariant,
`ProbesCounted`: in a half-open period the calls out are at most those counted,
and those counted are at most the successes plus the calls out, whichever period
they are from. A late result of an earlier period only helps the second
inequality; a failure ends the period, so no counted call disappears otherwise.
With no call out and fewer successes than are needed to close, the count is below
that number, hence below the limit when the limit is at least as large.

*Limiter.* The list a thread finds may be out of order and may have been swept by
a thread whose time is older or newer than its own. `ListIsEnough` says that it
nevertheless holds every grant that the shortened window can see, and no more
than the limit. A pruned entry is out of the window: a thread's time is at most
`Lag` behind the clock (`StampsAreFresh`), so an entry older than its cutoff was
granted at most `Lag` after it. The sweep looks only at the last entry; that it
loses nothing is where `GrantsInOrder` is needed, since the grants of a list were
made in its order though its times are not in any.

*Composition.* `GuardsRunEach` shows that a behaviour of `GuardsSpec` is one of
each component: it starts in a state of its initial ones, and a step moves the
component in focus and no variable of another. So what is proved of a component
holds of the composition, and `GuardsTypesAlways` follows from the three type
theorems. `RecordsTypesAlways` and `DataTypesAlways` below are proved likewise.

`Storage_proofs` proves, for any users, keys, documents and inodes
(`StoreAssumption`), threads, tenants and requests (`TenantStoreAssumption`),
callers and connections of the catalog (`CatalogAssumption`), hosts, entries of an
archive, links among them, uploads and retention (`DriveBackupAssumption`):

| Theorem | States |
|---|---|
| `StorageImplementsDocuments` | `StorageIsAtomic`: `StorageSpec` implements `AtomicStore`, as long as the writers of a key take turns (`[]WritersTakeTurns`) |
| `SealedForOwnerAlways` | `SealedForOwner` |
| `ReturnedIsDurableAlways` | `ReturnedIsDurable` |
| `DriveTypeCorrect` | `DriveTypeOK` |
| `BackupsAlwaysSurvive` | `BackupsSurvive` |

*The argument, documents.* `StorageInv` says that what a name leads to, or a
reader has open, is a whole document (`FilesWhole`, `ReadersWhole`), that a writer
has the temporary file of a key of its own open and has written to it what its
operation says (`WritersAt`), and that nobody else sees a temporary file and no
two keys share one (`TempsApart`). `WritersAt` is where
it is used that the writers of a key take turns: a second one at the same time
would truncate the file under the first (`WritersApart`). Turns are a hypothesis
about behaviours and not about who may write: a key may have any number of
writers, such as the API's processes for `users/_index.json`, the worker's threads
for `daily_usage.json`. Nothing in the code enforces the turns
(`tenant/user_manager.py` and `_persist_usage` write outside any lock that another
process would see), which is hazard enough to be listed: that two writers at once
tear a document is `NobodyReadsTorn`, refuted.
`SingleWritersTakeTurns` says that keys with one writer meet the hypothesis, which
is the instance of `records`. `TempsApart` also covers a temporary file that a crash left behind: the next
writer truncates it, and no reader has it open. The refinement then needs one
lemma per kind of step: `Replace` puts a document, `OpenForRead` is the read,
`Delete` removes, and every write to a temporary file is unseen (`TempsUnseen`).
Without the hypothesis the property fails.

*Tenants.* A record may be overwritten at any time by a thread whose copy is
older, so the property of the stored records is not inductive alone. `SealedInv`
says the same of every copy a thread holds (`CopyAt`), unless the thread's copy
is the event log, and of a thread about to bind an owner that the copy it
checked has none: a binding that gave a sealed copy a new owner would break it.
`UpdatedSealed` then shows that each update turns a sealed record into a sealed
one, and the lemmas about the steps carry copies from one update to the next.

*Catalog.* A statement is executed in the transaction of its connection and
committed later, perhaps by another thread. `CatalogInv` says that what a clerk's
last statement created is in the database as its own connection sees it
(`ClerkCounts`), and that an open transaction has everything the file has
(`Within`). So whichever thread commits, the file only grows, and when a clerk's
own commit returns, its connection has no transaction open any more and what it
sees is the file. That no statement takes away a namespace, a schema or a table
is `AppliedGrows`.

*Backups.* Files only come to the folder (`Grown`), so a file that has enough
newer ones keeps them: what a run listed as old (`RunAt`) is old when it is
trashed, however late and however often that is asked. `RunAt` also says that a
run past its upload has its archive in the folder, by whichever of the attempts
it came there. `RestoreAt` says that the regular files among the entries extracted
so far are in the target; the file being restored does not change and no entry is
written twice, so after the last one they all are.

`Accounts_proofs` proves, for any processes, people, users, invites, tenants and
token life (`AccountsAssumption`), and any processes, sessions and lengths of the
job notes (`JobTrackingAssumption`):

| Theorem | States |
|---|---|
| `AccountsGroundedAlways` | `AccountsAreGrounded` |
| `AccessEndsAlways` | `AccessEnds` |
| `RecentJobsKnownAlways` | `RecentJobsKnown` |

*The argument, accounts.* A handler reads records in one step and saves them in a
later one, so `AccountsInv` says of every step of a handler what its copies are
worth by then (`HandlerAt`): a copy of a user may be old but is of the same
person and tenant, the index is of people who have records, an invite that was
read as open may have been used since but names the same person and tenant, and
who is about to get a record has a warrant for it. All of that is about parts of
the records that no step changes once they are there (`RecordsLast`), so one
lemma, `FootingStays`, carries the other handlers through any step.

*Tokens.* `AccessEnds` needs the moment a user was last active. `LastSeen` says
that this is now for an active user and that a token lives at most its life from
there; `AboutToAdmit` that a login on its way to a token has found its user
active. A handler finishes within a tick of the clock (a tick is long against a
request, `ClockMoves`), and within one tick who was active stays noted as such
(`SeenStays`), so a deactivation during a login leaves the token grounded.

*Job notes.* The notes of a process are the last ones of what it queued, and at
least as many as `RecentJobsKnown` speaks of (`NotesOf`); ids ascend
(`Ascending`), so none is noted twice. That the sweep never leaves too few is
arithmetic about `Evicted` and an append (`NotesFollow`). The second half is a
fact about the permission tables: every role that grants anything grants
`view:pipeline_runs` (`WhoActsMayPoll`).

`Records_proofs` proves, for any finite set of threads and any tenants, documents
and chunks (`RagAssumption`), any loggers, segment sizes, days and entries
(`LedgerAssumption`), and any stages, windows and thresholds of bans
(`BanAssumption`), and, under the assumptions of the modules, the types of
everything `MCRecords` composes:

| Theorem | States |
|---|---|
| `QuotaSlackAlways` | `QuotaSlack` |
| `OneChainEachAlways` | `OneChainEach` |
| `BansAreServedAlways` | `BansAreServed` |
| `StorageTypeCorrect` | `StorageTypeOK` |
| `JobTypeCorrect` | `JobTypeOK` |
| `AccountsTypeCorrect` | `AccountsTypeOK` |
| `TenantStoreTypeCorrect` | `TenantStoreTypeOK` |
| `CatalogTypeCorrect` | `CatalogTypeOK` |
| `RagTypeCorrect` | `RagTypeOK` |
| `BanTypeCorrect` | `BanTypeOK` |
| `LedgerTypeCorrect` | `LedgerTypeOK` |
| `RecordsTypesAlways` | `RecordsTypeOK`, of the composition `RecordsSpec` |

*The argument, documents.* The number of a tenant's documents is not bounded by
itself: the chunks of an admitted one come later. The invariant bounds `Expected`,
the documents the tenant has together with those a thread is storing for it.
`Admit` alone enlarges that set. It saw fewer documents than the limit, and no more
are being stored than there are threads (`PendingFew`, a surjection from the
threads), so the sum stays within the slack. Every other step, the replacement of
another tenant's chunks included, makes `Expected` less (`LessIsWithin`).

*Ledger.* The head in memory is what the next line has to name (`HeadOf`),
whatever was written meanwhile, because hash, head and append are under one lock.
The order of the lines follows from hashes that are only ever used once: along a
chain they ascend (`Linked`), and in the files a lower one stands earlier
(`FilesInOrder`), days included, as a new line goes to the end of the latest day.

*Bans.* `SentenceIsNoted` turns the first half of `BansAreServed` round: a sentence
is over, or the record ends no earlier, or the ban is permanent. Only who is not
banned is judged anew, so no sentence is cut short. `BansNoted` says of the second
half that the ban of a stage due for the first time is in the record, whatever came
later. Failures are numbered, so a later one changes nothing about which stages the
earlier ones made due (`NewFailure`). That the code does give the ban at that moment
needs the converse of what it tests: it compares the stage with that of the record,
and the record is on no stage that no failure made due (`StageIsEarned`). One
failure may fill several windows at once, of which the record takes the highest,
which exists because there are finitely many (`HighestStage`).

*Types.* What a component's variables are is rarely inductive as its type
invariant words it. Most of the shapes are part of the safety invariants above;
what these lack is counted separately. Storage needs no single writer for its
shapes (`Shapes`). Notes bear numbers of jobs that were accepted, and a poll's
answer is one of those there are (`NotesNumbered`). The end of a token is a time
(`TokensTimed`). Documents are in partitions of the known kinds, and an event log
stays within its bound (`StoredInLayers`). An ingestion under way comes to a chunk
its text has (`RagCounted`). Failures are in the past (`BanTimed`). Lines and heads
bear hashes that were given out (`LinesNumbered`). In the catalog, what a legal
statement makes of a database is a database (`AppliedIsDb`), so the file and the
open transaction are (`DbsAreDbs`); the statements of the bootstrap name the
schemas `bronze` and `gold`, which is why `CatalogAssumption` has them among
`SchemaNames`.

`Data_proofs` proves, for any runners, routes, sources, quotas, runs and seconds
(`MedallionAssumption`), any tenants, records and batches (`SqlAssumption`), and
any tasks, texts, items and syncs (`NotionSyncAssumption`), any board, hints
and sections (`BoardAssumption`, by which no inferred label is `blocked`), any
finite set of tasks, any days, settings and commands (`BriefingAssumption`),
any number of setups and rebuilds (`DashboardAssumption`), and any tenants,
schedules and minutes (`SchedulerAssumption`):

| Theorem | States |
|---|---|
| `LoneRunAlwaysCoherent` | `LoneRunIsCoherent` |
| `SilverAlwaysLatest` | `SilverIsLatest` |
| `BoardAlwaysMirrors` | `BoardMirrors` |
| `BoardAlwaysLeftTidy` | `LeavesItTidy` |
| `BriefingAlwaysHoldsTheDay` | `BriefingHoldsTheDay` |
| `DashboardAlwaysWhole` | `DashboardIsWhole` |
| `SlotsSubmittedOnce` | `SubmittedOnce` |
| `MarksAreJobs` | `MarkedIsSubmitted` |
| `MedallionTypeCorrect` | `MedallionTypeOK` |
| `SqlTypeCorrect` | `SqlTypeOK` |
| `BoardTypeCorrect` | `BoardTypeOK` |
| `NotionTypeCorrect` | `NotionTypeOK` |
| `DashboardTypeCorrect` | `DashboardTypeOK` |
| `BriefTypeCorrect` | `BriefTypeOK` |
| `SchedulerTypeCorrect` | `SchedulerTypeOK` |
| `DataTypesAlways` | `DataTypeOK`, of the composition `DataSpec` |

*The argument, layers.* The property speaks of a run that has ended; `AloneAt` says
of every stage on the way how far the layers agree with what the run has at hand:
the batches it was given are the latest of their sources, silver agrees on the
sources it has been through, then the scores, then the digest. An overlapping run
would break any of these, hence `AloneIsAlone`: while a run counts as alone
everybody else is idle. The one delicate case is a source of which the run was
given nothing and none was ever ingested: the run skips it, and silver has nothing of
it either because nothing gets to silver that was not ingested (`LayersGrounded`).
That `ReadLatest` returns the run's own batch uses that no batch is of a second to
come.

*Silver rows.* `SilverFollows` says that each row is among those the ranking may
keep, for the tenants whose transform has run since their last batch. The
ranking's `CHOOSE`s have values because batches have a newest (`NewestBatch`), and
a transform that was interrupted after its DELETE is not `fresh`.

*Notion.* `NotionInv` says, as long as no syncs overlapped, that the items are one
per task and database (`ItemsAreOne`), that a sync in the middle of writing a
database found every item of a task it has still to write (`FoundAt`), and, if
nothing failed or changed meanwhile, which tasks and items stand between the board
and the mirror (`Mirrored`); when none are left, the items show what the tasks have
(`Shown`), though perhaps more. A lost answer leaves an
item that the next sync's query finds; that is why a repeated sync creates no
second one.

*Board.* `AsFarAsItIs` says of every moment of an undisturbed run without errors
what it has made of each task it has been at (`Tidied`), or has listed (`Lists`).
What that comes to at the end is `SettledByTidying`: a task moved and labelled as
suggested gets no further suggestion, because no inferred label is one that places
a task, no suggested section is one of the planner's, and a task in one of those
is moved for its label or recurrence alone, which the move leaves as they were.

*Briefings.* While requests are left, a task of the day that the user left alone is
listed already or matches one of them, or a full page is listed (`ListsAnswers`,
`FullPage`): a filter that does not answer with everything answers with as many
tasks as its page takes, each of them is on the merged list under its own name
(`AnswerIs`, `NamesAreEntries`), and the list only grows. That an answer's task is
listed whenever it is new to the list does not say with which day: an entry may be
older than the answer. For a task left alone it is not (`ListedAsIs`), and so the
merge by task alone loses nothing of it. `MergedIs` and `SetToSeqLists` say what the
merge returns, for an answer in any order; `ChainsAre` and `AsksInPrivate` what a
chain of providers may hold in a demo that is to stay private.

*Dashboard.* What is there while a setup runs follows from the step it is at, so
the invariant says it by places (`SectionsMade`, `PagesMade`, `FilledOnce`) and two
lemmas say which step is at which place (`PlacedAre`, `SetupStepIs`); a step that is
not about sections, pages or layouts leaves what is known of them (`SectionsStay`
and its siblings). A setup that stops leaves pages nobody names, which is why a later
one works on pages of its own (`YetEmpty`) and must not touch those the
configuration names before it prints its ids. `RebuildLaid` follows a rebuild in
the same way; a rebuild never comes near a page with a database.

*Schedules.* `_last_check` remembers only the newest key of a plan, so
`SubmittedOnce` is not inductive: a state that had forgotten a submitted slot
and stood before it again would break it. `NewestKey` strengthens it: the
remembered slot is at most the slot of the tick, that is at most the slot of
the clock, and no slot later than the remembered one has a job. Two lemmas on
integer division carry it: a later minute never has an earlier slot
(`SlotMonotone`), and a correction within the hour changes no slot
(`SlotOfHour`, from 1440 = 60 * 24). This is also where the assumption about
corrections is used: a clock set back over a whole hour does submit an alert
again.

*Types.* As in `Records_proofs`, most is in the safety invariants already. The
statistics of a SQL layer are numbers because records, places and batches are
finite (`RowsAreCounted`; `SqlAssumption` asks for it). A label on the board is
one of the task's hints or `blocked` (`LabelledAsTold`, `BoardCounted`). No page of
the dashboard is laid out more often than there were commands, although each
command lays out several: `LaidOutOnceEach` counts the one the running command
still has to make of a page (`StillFills`). A briefing lists tasks with days they
may be due on (`ListsTheDue`). A sync writes tasks and goes through items that were
there when it read them, and items are never taken away (`NotionReal`,
`GoesThrough`).

`Lists_proofs` proves what three loops compute, for lists of any length: sentences of
any lengths and any chunk size and overlap (`ChunkerAssumption`), any batch of
records with any matches in their texts (`SilverAssumption`), any tasks, bookings
and limits (`PlannerAssumption`):

| Theorem | States |
|---|---|
| `ChunksAlwaysCover` | `ChunksCoverText` |
| `SilverAlwaysClean` | `SilverIsClean` |
| `PlansAlwaysConsistent` | `PlansAreConsistent` |

*Induction.* Each loop is a fold of the community modules, that is a recursive
function on the subsets of a finite set, and its invariant is a statement about
every prefix. The induction is carried out with the predicate as a set (`Induction`,
`SubsetInduction`), from the library's fact that a set of naturals has a least
element. A recursive function has its defining equation only if such a function
exists; `FoldExists` and `LeftFoldExists` show that it does, and that a fold from
left to right has a value after each element, which is the one before it with one
more turn of the loop.

*Chunks.* After each sentence the chunks done and the one being filled cover the
sentences so far (`Packed`, `Covers`): each begins at the latest behind the end of
the one before it and ends later (`Linked`), what both have is no longer than the
overlap, and only a chunk whose last sentence stands behind an overlap alone may be
too long (`Sized`).

*Silver.* `KeptFirst` says of the loop's prefix that it has kept the first complete
record of each key and nothing else. For `mask`, `Masking` says what is true of the
text when the matches of a set have been replaced, those that start last first: up
to the first start it is the original (`MaskStart`), and a character has come to
stand further right only if a match that starts at it or before it grew
(`MaskShift`), which is why `result[end:]` does not begin too early when nothing
that starts in the match grew. From these follow, match by match, that such matches
are gone (`MaskGone`) and that unmatched characters stay where matches are apart
(`MaskKept`). Both hypotheses are needed: the findings show what happens without
them.

*Digests.* A section is a set ordered by `Ahead`, which is a strict total order on a
ranking; `FirstsCount` says that the first n of such a set are n, or all of it, and
`FirstsFacts` that they are before all others. Everything said of the sections
follows from these and from set arithmetic on their definitions. Alert and review
agree although they sort by different keys: each takes the first ten of the same
positions, and all of them when there are no more. The weekend's loop keeps `Planned`: the totals are the
minutes of what was placed, within what is free; each task placed is one the loop
has been at; and an overflowed task fits on neither day, which later turns preserve
because the totals only grow.

Functions the prover is to see through are written with folds and sets, and not
with the operators of `Sequences` and `SequencesExt` that are declared through
recursion of their own (`SelectSeq`, `SortSeq`).

The type invariants of `TaskQueue`, `QueueWorker` and `TenantScheduler`, and
`DeadOnlyAfterRetries`, `TaskDoneNeverRaises`, `MarkedIsSubmitted` and
`ProbeLimit` are theorems and are not repeated by a run of their own. Conversely,
every invariant and every action property of the passing runs is a theorem.

Assumptions beyond those of the modules are part of the theorems that need them:
writers that take turns for `StorageIsAtomic`, `OneThread`, one day and one process for `QuotaPerDay`, and at
least as many half-open calls as successes for `NeverWedged`. The bounds
(`MaxJobs`, `LastSecond` and the like) are parameters: a theorem holds of each
value, so none of them limits it.

*Only model-checked:* the liveness properties, `JobsSettle`, `StopIsGraceful`,
`BreakersRecover` and `CallsEnd`, as fairness and `ENABLED` are beyond the prover;
so of the breaker of `resilience.py` the types are proved and the recovery is
checked. The claims of section 4 are refuted by TLC; nothing is proved of them.

## 6. Plan

What is left, in this order:

1. `JobTracking` composed with the queue, so that a poll can be compared with
   what became of the job, and the gates of tiers in the tenant routes.
2. `TenantStore` over `LocalStorage` with several writers, in place of atomic
   records.
3. Listing (`os.walk`) as more than one step, and with it the scheduler's and
   the pipeline's view of files that come and go meanwhile.

## 7. Not modelled

* *Encrypted audit log and zero-trust helpers*: no module of the program uses
  them.
* *Cryptography, sanitising, moderation, safe paths, logging*: functions from
  text to text or to a verdict, without state; their outcomes are choices in the
  modules that call them.
* *Gmail, calendar, NotebookLM*: read-only requests, and a rebuild of a
  notebook's sources whose other side is not in this repository.
* *The API application and its read-only routes*: they assemble and read, and
  nothing they do outlives the request.
* *Configuration and GUI*: environment variables and rendering; the settings
  that matter are constants of the modules.
* *Operator scripts* (installer, preflights, document builders), deployment and
  workflows: sequential one-off programs that question an operator or check an
  installation, and share no state with the services.
* *Within modelled components*: embeddings and similarity search, signatures of
  tokens and of provider events, usage analytics, the layout of digests, pages
  and reports, what a language model answers, `HealthRegistry`,
  `GracefulDegrader`, and the reset of `/pipelines/run`'s counter at midnight.
