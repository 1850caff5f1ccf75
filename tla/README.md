# Flowdesk: specifications, model checking and proofs

Flowdesk buys historical order-book data at Databento, downloads and imports it,
replays it, and runs backtests and strategy research on it. It consists of a local
service (`src/apps/market_service`, FastAPI, SQLite, threads and one event loop), a
cloud worker (`src/apps/cloud_worker`, Databento to S3), a Databento connector with
the order-book reconstruction (`src/apps/connectors/databento`) and a web client
(`src/apps/web`).

This directory holds TLA+ models of that code, the TLC configurations that check
them, and TLAPS proofs. Everything is translated from the source; `PROJECT.json`
names for each definition the lines it stands for.

## 1. Inventory

### Paid-download authorization (`authorization.py`, endpoints in `service.py`)
State: rows of `data_estimates`, `download_authorizations`, `authorization_ledger`,
`dataset_jobs`; in memory `authorization_tasks` and a semaphore of one.
Operations: estimate upsert, authorize, schedule, submit, mark queue failed, prepare
retry, cancel, mark expired, reconcile legacy rows, start, stop.
Hard: each operation is one `BEGIN IMMEDIATE` transaction, but a request consists of
several (authorize, then schedule, then possibly mark failed); the submission is many
transactions around network calls whose reply may be lost; the process may stop
anywhere. Correct when: nothing is ordered twice or without a reservation, budgets
hold under concurrent requests, the four tables agree, a retry is only offered for
what was never sent.

### Batch refresh, download and import (`planner.py`, `importer.py`)
State: the same rows plus files (`.batch-parts`, `.part`, destination, manifest) and
the session registration. Operations: poll all jobs, download one ready job, import.
Hard: threads share rows and paths and no lock covers more than one statement; polls
write back rows they read earlier; crashes leave partial files. Correct when:
downloads only happen for reserved, ordered jobs; a completed job has its file and
manifest; only checked books become sessions; states do not go back.

### Estimates and estimate jobs (`planner.py`, `planner_jobs.py`)
A cost estimate per request fingerprint, with a ten-minute life; background jobs that
compute estimates, with reuse, cancel, retry, expiry and recovery at start-up. Hard:
read-then-write on every status change from several threads. Correct when: one live
thread per job, and every job ends or is recovered. (A cancellation that meets such a
write is lost; the code promises no more.)

### Range planner (`range_planner.py`)
A plan of up to many days, computed day by day in an estimate job; one authorization
transaction for all of them, in the ledger of single days. Hard: the estimate of a day is a
row that single estimates, authorizations and other ranges share; the plan is read before the
transaction; a budget of its own; a confirmation schedules what exists already. Correct when:
what is reviewed is what would be reserved, a confirmation keeps the budget whatever was
reserved meanwhile, and what holds of single-day authorizations survives it (not all of it
does, see section 4).

### Cloud ingest worker (`cloud_worker/ingest.py`, `databento_api.py`)
Streams each file of a batch job to S3 (multipart, resumable), verifies by HEAD, and
writes the manifest last. Hard: stops between any two calls, concurrent workers,
existing objects. Correct when: an object is reused only if job, size and hash agree;
the manifest never names a missing object; a restart does not ingest twice.

### S3 archive and restore, daily backtest worker (`s3_storage.py`, `backtest_day.py`, `analyze.py`)
Verified upload and download of sessions; a day's backtest as a function of S3 objects.

### Order-book reconstruction and verification (`connectors/databento/src/dbn_reader.py`, `verify_book.py`, `verification_context.py`)
State: orders by id, price levels with totals, ids of a side, snapshot phase, sequence
and de-duplication window. Operations: add, cancel, modify, trade, fill, clear. The
verification merges the states of the rebuilt book with an MBP-10 reference, by key. Hard:
levels are kept incrementally; either file may lack a state the other has. Correct when
the levels are the aggregate of the orders, and when a verification passes exactly if the
two agree.

### Replay engine, backtest protocol (`replay.py`, `backtest_protocol.py`, `storage.py`)
A cursor over event groups with a lock, load outside it, blind modes; plans, splits,
runs, the application lock, blind trades. Correct when no sequence of requests shows
the future in a blind run or escapes the lock.

### Backtester, session runner and strategy search (`event_backtester.py`, `session_runner.py`, `strategy_search.py`)
A day's candidates trade on the rebuilt book in one pass over its file, then their
decisions are filled again by a backtester with a book of its own, all candidates in one
pass. Hard: three implementations of a fill and two of the book; queues, positions and
latencies of many candidates in one loop. Correct when: a candidate fares as if it were
alone, no trade uses what was not yet there, the books agree.

### Research jobs, governance, campaign, signals (`research.py`, `research_campaign.py`, `signal_engine.py`)
Background research jobs with pause, resume, cancel and recovery; promotion of strategies
on accumulated evidence. Hard: progress reports write the status blindly; a search
rewrites strategies from a list it read before, row by row. Correct when: jobs come to
rest, evidence is counted once, at most one strategy is active on paper.

### Pure or presentational parts
Features, microstructure, context index, data health, market providers, the TypeScript risk
and trading packages, the web client, the Tradovate proxy and the command lines carry no
shared state that changes concurrently. `PROJECT.json` lists each with the reason.

## 2. Plan

Steps 1 to 9 are done; the others follow in this order.

| # | Module | What it models | Abstract specification, theorems |
| --- | --- | --- | --- |
| 1 | `DownloadAuthorization` | authorization, submission, start and crash | implements `DownloadContract`; all safety and the budgets proved (section 5) |
| 2 | `BatchDownload` | polls, downloads, imports; extends 1 | all its safety proved (section 5) |
| 2a | `RangeAuthorization` | range runs and confirmations on the rows of 1; extends 1 | types and budgets proved (section 5) |
| 3 | `CloudIngest` | uploads, resume, conflict, manifest last | implements `IngestContract`; proved (section 5) |
| 4 | `ReplayEngine`, `BlindReplay` | replay cursor, blind modes, runs, application lock | implements `RunContract`; proved for one client (section 5) |
| 5 | `EstimateJobs` | estimate jobs, their tasks, cancel, expiry, recovery | liveness by TLC; one thread per job proved (section 5) |
| 6 | `RangePlanner` | ranges computed by those jobs, review, confirmation; extends 5 | reviews are current and confirmations fit the budget, proved (section 5) |
| 7 | `OrderBook`, `BookVerification` | the book's events and aggregates; its comparison with MBP-10 | the book against the aggregate of its orders, and both directions of the comparison, proved (section 5) |
| 8 | `EventBacktester`, `DailySession` | streaming passes, the simulation per intent, a day of candidates; extend 7 | groups against single runs, the pass against `run`, the trades of a day, all proved (section 5) |
| 9 | `ResearchJobs` | research jobs and strategy governance | liveness by TLC; evidence and the one paper strategy proved (section 5) |
| 10 | `SessionAssignments` | splits, assignments, cloning, trade closing | a locked session is not moved silently |
| 11 | `SignalEngine`, campaign, S3 archive | as far as the earlier steps leave room | |

One passing run per group of components that read the same state, and a violating run for
each of the five disagreements that reach furthest; the others are described in section 4.

## 3. What is modelled

### `DownloadContract`
What paid downloads promise: a reservation is made once per estimate, an order at most
once per job and only under a held reservation, and neither is taken back (a
reservation may be released). Legacy orders exist from the start.

### `DownloadAuthorization`
One record of functions over estimates and jobs stands for the four tables (the
variables' comments name the columns). An action is one transaction or one step
between two of them:

| Code | Actions |
| --- | --- |
| `save_data_estimate` | `SaveEstimate` (the guard `PreservesLifecycle` is the upsert's) |
| `authorize_download` | `Authorize`; its rollback on expiry is `SeeExpired`, then `MarkExpired` |
| `_schedule_authorization` and its failure | `Schedule`, `ScheduleFails` |
| `submit_authorization` | `Claim`, `ReadJobs`, then per job `RemoteAccepts`/`RemoteRaises`, `RecordRemoteId`, at last `FinishSubmission`; `StorageFails`, `FailSubmission`, `SubmissionRaises` |
| `prepare_queue_retry`, `cancel_authorization_job` | `PrepareRetry`, `Cancel` |
| `lifespan`, `reconcile_existing_jobs` | `Startup` (with `Reconcile`), `Crash` |

`orders[j]` is a ghost of Databento's books: the number of batch jobs it accepted for
row `j`, also when the reply never arrived. The retry endpoint is a plain function, so
it runs in a thread without an event loop; `asyncio.create_task` raises there, and
`ScheduleFails` follows each `PrepareRetry`. Requests that are refused or replayed
change nothing and are not steps. Each estimate carries limits of its own, as its metadata
do (`limits`): those the configuration had when it was made (any of `ConfiguredLimits`).
Window lengths are constants; a day is a number and a week `WeekLength` of them. `grant` is
a ghost: the limits an authorization was checked against.

Not modelled: the wording and comparison of phrase, fingerprint and displayed amount
(they select which requests get through), audit events,
and `prepare_existing_remote_download_retry` (no caller). What is shown about retries here is
about single-day requests; ranges are `RangeAuthorization`.

### `RangeAuthorization`
Extends `DownloadAuthorization` with what a range does to the same rows:

| Code | Actions |
| --- | --- |
| `_update_child_estimate` | `ReadChild`, `RewriteChild`: the SELECT and the UPDATE, with the status, the raised limits and the new expiry |
| `authorize_range_plan` | `AuthorizeRange`, its one transaction: `FitsRangeBudget`, `RangeAuthorizable`, `RangeReserves` |
| `data_planner_range_authorize` | `RangeSchedule` for each authorization, new or not; `RangeRequestFails` between commit and reply |

Which days a plan lists and how its budget is held is `RangePlanner`; here a plan lists any
estimates. One range run rewrites one row at a time. `MaxOrders` bounds the orders of a job,
since with ranges nothing else does.

### `BatchDownload`
Extends `DownloadAuthorization`; both write the same rows. It starts where the service
has just committed the authorization of each estimate and its request is about to
schedule it, so that the submission, its failures, retries and cancellations interleave
with polls and downloads (`AuthorizationNext` lists which steps remain).

| Code | Actions |
| --- | --- |
| `refresh_jobs` | `RefreshStart` lists the rows, one `RefreshPoll` per row; a failed poll writes the old status back |
| `download_ready_job` | `ReadJob`, `LookForLocalFile`, `StartDownload`, `Fetch`, `MoveToPart`, `CheckPart`, `MoveToDestination`, `WriteManifest`, `StartImport`, `ImportFile`, `ValidateImport`; errors `Raises`, `FailDownload` |
| `transition_download_job` | `MayTransition`, `Transition` |
| `import_file` | `ImportFile`: the digest comparison and the registration of the session |
| Databento | `RemoteDone` (external) |

A file is absent, good or bad (torn, empty, another instrument). Rows without
authorization (their branch of `download_ready_job`) do not occur: the service
reconciles every row with a remote id when it starts. The split assignment after an
import is left to `SessionAssignments`.

### `IngestContract` and `CloudIngest`
The contract of the bucket: a stored file stays, and the manifest comes after the last
file. `CloudIngest` is the worker's `run_ingest` with several tasks for one job:

| Code | Actions |
| --- | --- |
| `run_ingest` | `Begin`, `NextFile`, `PutManifest`, `VerifyManifest` |
| `_stream_file_to_s3`: look-up, conflict, reuse | `LookUp` |
| its upload | `CreateUpload`, then the loop: `Connect` (`open_file`), `Receive`, `UploadFullPart`, `EndOfFile`, `Retry` |
| its end | `Check`, `CompleteUpload`, `AbortUpload`, `VerifyUpload` |
| a stopped or killed task | `Crash` |

A file is a number of blocks. Of the bytes the model keeps whether the ones in the parts
are those of the listing (`intact`, `clean`): a byte is wrong when it was damaged on the
way or when a response does not continue at the right place (`position`). Each call may
fail with or without its effect. The validation of the listing (names, sizes, hashes) and
of URLs and redirects decides which runs begin and which connections succeed. Uploads
that nobody knows of any more (a crash, a lost reply to the creation) are not kept.

### `ReplayEngine`, `BlindReplay` and `RunContract`
`ReplayEngine` has the state of `replay.py` and one action per method, since each holds the
engine's lock, except that `load` is two actions: `BeginLoad`, then `FinishLoad`, `FailLoad`
(the file) or `SwapFails` (the swap raises, which no `try` covers: the session is in place,
some of its groups are applied, and it stays marked as loading). A session is a number of
event groups; the cursor stands for everything computed from the groups applied so far. Of
the data the model keeps which groups are `trade_ready`, which hold a trade, and when they
end.

`BlindReplay` extends it with the rows and requests that move both. The connections of
`storage.py` use sqlite3's default transactions, which begin at the first write: what a
function selects before is a step of its own, its writes are one step.

| Code | Steps |
| --- | --- |
| `start_blind_session` | `RequestStart`, `LoadBegins`, `LoadFinishes`/`LoadFails`, `SelectStart`, `StartRun`, `Configure` |
| `/replay/load` | `RequestLoad`, for another session `SelectExit`, `ExitRun`, `ExitEngine`; then the load |
| `exit_locked_run` | `RequestExit`, `SelectExit`, `ExitRun`, `ExitEngine` |
| `create_plan` | `RequestCreate`, `SelectActivate`, `ActivatePlan`, `ExitEngine` |
| `jump_to_candidate` | `RequestCandidate`, a load if needed, `SelectRun`, `Configure`, `MoveToCandidate` |
| `jump("first_trade")` | `RequestJump` (the check without the lock), `MoveToFirstTrade` |
| `record_trade_plan` | `RequestTrade`, `SaveTrade`, `RecordPlan` |
| play, pause, step, seek, speed, reset | `ControlReplay` (one call of the engine) |
| `engine.run` | `ReplayLoop` |
| `lifespan` | `StartUp`, or `StartUpFails` if its load raises; `Crash` ends the process and empties the engine |

`RunContract` says what the rows of `backtest_runs` promise: one run at a time, a new one
ends the old one, and none comes back. PAUSED, EXITED and INTERRUPTED are all ended there:
no code sets a row back to ACTIVE.

Not modelled: which sessions a plan has is constant (assignment and cloning belong to
`SessionAssignments`), archiving of test artifacts during the migration, the closing of
trades, settings and their lock, the signal engine's snapshots, audit events. A request
that is refused at its first check is not a step. `jump("high_volume")` is a seek. Whether
a group is `trade_ready` is a constant of the session.

### `EstimateJobs` and `RangePlanner`
`EstimateJobs` has the rows of `estimate_jobs`, the registry `estimate_tasks` and the
threads in `run_estimate_job`. A write of a status is a statement of its own, on what was
read before, so each read and each write is a step:

| Code | Actions |
| --- | --- |
| create and retry endpoints, `_schedule_estimate_job` | `CreateJob` (reuse or `NewJob`), `RetryJob`, with `StartTask` |
| `cancel_estimate_job`, `expire_estimate_jobs` | `ReadForCancel`, `WriteCancelled`; `ListExpirable`, `WriteExpired` |
| `run_estimate_job` | `ReadJob`, `MarkLate`, `MarkRunning`, `ReadForReport`, `WriteReport`, `ReadForResult`, `WriteResult`, `WriteFailure` |
| `lifespan` | `ServiceStarts` (expiry, then recovery), `ServiceEnds` |

`RangePlanner` extends it with what the runs work on, the estimate rows of the days, the
plans and the reservations:

| Code | Actions |
| --- | --- |
| `estimate_range_plan` | `Begin`, then per day `AfterReport`, `EstimateDay`, `DayFails` and `_update_child_estimate` as `ReadChild`, `UpdateChild`; `FinishRange`, `BeginFails` |
| a job of one day | `SingleRunSaves`, `SingleRunFails` |
| `authorize_range_plan` | `ReadPlan`, then its transaction `Confirm`, or `Refuse` |
| `authorize_download`, `cancel_authorization_job`, `/data-planner/estimate` | `AuthorizeDay`, `CancelDay`, `EstimateAlone` |

`disturbed` is a ghost: ranges one of whose days somebody other than their last run has
written. Not modelled: the life of a single estimate, the split of a range, the download of
what a range has authorized (its submission is in `RangeAuthorization`).

### `OrderBook` and `BookVerification`
`OrderBook` is the class of `dbn_reader.py` as operators on one record, one per method
(`ApplyEvent` is `apply`); an event is the record of its fields. `BookVerification` runs
them: `Inspect` is `inspect_mbo_verification_context` with `resolve_verification_window`, for
the default window or a requested one (`Requested`, `Allowed`),
`ReadEvent` an iteration of `verify_streams` (`SkipEarlier`, `Compare`), `EndOfFile` and
`Conclude` what follows its loop. The reference file is the vendor's and external
(`Reference`): for every group end nothing, an unfinished record, the state, an older
state, or a state behind one of another key. It is a function from places to records, and
`refs` holds the places that are left of the iterator, `expected` being the first.

### `EventBacktester` and `DailySession`
One step of `EventBacktester` is one event, which drives `run_market_streaming` for each
group (`AloneStep`) and `run_market_streaming_groups` for all of them (`GroupsStep`) side by
side, so that the two can be compared. The place in a list of intents moves over those that
are due from the front (`NewlyDue`): one that is not due yet holds up the ones behind it. A
pass raises when the events run back (`OutOfOrder`). `Simulate` is what `run` computes for an
intent over the whole day: the first event at which it can enter (`CanEnter`, with the
simulated book of all events so far, `SimAfter`) and the trade that follows
(`SimulatedTrade`). `SimApply` is `SimulatedBook.apply`. Prices and times are small integers and
slippage is in ticks; a fill across levels is kept as price times contracts.

`DailySession` extends it with `run_daily_strategy_backtest`: `ScanEvent` is an iteration
of its loop with the methods of `CandidateRuntime` (`ResolvePending`, `OnTrade`,
`MaybeOpen`), `EndOfScan` closes what is open and makes the intents of the gate
(`IntentsOf`), `GateEvent` and `EndOfGate` replay them, on the file in the order of
`stream_normalized_events` (`Normalized`), and `GateFails` is the gate of a file whose times
run back, which the scan does not mind. `dayFile` stays the file as it was read, `tape` is
what the gate replays. The signal a candidate gets is any of a set.
A search of `research.py` runs the same loop. Every candidate's gate is modelled; in
`research.py` only the first one's is run.

### `ResearchJobs`
The rows of `research_jobs`, `experiments` and `strategy_versions`, the registry
`research_tasks`, the threads in `run_research_job` and the requests under way:

| Code | Actions |
| --- | --- |
| create, pause, resume, cancel | `CreateJob`; `AskJob`, `WriteJob`, `ScheduleResumed` |
| `_run_strategy_search_job` | `ReadJob`, `MarkRunning`, `BeginScan`, `SeeControl`, `ReportProgress`, `EndOfScan`, `Select`, `RetireOne`, `SaveChild`, `SaveStrategy`, `FinishJob`; `StopJob`, `CloseRun`, `Raises`, `FailJob`; `RaisesUncaught` |
| `_run_baseline_research_job` | `BaselineLooks`, `ReportProgress`, `BaselineEnds` (see section 4) |
| promote, reject, roll back | `AskStrategy`, `WriteGovernance` |
| `lifespan` | `ServiceStarts`, `ServiceEnds` |

A search ends with any ranking and any trade counts of its gate (`GatePasses`). What lies
inside the `try` of a run may raise and then fails the job (`Guarded`); what lies before it,
between the write of RUNNING and the `try`, and the `except` block itself may raise as well,
and then only the thread ends (`RaisesUncaught`; `lost` is a ghost of such jobs).
`overlapped` is a ghost: two searches have written strategies at the same time.

## 4. What is checked

| Run | Shows |
| --- | --- |
| `authorization` | types, at most one order, retry safety, QUEUED means ordered, the estimate follows the authorization, reservations fit the limits of their estimates, the refinement of `DownloadContract`, and that the submission semaphore is always released |
| `range_limits` | **violation**: a range reserves beyond the configured limits |
| `range_orders` | **violation**: the confirmation of a range orders a failed job again whose order exists |
| `batch` | types, downloads are reserved and ordered, completed means local, only checked books are registered or completed, the estimate follows the download, a completed authorization is final |
| `batch_economy` | **violation**: COMPLETED after the first of two schemas |
| `blind_replay` | types (the cursor within the session), engine and rows agree between requests, planned groups have their trade, the refinement of `RunContract`, every load ends but for a swap that raises, whose session may be loaded again |
| `blind_lock` | **violation**: a candidate jump suspends the lock of an active locked run |
| `range_planner` | one thread per job, every job ends, a review is current unless somebody else has written its days, a confirmation stays within its budget |
| `market_data` | levels are the aggregate of the orders; a passed verification means equal states, a faithful reference passes; groups fare as each alone, and as `run` where no other trade is in the way; the gate's book follows the feed with its fills and invents no volume; candidates' trades could have been made |
| `market_data_fills` | **violation**: a partial fill and its cancel both reduce the order in the gate's book |
| `research_jobs` | promotion rests on enough distinct sessions, one paper strategy as long as searches do not overlap; a RUNNING job comes to rest, unless its thread ended by an exception nobody catches |
| `cloud_ingest` | types, a file is stored at most once per concurrent task, a resumed stream continues at the right byte, no silent leftover, the refinement of `IngestContract`, every run ends |

Bounds. `authorization`: two estimates, one with two schemas and one with a single, possibly
legacy one; one amount (2) against limits 2/2/3/3, so that each limit is the one that
refuses in some state; three days of which two make a week and three a month, so windows of
all lengths begin and end; any execution mode at each of any number of restarts. Two
estimates are enough for a race for the budget and for the semaphore, two jobs for a partial
submission. `range_limits` has two days of a range with budgets of 2 and 4, which is below
and above what two estimates cost, in `dry_run`, where nothing is submitted: the budgets do
not depend on the submission. `range_orders` has one estimate, `live`, and up to two orders
of its job. `batch`: one estimate with two
jobs, two downloads, each asked again and again for one job (all pairs of jobs are checked;
the downloads are symmetric), one refresh at a time. `cloud_ingest`: two tasks, a file of
three blocks in parts of two and one of a single block, one retry, possibly an object in the
way of the second: a resume from the middle, a rest, a full part and a conflict all occur.
Two downloads of one job are what the shared paths need, two jobs what the shared
authorization needs. No run stops early: the state spaces are finite and explored completely
(about 0.7, 1.1 and 0.3 million states). `blind_replay` (2.5 million states): one client,
two sessions (a complete one of two groups, whose second has a trade and a decision, and a
partial one with a decision at its start), a locked plan with both and a practice plan with
the first, two runs, one trade and frames of two groups (single steps come from
`step_trade`): a run can replace a run, a session change can end one, and a decision can be
due before and after a load. One client stands for one user whose
requests follow each other; the replay loop, failed loads and crashes fall between any two
steps. With two clients `RunsAgree`, `KeepsContract` and `PlannedHasTrade` do not hold: a
run started between the SELECT and the writes of another request is left ACTIVE, or the
engine is configured for a run that has just been exited.

`range_planner` (0.54 million states): a range of two days, a job of one day on the second
of them, a third day estimated before; two job rows and three calls, so that a retry meets
the end of a cancelled run, a crash a run half-way, and another authorization a confirmation
between its read and its transaction. `market_data` (0.94 million states) has three kinds of
initial states. A feed of 58 events (ids, prices and sizes of two, partial and full cancels,
modifies that change side, price or size, snapshot and TOB flags, clears, duplicates in a
window of one, an unknown id, another instrument) up to the first warning; the book's state
space is complete. Files of a snapshot, a natural event and two more events with each choice
of reference per group, and the default window or one of two requested ones, of which one is
refused. And days of a snapshot and four events at most a moment apart (the last one may
come after the end of the day), two candidates with every signal, and three intents of other
sources, one of them short-lived and all close enough to wait for each other; also files
whose trades of one moment are out of sequence, and files whose times run back, which the
gate refuses. `research_jobs` (2.3 million states): two jobs and three calls, two sessions
that count, one of them locked and both needed, and one that does not qualify; a session
searched twice (a failed search resumed), a second search that ranks the first one's
strategy, a baseline, and a crash between any two writes occur.

The properties of the gate's book are about feeds whose events, fills aside, both books take
alike (`PlainEvent`): without duplicates, other instruments and top-of-book records, and
without orders added or modified in a way the rebuilt book drops. Fills are the one
difference that every day has, and they are in: `SimulatedBookAgrees` says that the gate's
book is what the rebuilt one would be if fills were taken off its orders as well,
`NoVolumeInvented` that it never shows more than the rebuilt one, and `VolumeIsReducedOnce`,
which the documentation asks for, is violated. The runs `market_data`, `range_planner` and
`research_jobs` may stop: their files end, and
calls are bounded.

Fairness. `authorization`: the submission tasks run on. The event loop gives each
task its turn and the client's calls return because they have a timeout, so `Claim` and
every `SubmitStep` are weakly fair. Nothing is assumed about users, requests, Databento's
answers or failures, nor about restarts: a crash ends all tasks, and the semaphore with
them. `cloud_ingest`: a task runs on, since every call to S3 and Databento returns or
times out; nothing is assumed about what it returns. The loop ends because progress,
which resets the retry count, is bounded by the file. `blind_replay`: a request's next
step is weakly fair, since it runs in a thread of its own, every lock is released and a
file is read or fails; nothing is assumed about users, the replay loop, crashes or
restarts (a crash ends the load, too). `range_planner` and `research_jobs`: a thread of the
pool goes on (weakly fair per job); calls, clocks, crashes and starts are not fair, and the
two properties ask only for behaviours in which the service is up from some moment on.

The five violations are disagreements met while modelling:

1. The authorization's state is shared by its jobs and COMPLETED has no successor, so
   the second schema of an Orderflow Economy purchase cannot be downloaded (`batch_economy`).
2. `jump_to_candidate` gives the engine the mode of the candidate's plan and the id of
   whatever run is active: with a candidate of a practice plan, into which a locked
   session was cloned, the running locked replay becomes one that may look ahead
   (`blind_lock`).
3. A range takes its budget for the daily, weekly and monthly limits (`range_planner.py:184-186`)
   and its confirmation looks at nothing else (404-409), so that more is reserved than the
   limits `docs/DATABENTO_COST_SAFETY.md:9` names (`range_limits`).
4. The confirmation of a range schedules the authorizations its days have already. One that
   failed because the reply to its order was lost, which the retry refuses, is ordered again
   (`range_orders`).
5. The book of the gate is reduced by a fill and once more by the cancel that reports it
   (`market_data_fills`).

With range requests the properties of single days that remain are `TypeOK` and
`ReservationsWithinOwnLimits`, both proved of the composition (section 5). TLC finds the
others violated in it: `AtMostOneOrder`, `RetrySafeMeansNoOrder`, `QueuedMeansOrdered` and the
refinement of `DownloadContract` because a range submits again what has failed (4), and
`EstimateFollowsAuthorization` because a range run resets the status. They are stated,
and proved, of a service that gets single-day requests only, and so is `BatchDownload`.

Met in the modules without a violating run; the models contain the code's behaviour, and
the properties say under which condition they hold:

- `mark_queue_failed` (`authorization.py:465`) asks nothing about the state it overwrites: a
  cancellation between the commit of an authorization and the failure of its scheduling
  becomes FAILED, and retry-safe without a reservation, although
  `docs/data-planner-authorization-repair.md:29-30` calls CANCELLED a terminal path.
- Cancelling the failed job of a partly ordered authorization releases its whole reservation
  (`authorization.py:654`), so that the orders of a day may exceed the daily limit, which
  `docs/DATABENTO_COST_SAFETY.md:9` requires to pass. `ReservationsWithinOwnLimits` is about
  what is reserved.
- The check for a retained `.part` (`planner.py:622`) and its replacement (641) are far apart,
  and a poll makes a job that is being downloaded look ready again: a second download's
  `.part` is overwritten, which `docs/TROUBLESHOOTING.md:44` rules out. `BooksAreChecked` says
  what is left of it.
- `_update_child_estimate` writes back the status it has read, does not know the statuses
  SUBMITTED, FAILED, CANCELLED and EXPIRED, and looks for no authorization: the estimate of an
  authorization that has failed is set to AWAITING_CONFIRMATION, although
  `docs/data-planner-authorization-repair.md:27` says that its lifecycle is preserved.
- The swap at the end of a load is outside its `try`. If it raises (it reads settings from the
  database), the new session is in place, not at its prime group, and stays marked as loading
  (`SwapFails`), against the comment at `replay.py:70-71` ("swap it atomically under the lock"):
  play and other sessions are refused until it is loaded again (`LoadEnds`).
- A re-estimate of one day between review and confirmation changes what is reserved for
  it, without notice (`disturbed` in `QuotesAreCurrent`); `_update_child_estimate` writes
  back what it read before.
- A duplicate event that carries the end of a group is not reported as an end, so its
  group is not compared (`Completes`).
- `_run_baseline_research_job` uses names that are not defined (`research.py:764`):
  every baseline that is not interrupted ends as FAILED (`BaselineEnds`).
- A pause or cancellation written between the last look of a search and its next blind
  write is lost; a resumption while the old task is on its way out schedules nothing, and
  the job stays QUEUED until the next start (`RunningComesToRest` asks for no more).
- An exception between the write of RUNNING (`research.py:332`, 620) and the `try` (354, 636),
  for instance from a malformed context file (342), only ends the thread
  (`service.py:130-134`): the row stays RUNNING until the next start, which runs it again
  (`lost` in `RunningComesToRest`).
- Two searches that write at the same time may lose evidence and leave two PAPER_ACTIVE
  strategies (`overlapped`), and a search writes over a REJECTED or ACTIVE status.

Met and recorded as hazards without a run: an authorization left SUBMITTING by a crash
stays so; two legacy rows of one estimate stop each reconciliation; a poll resets rows
of completed jobs; a crash after the manifest and before the import leaves a job whose
reuse is refused because its authorization is DOWNLOADING or IMPORTING.

## 5. What is proved

`DownloadProofs` proves for every set of estimates and jobs, all limits,
modes and legacy rows (assumptions: each job has an estimate, legacy jobs are jobs,
amounts and limits are natural numbers, modes are modes; the two about `RangeSpec` assume
natural range budgets in their statement):

| Theorem | Statement |
| --- | --- |
| `TypeCorrect` | `Spec => []TypeOK` |
| `InductiveInvariant` | `Spec => []IInv` |
| `NoSecondOrder` | `Spec => []AtMostOneOrder` |
| `RetryIsSafe` | `Spec => []RetrySafeMeansNoOrder` |
| `QueuedIsOrdered` | `Spec => []QueuedMeansOrdered` |
| `EstimateIsFaithful` | `Spec => []EstimateFollowsAuthorization` |
| `BudgetsHold` | `Spec => []ReservationsWithinOwnLimits` |
| `RangeTypeCorrect` | `RangeSpec => []RangeTypeOK` |
| `RangeBudgetsHold` | `RangeSpec => []ReservationsWithinOwnLimits` |
| `Implements` | `Spec => KeepsContract`, the refinement of `DownloadContract` |

None of the safety properties is inductive. That nothing is ordered twice depends on
(`PendingInv`) a fresh authorization having sent nothing and being scheduled by exactly
one request, on (`SubmissionInv`) nobody else touching an authorization while it is
submitted and the task's list of remaining jobs holding exactly what has not been
ordered, on (`OneSubmitter`) the semaphore, and on (`RowInv`) legacy rows never being
unordered rows of a new authorization. `IInv` is their conjunction with the types;
`SafeStep` goes through the actions one by one.

The budgets need more than the limit check, because a reservation made on one day counts
in the windows of others, each estimate has limits of its own, and legacy rows and ranges bring
reservations nobody checked.
`BudgetInv` therefore speaks of every day, all three windows (`DaysOfWindow` shows that
a window is the same whichever of its days one asks for) and every subset of what
`authorize_download` has reserved, so that a cancellation leaves no remainder without a limit
that covers it; and `LedgerInv` keeps what is
reserved finite, so that it can be summed: only rows of the old service have a remote id
without being linked (`LinkInv`), and those are assumed to be finitely many. The check at
an authorization then bounds the one window that grows by the limits of the newest estimate; the
others lose or keep what they hold. Range requests reserve without the check and rewrite limits,
but not those an authorization was checked against (`grant`), so the same invariant serves
`RangeSpec` (`RangeBudgetStep`).

`SumLemmas` is what these and the other budget proofs know of sums. The models sum with the
folds of the community modules, which are defined by recursion over the subsets of a set.
`SumTakes` (whichever element is taken first, the sum is the same), `SumAdds`, `SumSplits`
and `SumMatched` (a sum whose elements each find a larger summand of their own is no larger)
are proved by least counterexample, a smallest set for which the claim fails, since
the library's induction theorems cannot be used here.

`DownloadProofs` goes on with `BatchDownload`, for every set of jobs, estimates and
concurrent downloads (further assumptions: the book jobs are jobs, and some estimate is
offered):

| Theorem | Statement |
| --- | --- |
| `BatchInvariant` | `BatchSpec => []BatchInv` |
| `BatchTypeCorrect` | `BatchSpec => []BatchTypeOK` |
| `NothingUnpaidIsDownloaded` | `BatchSpec => []DownloadsAreReserved` |
| `CompletedIsOnDisk` | `BatchSpec => []CompletedIsLocal` |
| `EstimateShowsDownload` | `BatchSpec => []EstimateFollowsDownload` |
| `CompletedStays` | `BatchSpec => CompletedIsFinal`, an action property |
| `BooksStayChecked` | `BatchSpec => []BooksAreChecked` |

`BatchInv` carries `Safe` of `DownloadAuthorization` along (every step of the authorization
is one of `Next`, and what the download adds keeps it), and ties three kinds of memory
together: what a refresh has listed (`RowsInv`: whoever is listed has a remote id, and
COMPLETED is only listed of what is on disk, which a stale refresh may write back later),
what was bought (`BoughtInv`) and how far a thread is in its download (`DownloadInv`: past a
step, its traces are there). `BooksInv` adds, per job, which threads can still swap an
unchecked file under a checked session (`FilesOf`) and which validations are out of date
(`ValidatedOf`). With three downloads of one authorization (`Crowded`) the code's two
checks can be passed by different files, so `BooksAreChecked` excludes that case, as the
run does; it cannot be dropped.

`CloudIngestProofs` proves for every set of tasks, number and sizes of files, part size,
number of retries and objects in the way (assumptions: sizes and the part size are
positive, retries natural, the keys are files):

| Theorem | Statement |
| --- | --- |
| `TypeCorrect` | `Spec => []TypeOK`, with the stream never beyond the file |
| `InductiveInvariant` | `Spec => []IInv` |
| `StreamsAreAligned` | `Spec => []StreamIsAligned` |
| `LeavesNothingOpen` | `Spec => []NoSilentLeftover` |
| `Implements` | `Spec => KeepsContract`, the refinement of `IngestContract` |
| `StoredOncePerTask` | `Spec => []NotStoredAgain`, for finitely many tasks |

The refinement rests on `StoredSoFar` (each file a task has passed is stored, and only
checked bytes are completed), alignment on `FreshBuffers` (a connection is made with an
empty buffer), the absence of leftovers on `OpenWhileUploading`. How often a file is stored
is bounded by `StoresLeft`: a task sets about storing a file (`AboutToStore`) only while it
is absent, when nothing was stored yet, and storing takes it out of that set again; so what
has been stored and what may still follow never exceed the number of tasks.

`BlindReplayProofs` proves for all sessions, plans, modes, runs and trades (assumptions:
sizes are positive, prime groups and decisions lie in the session, end times ascend):

| Theorem | Statement |
| --- | --- |
| `TypeCorrect` | `Spec => []TypeOK`, for any number of clients |
| `InductiveInvariant` | `Spec => [](TypeInv /\ Agreement(me))`, for `Clients = {me}` |
| `EngineAndRowsAgree` | `Spec => []RunsAgree`, for `Clients = {me}` |
| `Implements` | `Spec => KeepsContract`, for `Clients = {me}` |
| `PlansHaveTrades` | `Spec => []PlannedHasTrade`, for `Clients = {me}` |

`TypeInv` adds to the types what each step of a request has in hand (a session when it
loads, a run when it exits). `Agreement` says that a row is ACTIVE exactly when
`application_state` names it, that what the request has selected is still so when it
writes (`StillKnows`), and that the engine follows the rows except between the two calls
that move them (`EngineFollows`). `StillKnows` is what a second client breaks, so the
restriction to one is needed. For `PlannedHasTrade`, `Planning` says that between a trade
and its plan the request still holds the plan and session the engine shows, and that there
is one trade more than there are plans; whatever loads or configures the engine forgets its
plans, so the count starts again. `EngineAssumption` and `ProtocolAssumption` are evaluated by
TLC in each run of `MCBlindReplay`.

`RangePlannerProofs` proves for all requests, ranges, days, budgets and bounds (the bound
on jobs included; assumptions: ranges are requests, a request lists at least one day and
none twice, quotations are positive):

| Theorem | Statement |
| --- | --- |
| `OneRunPerJob` | `RangeSpec => []AtMostOneRun` |
| `ReviewsAreCurrent` | `RangeSpec => []QuotesAreCurrent` |
| `ConfirmationsFitBudget` | `RangeSpec => RangeWithinBudget`, an action property |

`RunsInv` makes the first inductive: the registry names exactly the jobs with a thread. For
the second, `Undisturbed` says of a range that nobody disturbs what a review in the making
rests on: one thread computes it, it has no review meanwhile, and the days the thread has
quoted so far precede the one it is at and are quoted at what their rows hold. That a
thread estimates no day it has quoted needs the days of a request to differ; that no other
thread of the same job does so needs `RunsInv`. `Keep` covers the steps that quote nothing
new; `Begin`, `UpdateChild` and `FinishRange` have a lemma each.

`RangeWithinBudget` compares two sums, the reservations after a confirmation and the
quotes of its review. `PriceInv` says that the quotes of every thread, plan and
confirmation are finitely many natural amounts, nothing for what is there already, and that
what a plan that may be confirmed asks for is their sum. Each day that
the confirmation reserves is then matched by a quote of its own (`SumMatched`). It assumes
finitely many days, which calendar dates within an entitlement are.

`ResearchJobsProofs` proves for all sessions, strategies, rankings, jobs and thresholds
(assumptions: thresholds are natural numbers, the independent and the locked sessions are
sessions):

| Theorem | Statement |
| --- | --- |
| `ResearchInvariant` | `Spec => []ResearchInv` |
| `PromotionIsEarned` | `Spec => []PromotedOnEvidence` |
| `OneStrategyOnPaper` | `Spec => []OnePaperActive` |

A search reads all strategies, then writes them one by one, so what is true of the rows has
to be true of what every thread has read and may write back: `EvidenceInv` says that any
evidence, in a row or in hand, is proven by finished searches of its sessions, each named
once. Evidence is counted by its places, and `PlacesCount` turns places into distinct
sessions. `PaperInv`, under the proviso that no two searches have written at a time, says
that the one that writes knows every strategy on paper; that is what makes retiring
all but the new one complete.

`MarketDataProofs` proves for all events, orders, prices, channels, window sizes, files,
groups and intents (assumptions: events are well formed, prices are natural numbers, the
channels of a day's file are numbers, a comparison looks at one level at least):

| Theorem | Statement |
| --- | --- |
| `LevelsAreAggregates` | `BookSpec => []LevelsAggregateOrders` |
| `GroupsFareAlone` | `SessionSpec => []GroupsRunAlone` |
| `ReferencesAreCounted` | `VerifySpec => []EveryReferenceCounted` |
| `PassedVerifications` | `VerifySpec => []PassedMeansEqual`, if every file is `OneFeed` |
| `FaithfulReferencesPass` | `VerifySpec => []FaithfulReferencePasses` |
| `SimulatedBooksAgree` | `SessionSpec => []SimulatedBookAgrees` |
| `NoVolumeIsInvented` | `SessionSpec => []NoVolumeInvented` |

For the book, `Sound` adds to the property that the orders are finitely many and each has a
side, a defined price and a positive size. Positive sizes are what makes the incremental
levels right: a level is dropped when its total or its count is zero, and only with them do
the two agree. Each method has a lemma that relates the levels of the orders before and
after (`PutOwnLevel`, `DropOwnLevel`, `ResizeOwnLevel`, and `Elsewhere` for all other
levels). `_clear_side` is a fold over the ids of a side; it is sound at every subset of
them, again by least counterexample. For the backtester, `GroupsInv` says that both passes
hold the same runs and, while the gate runs, that a group that is not looked at is in a
position or has nothing waiting (`Watched`): nobody is forgotten.

The verification compares with the book behind the first events of a file, `BookAfter`, a
recursive function; `BookStep` says by least counterexample that it takes one event at a
time, so that `BookInv` (the book is `BookAfter` of the position) is inductive. On it rest
three invariants:

- `CountInv`: what is skipped, compared and left adds up. `CompareParts` says which states
  one comparison skips and consumes.
- `PassInv`, for a pass: while nothing is unmatched and nothing differs, each state consumed
  since the first comparison belongs to a group that was read (`Found`: by key and top;
  `EqualTops` says that what `compare_states` compares is the whole top). The states counted
  as before the comparison come before every group read, because keys only run back with a
  warning of the book (`InOrder`). This needs that a file is the feed of one instrument on
  one channel, in which events of one number are in order of time and only groups of a
  snapshot are flagged as such: `OneFeed`, which TLC evaluates for the files of its run.
  A verified download has one instrument (`resolve_verification_window` refuses any other),
  but the code checks neither channel nor times.
- `FaithInv`, for no false alarm: the states that are left are those of the groups to come
  (`Abreast`). The premise, `FaithfulReference`, asks for the order of the states by key and
  for groups whose times do not run back, because the proof fails without either: a state
  out of order, or a group of the window behind one past its end, fails the verification
  although nothing in the reference is wrong. It does not ask that every change of the top
  is delivered.

That a book's sequence numbers and warnings never fall is proved through each of its
methods (`Keeps`, `Grows`).

For the two books of a session, `Mirror` is the simulated book of a set of orders: the same
orders with the totals of their levels. `SimInv` says that the simulated book is the `Mirror` of
the orders of a rebuilt book that also takes fills off (`FilledBook`), `PartInv` that it is the
`Mirror` of orders that are part of those of the rebuilt book as it is: none is there that the
rebuilt book has not, at the same price and side, and none holds more (`PartOf`). Agreement of
the levels alone is not inductive, because a cancel or a modify takes from a level what its
order holds. `EventMirrors` says for each kind of event that the mirror of the orders becomes the
mirror of `OrdersAfter`, `PlainOrders` and `FilledOrders` that the rebuilt books hold these
orders after the event, and `WithinStep` that orders which are part of others stay so, since a
fill or a cancel takes off both or off the smaller; `WithinLevels` turns this into the levels.
The proof showed `PlainEvent` to be needed: that the rebuilt book has no warning is not enough,
since before the snapshot is complete it drops
events silently. The gate reads the file in another order than the scan;
`NormalizedIsFile` shows that this order is a permutation of the file, because the places of
its events are an injection of a finite set into itself.

`SessionProofs` extends it with what takes a whole day to say, for all files, strategies,
signals, groups, latencies and slippage (further assumptions: levels, time stop and minimum
liquidity are integers, cooldown and validity natural numbers, the times of a file numbers):

| Theorem | Statement |
| --- | --- |
| `TradesCanBeMade` | `SessionSpec => []TradesAreExecutable` |
| `PassAgreesWithRun` | `SessionSpec => []StreamingAgreesWithRun` |

`DayInv` is the invariant of the first, stage by stage. While the file is read,
`CandidateOk` says of a candidate behind n events that all its trades were filled at a quote
of the book behind some event, that no print since the entry was a reason to leave its
position, that it has at most one of a position and a pending decision, and that a decision
comes no sooner than exit and cooldown of the last trade. While the gate runs, `RunOk` says
that ids ascend from the trades over the position and what waits to what is not yet due, and
that each trade is over before the next one begins. The first touch needs a file whose times
do not run back; the code does not ask for that in the scan. It is the gate that establishes
it: it raises at a time that runs back, so whoever reaches the end has seen the tape in order,
and a tape in order comes from a file in order (`FileOfTapeInOrder`; `TimesInOrder` is
therefore a premise inside the invariant, not an assumption on the files). A candidate whose
session fails there is judged by nothing.

`RunsInv` adds for the second how every intent fares (`Fares`), with the simulated book as the
recursive function `SimAfter` of the place on the tape:

- `TradesFrom` and `ActiveFrom`: each trade and the position are those `run` has for an
  intent from an event on at which it can enter (`HeldSince`).
- `Kept`: each intent is in the list, waits, has expired, or has entered. Nobody is lost.
- `Served`: an intent that could enter at some event has entered by then, or another trade was
  open at it. That is where the pass may differ from `run`, and the only place.

`Served` needs that what is in the list is not due yet. As only the front of the list is looked
at, this holds because decisions ascend (`QueueOk`, `DecisionsAscend`), which in turn is so
because a candidate decides again only after the exit and the cooldown of its last trade: the
first theorem's invariant is needed for the second. `FaresMeans` draws the property from it when
nothing is open any more. By `GroupsFareAlone` the same holds for the pass over all groups,
the one the program runs.

Only model-checked: liveness under fairness (`SemaphoreIsReleased`, `EveryRunEnds`, `LoadEnds`,
`JobEnds`, `RunningComesToRest`), which the prover does not support. Every other property of
the passing runs is stated by a theorem above; `EveryReferenceCounted`
and the two theorems about `RangeSpec` are proved and have no passing run of their own. Intents that come from elsewhere than a session
(`OtherIntents`) are outside `SessionSpec`, so that their passes are model-checked only.

## 6. Not modelled

`PROJECT.json` names each part that is left out. Control worth modelling remains in the
session assignments and splits, the closing of trades, the signal engine, the campaign and
the S3 archive. Features, context and microstructure are floating-point functions of their
input; the connector's command-line tools, the journal, the providers and the client hold
no state that two actors change.
