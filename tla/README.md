# SEO OS: a TLA+ development

SEO OS is a Next.js application (`apps/web`), a worker process (`apps/worker`)
and a set of packages. Users and cron schedules ask for work; the web process
writes a durable row for it in Postgres and pushes a job to BullMQ in Redis;
the worker takes jobs and runs processors that crawl, analyse, write content
and change the customer's live site. The modules here model the parts of that
system where several processes, a broker and a database can disagree.

## Inventory

| Component | State it keeps | Operations | What is hard | What makes it correct |
|---|---|---|---|---|
| job queue (`packages/queue`: queue.ts, status.ts, worker-runtime.ts) | `JobRecord` rows, BullMQ jobs | enqueue, cancelJob, retryJob, cleanupOldJobs, runJob | web and worker interleave on one row between reads and writes; add may time out and land late; crash, stall, lock loss; dedupe keys reuse rows | a row for every job, the row tells the truth, a cancelled job does not run |
| schedules (scheduler.ts, the settings, automations and websites routes) | `WebsiteSettings` cron columns, `ScheduledJob` rows, Redis job schedulers | syncSchedules, setScheduleEnabled, create/update/deleteSchedule, runScheduleNow | three copies of one fact; sync works from a snapshot and may overlap itself and the UI; a Redis command may land after its caller gave up | once the edits stop, the three copies agree |
| cron (cron.ts) | none | parse, match, next run | calendar and DST edges | next run is the least matching instant |
| job context (`createJobContext`) | throttle timer, pending progress, cancel cache | updateProgress, flushProgress, isCancelled | un-awaited writes overtake each other | a cancellation is seen |
| actions (processors/actions.ts, `api/actions`, `api/approvals`) | `SeoAction`, `Approval`, `ActionExecution`, `ChangeLog`, `Experiment` rows | approve, reject, decide, bulk-approve, execute, rollback, measure | six writers of one status, decisions read before and used after awaits, crash between apply and record | nothing unapproved is applied; applied once; a terminal action stays terminal |
| crawl engine (`packages/crawler`) | frontier, skips, tasks in flight, probes | crawlWebsite | the limit under concurrency; one URL met by several ways; abort at any moment | nothing dropped or filed twice, limits kept, "complete" means complete, it ends |
| crawl lane (processors/crawl.ts, web `server/crawls.ts`) | `Crawl`, `CrawlPage`, `Page` rows | startCrawl, cancelCrawl, crawl.site, crawl.cancel | racing requests, cancel against finish, overlapping runs, a second attempt on the first one's rows, lost pushes and batches, a site archived meanwhile | one winner per race; only missing pages deactivated; a crawl ends and is audited |
| analysis (processors/analysis.ts, issue routes) | `TechnicalIssue`, scores | technical audit, page audit, analysis.full, triage, site scores | statuses read once and written in chunks; partial audits; one score job at a time | OPEN, RESOLVED, REGRESSED follow what was seen |
| content (processors/content.ts, content-writer-agent.ts, `api/content/drafts`) | `ContentDraft`, `ContentStageRun`, `ContentVersion`, `Approval` rows, the actions a publication files | run a stage, edit, approve, publish, retry; the stages' agent | job and agent both move the draft, each from what it read minutes ago; a stage enqueues the next; crash between two writes | nothing is approved unseen; a flag found is heeded; no stage repeated for nothing; an approved draft can be published |
| AI client (`packages/ai`) | `AiUsage` | resolveModel, generate, stream, embed, structured repair, budget | check-then-spend by concurrent calls, nested retries | bounded overshoot; the right provider; calls end |
| integrations (`packages/integrations`) | OAuth tokens, adapters | refresh, apply change | two refreshes at once; multi-step apply fails half-way | token usable; a change is all or reported |
| agents (`packages/agents`) | `AgentRun`, memory | run, act | crash mid-run, loops of tool calls | runs end; actions created once |
| shared (`concurrency.ts`) | limiter queue | createLimiter, RateLimiter, retry | slot accounting under errors | at most n at a time, all are served |
| keywords, sync, maintenance processors | search data | batch upserts, pruning, notifications | partial batches | idempotent |
| seo-engine, web UI, scripts | none of their own | scoring, pages | - | left to unit tests |

Interactions: web routes and worker processors call `enqueue`; the worker's
processors chain further jobs; the scheduler registers repeatables that BullMQ
turns into jobs without a row; cancellation is a row status that workers poll.
A finished crawl enqueues its audit, an audit the site's scores; agents, content
and analysis call the AI client, whose budget is a sum over a table every
process writes.

What composes what: `CrawlEngine` is one run of the step `crawl` of
`CrawlLifecycle`, whose audits are the crawls that `Issues` audits; `AiClient`
routes its calls by `AiRouting`; the slots of `CrawlEngine` implement
`Semaphore`; a publication of `ContentPipeline` goes past the approvals of
`ActionLifecycle`, asks its own row instead and files actions of its own. JobQueue gives the guarantees and the gaps (a lost push, a lost
attempt, a job id in flight) that the other modules use as their fault model.

## Modules

### JobQueue.tla (core)

One lane of the queue. The correspondence of state:

| variable | code |
|---|---|
| `row` | the `JobRecord` table: `jobId` (unique) and `status`; a row not yet created is "unborn", a deleted one "pruned" |
| `broker` | BullMQ's jobs by id: state, the envelope's `jobRecordId`, the lock owner, `attemptsMade`, `attemptsStarted`, the stalled counter |
| `late` | `queue.add` commands whose `withTimeout` expired and that may still land from ioredis' offline buffer |
| `client` | where a process is inside enqueue, cancelJob or cleanupOldJobs, with the values it read |
| `worker` | where a worker slot is inside runJob, with the values it read |
| `fresh` | random job ids not generated yet (`randomToken`) |
| `told`, `barred` | history: what enqueue answered for a row; which jobs were cancelled while no worker held them |
| `budget` | how many more calls, faults and crashes the run allows |

Each action is one database statement or broker command with the code around
it, so every read-then-write of the source is two actions: `MarkRunning` reads
and `WriteRunning` writes, `Finish` reads and `WriteEnd` writes, `Cleanup`
finds and `DeleteBatch` deletes, `EnqueueKeyed` reads and `ResetRow` or
`CreateRow` writes. `SafeWrite` is `safeWrite`: it may silently fail. BullMQ
is external and modelled from how the code uses it: adding an existing id is a
no-op, an active job cannot be removed, the retry decision is by
`attemptsMade`, a stalled job is re-queued `MaxStalled` times and then failed
inside Redis, an answer without the lock is rejected.

Abstracted: payloads, messages, timestamps, priorities and back-off delays
(a delayed retry is simply queued); `DELAYED`, which no caller produces;
`ensureJobRecord`'s three look-ups are one step, because a row that appears
between them is found by the unique job id and is then the answer all the same;
the age of a row in `Cleanup`, where any set of finished rows may be old. A
timed-out *remove* is lost rather than late: it precedes the add on the same
connection.

### ActionLifecycle.tla

One `SeoAction`, from the proposal to the customer's live site.

| variable | code |
|---|---|
| `action` | the `SeoAction` row: `status`, and whether `approvedAt` is set |
| `approval` | the status of each `Approval` row that names the action; "unborn" before it is created |
| `permitted` | whether the site's `autonomyLevel` and `autoApproveSafe` permit the type; with the constant `AlwaysAsk` it gives `canAutoExecute` |
| `job` | the `actions.execute` jobs: one under the dedupe key, others made by `retryJob`; payload (`approvalId`, `dryRun`), the slot that holds the lock, whether the one stall is used up |
| `client` | where a request of the web process is inside approve, reject, decide, bulk approve or execute, with what it read |
| `runner` | where a worker slot is inside `actionsExecute` and `applyChange`, with what it read: the guard, the approver, the status |
| `site` | the live website: has it the change, and how often was it written |
| `trail` | whether `ChangeLog` and `Experiment` exist, and the keys of the `rollbackData` snapshots |
| `consent`, `declined`, `broken` | history: requests a human ever approved; a rejection that stands; a run failed half-way since EXECUTING was last written |
| `budget` | how many more calls, faults and stalls the run allows |

The routes are two or three actions each: what they read (`ReadTo...`), the
transaction (`Approve`, `Reject`, `Decline`, `Consent`), and the enqueue and the
status written after it (`Enqueue`, `MarkQueued`). `Consent` and what follows
serves decide (one request) and bulk approve (a batch). The worker's run is one
action per statement, in the order of the source. The mutable rows of other
types (a page, an integration) only decide between outcomes of `Inspect` and
`Write` and are a choice there.

`Breaks` is a database statement of a run that throws, before or after the action is
marked EXECUTING or while a refusal is written: the job has one attempt, so it ends, and
what the run had written of the action by then stays.

The queue is kept down to what the routes and the run can tell apart: a job is
queued, running, done, or "lost" (in flight in Postgres and not in Redis, after
a failed push or a second stall), `attempts` is 1, and a stalled job runs once
more. A slot that only lost its lock goes on beside its successor.

Abstracted: the payload and the diff (the page either has the change or not);
`CanRead` says that the page is read and compared before it is written, which
redirects, structured data and write-only adapters do not do; which
`ActionExecution` row holds a snapshot, since all look alike; notes, users and
warnings. The approval gate in `applyChange` is there, and never the first to
refuse, because its types are the ones that always ask and an APPROVED row
always has its user.

Not in it: `actions.measure`, which no code enqueues, so that MEASURING and
EVALUATED are never written; ROLLED_BACK, which is written only by a rollback
that never gets that far (violation 8 of the actions, below); CANCELLED, which nothing writes;
the schema-deploy route, which makes and drives an action of its own; `content.publish`,
which is in ContentPipeline; cancelling the job.

### CrawlEngine.tla, Semaphore.tla

One run of `crawlWebsite`. The process is single-threaded: `pc` says which
synchronous stretch is being executed, and a fetch settles only while the loop
is parked in `Promise.race` ("race") or `Promise.allSettled` ("settle").

| variable | code |
|---|---|
| `config` | concurrency, page and depth limits, whether assets and links are probed |
| `pc`, `back`, `offers` | the stretch, where a page's links return to, URLs of the stretch not yet given to `enqueue` |
| `seen`, `frontier`, `inFlight`, `started`, `woken` | the frontier and `inFlight`; what was started; whether a race was won |
| `rows`, `edges` | `pages` and the link graph |
| `skips`, `recorded`, `skippedCount` | `skipKeys`, `skipRecords`, the counter; a skip may be retracted when a URL is accepted after all |
| `assets`, `externals` | the targets of the probes |
| `waiting`, `running`, `answers`, `assetRows`, `checks` | the limiter of `mapWithConcurrency` and what its probes leave |
| `aborted`, `cancelled`, `limitReached` | the signal and the flags of the outcome |

`Enqueue` is the closure of that name with its filters in the order of the
source (`Verdict`), `TakeOffer` offers one URL, `StartTask`/`Park`/`Wake` the
loop, `Fetch` the task (page, redirect, failure, aborted), `DrainOne` the
leftovers, `ProbeAssets`, `ProbeExternals` and `ProbeSettles` the probes,
`Abort` the signal at any moment. Links of one page are offered in any order,
where the code goes through them as they stand: a superset. What a fetch,
robots.txt, a sitemap or the parser answers is a choice from the constants.

`Semaphore` is the abstract specification: at most `permits` users hold a slot,
nobody waits beside a free one, whoever waits is served. The instance `Limiter`
maps the tasks in flight and the running probes to the holders and the
limiter's queue to the waiting; `LimiterIsSemaphore` and `LimiterServes` say that
the engine implements it.

### Schedules.tla

| variable | code |
|---|---|
| `site` | `Website.status` and the cron column of `WebsiteSettings` |
| `row` | the `ScheduledJob` row |
| `redis` | the repeatable registered under each row's id |
| `sync` | where each pass of `syncSchedules` is, with the websites and rows it read |
| `client` | where each request is, with what it read |
| `created`, `edits`, `faults` | bounds |
| `late` | Redis commands whose callers gave up, and that may yet land |
| `touched` | history: passes that were disturbed |

A pass reads the websites, then the rows, reconciles each site
(`ensureDefaultSchedules`), registers what should fire, lists what Redis has and
removes the rest; a request saves the settings or the status, toggles, retimes
or deletes a schedule, and mirrors it into the settings. The passes are those
of the worker's interval, which does not wait for the last one, and those that
the routes start. A fault is a broker command or a mirrored write that fails
and is only logged; a request may die at any await. A command behind `withTimeout`
(`Project`) that was given up on is lost, or stays in the connection's offline queue and
lands at any later time over what is registered by then (`LandLate`); that commands of
one connection keep their order is left out, which allows more.

### Issues.tla

| variable | code |
|---|---|
| `live`, `stored` | what is wrong with the site; what the last completed crawl found, and on which pages |
| `issue` | `TechnicalIssue.status` by fingerprint (rule and page) |
| `audit` | where each audit is, with the crawl it loaded, its drafts and the statuses it read |
| `job`, `score` | the `analysis.site-scores` job ("lost" is a QUEUED row without a job, which holds the key), and the open issues the stored score was computed from |
| `scale`, `events` | the size of the behaviour |
| `touched` | history: audits during which somebody else wrote an issue |

`ReadIssues` is the single read of `reconcileIssues`, `CreateChunk`,
`UpdateChunk`, `ResolveChunk` its chunked writes; `Crawl` is a crawl with the
audit it chains, `StartFull` `analysis.full`, `StartPage` the re-audit of one
page; `Finish` enqueues the scores, where the push may fail, and `PushLands` is one that was
only late; `Retry` and `GiveUp` an attempt that failed between two chunks; `Triage`
the status routes.

### CrawlLifecycle.tla

| variable | code |
|---|---|
| `crawl`, `stored`, `page` | `Crawl.status`, the `CrawlPage` rows with `crawledAt`, the `Page` rows' `lastCrawledAt` and `isActive` |
| `job` | the crawl.site job: its record's status ("unpushed" is QUEUED without a job, "skipped" COMPLETED without a run), whether it names a crawl row, attempts begun |
| `audit` | the technical audit of each crawl: enqueued, or its row without a job |
| `archived` | whether the site is archived |
| `req`, `cancel`, `run` | where each startCrawl, the cancellation and each run of `crawlSite` is |
| `clock`, `ids`, `online`, `left` | the order of stamps, rows created, the site's pages, what may still happen |
| `saw`, `overlap`, `lost` | history: rivals a request saw, runs that were not alone, rows whose request, push or attempt was lost |

`Stamp`, `Insert`, `LookForRival` and `Withdraw` or `EnqueueCrawl` are the race of
startCrawl (createdAt is taken before the row is visible); `Claim`, `Begin`,
`Fetch`, `EngineEnds`, `UpsertPage`, `Deactivate`, `Finish`, `Audit`, `End` a run;
`Poll` sees a cancellation, at any time or never; `EngineFails` throws and
`RunDies` takes the process away. Jobs of the schedule and of onboarding name no
row and create their own. What the code logs and goes on from is in it: a push that fails
(`EnqueueCrawl`, `Audit`) and may land later (`CrawlLands`, `AuditLands`), a batch of page rows
that cannot be written (`Fetch`; the run keeps it in `unstored`), a site that is archived
(`Archive`) when its job begins (`Skip`).

### AiRouting.tla, AiClient.tla

`AiRouting` is `resolveModel` as pure operators: the pin of the call site, stored
preferences, the environment, the first provider with a key, the provider a model
belongs to, the hop of embeddings, and the model that fits.

| variable of AiClient | code |
|---|---|
| `siteSince`, `allSince`, `month` | the sums of `AiUsage` since the start of each month, by site and in all |
| `call` | where each caller is: both sums being read side by side, the guard, the provider, the row to record |
| `setup` | keys, preferences and role |
| `left` | what may still happen |
| `billed` | history: what the providers charged |

A structured call has two nested loops, repairs inside attempts; an embedding
call has batches; a stream is not retried and not repaired. `Transient`, `Fatal`,
`Invalid` (fails the schema), `Unparseable` (no JSON) and `Answered` are what a
provider may answer; `RecordLost` is a usage row that cannot be written.

### ContentPipeline.tla

One content draft, from its first stage to its publication.

| variable | code |
|---|---|
| `draft` | the `ContentDraft` row: stage, status, text, blocking flags, unverified claims |
| `completed` | the stages with a COMPLETED `ContentStageRun` row |
| `requests` | the `CONTENT_DRAFT` approvals, each with whether a review had found a blocking flag by then |
| `versions`, `signed` | the highest `ContentVersion`; the versions that approvals made, with their text |
| `job` | the `content.pipeline-stage` jobs by dedupe key: chained stages and stages run by hand have different keys |
| `pub`, `stranded` | the `content.publish` job under the dedupe key and one that `retryJob` made of it past the key; how many of the actions that they filed they left EXECUTING |
| `approve` | where the approve route is, with the version and the text it read |
| `texts`, `left` | texts written so far; what may still happen |
| `edited`, `found`, `redone`, `cut` | history: the operator's texts; a review found a blocking flag; stages repeated unforced; an attempt died between its row and its draft |

`RunStage`, `Edit`, `ApproveReads` and `ApproveWrites`, `Publish`, `RetryPublish` are the routes. A
stage is `Begin` (the job looks for a completed row and marks the draft), `Load` (the
agent reads the draft), `Decide` (what it makes of what it read), `FileRow` and
`Store` (its two writes), then `Advance` and `Chain` (the job moves the draft itself and
enqueues the next stage); `Skip`, `AgentFails` and `Fail` are the ways out of it and
`JobDies` takes the worker away between any two of them. A publication is `PubBegins`,
`PubApplies` (applyChange, and the action it is filed under) and `PubRefused`, with `PubFails` and
`PubDies`.

No publication gets further. applyChange refuses every change but a redirect without an
`externalId`, dry runs included (apply.ts:281, 910: INVALID_PAYLOAD), and a draft is given one only by a
publication that was applied (content.ts:618). What the handler does after that
(content.ts:536-646) and what applyChange does with an id (it flips the status and sends no
text, apply.ts:836-842) is therefore not reachable and not in the module. The other refusals
of applyChange (no capability, an adapter that cannot be built) throw the same way; a missing adapter
skips. Each attempt files an action of its own, although content.ts:481 means them to "hang
off one id".

Job and agent both write the stage row and the draft, in the order given; only the
agent's row is kept in `completed`, because the job's is there only when the agent's
is or when the stage ended without one. Abstracted: the stages that write columns no
other stage or route decides on (they are `OTHER`, and `Order` may leave them out);
what the text says, so that claims and flags are choices; dedupe of stage titles and
slugs; the `SeoAction` that a publication may be handed, since nothing hands it one; the
retry of a stage job past its key, and a second retry of a publication beside the first.

A *careful* operator, a field of the scale, does something only when nothing is under
way. Most of what a pipeline promises it promises to this operator only.

### The MC modules

Budgets and sizes of the runs, and the symmetry sets (left out where liveness is
checked). A *scale* is one size to look at: instead of one large instance, the
initial states range over several small ones, each of which has one kind of
trouble in full.

### The proof modules

JobQueueProofs, ActionLifecycleProofs, CrawlEngineProofs, SchedulesProofs, IssuesProofs,
CrawlLifecycleProofs, AiClientProofs and ContentPipelineProofs: see "Proofs".

## Runs

| run | what it asks | bounds | result |
|---|---|---|---|
| JobQueue_records | every envelope names a row of its own job; a job cancelled while nobody held it never reaches its processor | 2 clients (one brokerless), 2 workers, a keyed and a random id, 2 rows; four budgets of 2 enqueues and one each of repeatable, cleanup, redis fault, row-write fault; of repeatable, row-write fault, lock loss; of cancel, worker crash, client crash, lock loss; or two cancels. Symmetric in the slots and rows only, since the clients differ | holds |
| JobQueue_settle | no row is stranded; every accepted job ends | 2 clients, 2 workers, 2 random ids, 2 enqueues or a repeatable, a fault, a crash | holds |
| Action_consent | a type that always asks is written only after a human approved | 1 client, 2 slots, 2 requests, 2 jobs; two budgets: one each of approve (from the action's page, where it leaves no approved request), decide, execute, retry, stall, misreported write; or of approve, decide, execute, broker fault, failed read | holds |
| Action_ends | a COMPLETED change is on record; a rejection that stands is not followed by an application; the action does not stay EXECUTING unless a statement of its run failed | write-only adapter, a type that need not ask, 2 clients, 1 slot, 2 requests; three budgets: one each of execute, bulk approve, reject, stall, settings change, client crash; of approve, decide, execute, reject; of approve, execute, failing statement, stall | holds |
| CrawlEngine | nothing dropped, links accounted for, one row per URL, page limit, complete when said; it ends; the limiter is a semaphore and serves | 5 pages, one each of refused, asset, external; redirects; a sitemap; 5 configurations of concurrency 1 or 2, 1 to 5 pages, depth 1 to 3 | holds |
| Schedules_sync | an undisturbed pass repairs everything; copies that agree stay so while no late command asks for something else; the copies converge | 1 site, 2 crons, 1 timer pass, 1 request (with its own pass), 3 rows, 3 edits, 1 fault, which may be a command that is lost or late | holds |
| Issues_audits | an undisturbed audit leaves what its crawl found; no plain reopening; ignored stays; auditing again what agrees changes nothing; the table converges, and the score unless its job's push was lost | 2 pages, 1 rule, chunks of 1; 1 auditor with 3 events, 2 auditors with 1; a lost push is an event | holds |
| CrawlLifecycle | racers agree and someone wins; a first, lone run deactivates nothing it fetched and could store; crawls end, unless the job died, never landed or was skipped; completed ones are audited, but for a death or a lost push | 2 pages, 3 crawls, 2 attempts; races, overlaps, a cancellation, scheduled jobs, a call that fails or a death, a site archived and taken back, each a scale | holds |
| AiClient | nothing after the cap; bounded overshoot; sound routes; calls end | 2 sites (cap 1 and none), global cap 2, 2 callers, 2 attempts, 1 repair, 2 batches, 2 months; every route of `Setups` | holds |
| ContentPipeline | no draft is approved unseen; claims acknowledged; the gate heeds what a review found; no stage done twice unforced; no draft stays RUNNING | 5 stages, 2 attempts, 5 texts; eight scales of runs, edits, approvals, publications and their retries, failures, missing providers and deaths, three of them with a careful operator | holds |
| ContentPipeline_held | ReadyIsClean: blocking flags are cleared before a draft is ready | one run of the pipeline, nothing else | violated |
| ContentPipeline_publish | PublishDelivers: a publication of an approved draft gets it published | one approval, one publication, no failure | violated |

### Further configurations

These are kept beside the runs and are started the same way
(`tlc -config JobQueue_retry.cfg MCJobQueue.tla`,
`tlc -config Action_open.cfg MCActionLifecycle.tla`).

| configuration | property | bounds | TLC |
|---|---|---|---|
| any run, `INVARIANT TypeOK` | the module's type invariant ("Proofs" has it, or its form without a run's bounds, as a theorem) | as the run | holds |
| JobQueue_sticky | CancelledIsSticky: CANCELLED is sticky | 1 client, 1 worker, one cancel | violated |
| JobQueue_wedged | PushFailureRetryable: a row whose push failed can be retried | brokerless client | violated |
| JobQueue_reenqueue | NoStrandedRow, with a key enqueued twice | one key, 2 enqueues, no failure | violated |
| JobQueue_retry | types; RetryShown: a waiting retry is shown QUEUED | 2 clients, 2 workers, a key and a random id, cancel, repeatable, client crash | holds |
| JobQueue_retry, one client, worker, row and id, no key, `Budgets <- OneCrashBudgets` | RetryShown, with a crash | one crash, 2 attempts | violated |
| JobQueue_sticky, no key, `INVARIANT NoStrandedRow` | NoStrandedRow, with a cancel | 1 client, 1 worker, one cancel | violated |
| JobQueue_prune | OnlyFinishedPruned: cleanup deletes finished rows only | one key, 2 enqueues, one cleanup | violated |
| JobQueue_stalledout | RowsSettle: every accepted job ends | 2 crashes, `MaxStalled` = 1 | violated |
| Action_dryrun | DryRunMovesNothing: a dry run moves no status | one execute | violated |
| Action_ends, `ExecutingEndsEver` | ExecutingEndsEver: a failed execution shows as one | one execute, one failing statement | violated |
| Action_undone | ApprovedIsQueued: an approval through the queue is acted upon | one execute (dry), one decide | violated |
| Action_dryrun, `INVARIANT ReversibleByRecord` | ReversibleByRecord: a recorded change can be rolled back | one execute | violated |
| Action_open | NoOpenRequestOnceDecided | 2 requests, 2 executes, one decide | violated |
| Action_open, `Budgets <- AskBudgets` | OneOpenRequest | 2 clients, 2 executes | violated |
| Action_withdrawn | RejectedNotWritten: a rejected action is not marked EXECUTING | one decide, one reject | violated |
| Action_withdrawn, `Budgets <- TwoBudgets` | RejectedNotWritten, of two decisions of one request | two decides | violated |
| Action_twice | AppliedOnce, by an adapter that cannot read | one execute, one stall | violated |
| Action_lostrecord | CompletedIsRecorded, by an adapter that reads | one execute, one stall | violated |
| Action_dryrun, `FairSpec`, a safe type that need not ask | QueuedRuns: a QUEUED action does not stay so | none: the agent's proposal is enough | violated |
| CrawlEngine_both | NeverBoth: no URL is reported as crawled and skipped | an image in the sitemap | violated |
| CrawlEngine_both | DepthIsLeast: breadth-first with any concurrency | as the run | violated |
| CrawlEngine_both, `MaxSkipRecords = 1` | SkipCountExact | as the run | violated |
| Schedules_off | OffStaysOff: what is off does not fire | one edit, no fault | violated |
| Schedules_sync, two timers, one edit | the run's properties | two passes of the interval that overlap | holds |
| Issues_page | ResolvedIsGone: what an audit resolves was not found | one event | violated |
| Issues_page, one auditor, two events, `PROPERTY IgnoredStaysAtOnce` | IgnoredStaysAtOnce: an operator's decision survives the audits that overlap it | one auditor, 2 events | violated |
| Issues_audits, `ScoreFollows` | ScoreFollows: the stored score is the table's in the end | one lost push | violated |
| Issues_audits, two events each | the run's properties | 1.19 million states | holds |
| CrawlLifecycle_retry | OnlyTheMissingEver, of a second attempt | one failed attempt | violated |
| CrawlLifecycle_retry, `MCOverlap` | OnlyTheMissingEver, of two runs at once | a request and a scheduled job | violated |
| CrawlLifecycle_retry, `Scales <- MCBatch` | OnlyTheMissingEver, of a first, lone run | one lost batch | violated |
| CrawlLifecycle_orphan, `Scales <- MCBatch`, `CompletedIsAuditedEver` | CompletedIsAuditedEver: every completed crawl is audited | one call that fails | violated |
| CrawlLifecycle_orphan | CrawlsEndEver: no row stays active | one death or lost push | violated |
| CrawlLifecycle_orphan, `Scales <- MCArchive` | CrawlsEndEver | a site archived and taken back | violated |
| CrawlLifecycle_twice | OneAtATime: one crawl of a site at a time | two requests | violated |
| CrawlLifecycle_retry, `Scales <- MCCancel`, `CancelSticks` | CancelSticks | one request, one cancellation | violated |
| AiClient_runaway, `Scales <- MCRoutes`, `PinHolds` | PinHolds: a pinned provider is a hard requirement | every route | violated |
| AiClient_runaway | SpendBounded: one caller is charged within one call of the cap | 4 calls | violated |
| AiClient_malformed | MalformedRepaired: only transport failures are retried | one caller | violated |
| ContentPipeline_held, `Scales <- MCEdited`, `ApprovedIsSigned` | ApprovedIsSigned: the approved text was signed off | one approval, one edit after it | violated |
| ContentPipeline_held, `Scales <- MCRace`, `ApprovedIsSigned` | ApprovedIsSigned | one approval while a stage is under way | violated |
| ContentPipeline_publish, `Scales <- MCStall`, `INVARIANT NoneStranded` | NoneStranded: no publication leaves its action EXECUTING | one publication, one stall | violated |
| ContentPipeline_held, `Scales <- MCDeath`, `RunningEndsEver` | RunningEndsEver: no draft stays RUNNING | one death | violated |
| ContentPipeline, APPROVED or PUBLISHED in `Runnable` | ApprovedIsSeen | as the run | violated |
| ContentPipeline, PUBLISHED in `Runnable` | ClaimsSeen | as the run | violated |

### Why the bounds are enough

The queue's races are between one row's writers: a client and a worker, two
clients, or a zombie worker and its successor; `Attempts` = 2 gives a first
attempt, a retry and a last failure, and one crash against `MaxStalled` = 1 the
re-queue. The passing runs leave out exactly the events that the violated ones
show to be fatal: `NoStrandedRow` does not survive a keyed re-enqueue, a cancel, a
client crash between row and push, a lost row write or a zombie's late write;
`NoRunAfterCancel` does not survive a failed push (its handler writes QUEUED over
the cancellation), a lost row write, or a pruned CANCELLED row whose job is still in
Redis; `RetryShown` does not survive a stall.

The actions' races are between two requests, a request and a run, or a zombie run
and its successor. Two requests for approval are the least for one to be left over,
and two jobs the least for a retry past the dedupe key. `AppliedOnce` fails as soon
as a stalled run has a successor that cannot see its write: a write-only adapter, a
read that failed without being vital, or two slots that both looked before either
wrote. `CompletedIsRecorded` survives a stall only with an adapter that cannot read,
since only such a run writes, and records, again. `RejectionHolds` and
`GuardrailHolds` are proved without any bound.

The crawl engine's cases are one URL met twice (as a link and an image, from two
depths, by a redirect, in the sitemap and as a link), a limit reached with two
fetches under way, and an abort in each stretch; five pages behind one home page
have them all. A schedule's copies diverge by one edit inside a pass, which two
edits undo or repeat, or by one command that lands after its caller gave up; three rows are a row, its replacement and a double. An audit needs two findings for its
chunks to be interrupted between, and two auditors and one finding to overlap. The races
of a crawl need two actors at a time, which the scales enumerate, and two attempts.
A cap of one call's price is reached by the first of two callers; a structured call
with one repair and two attempts can be charged four times, which is the case that
separates what is recorded from what is billed. `CallsEnd`, `CrawlsEnd` and
`Converges` are checked on these bounds only.

A draft has one writer per stage job, a publication with its retry, and one operator; its races are
between two of them, so every scale allows two or three kinds of event and each pair
occurs in some scale. The five stages are those of which one reads what another wrote;
five texts are a draft, its second writing by force, two edits and a retry. The
invariants of the run are proved without bounds.

`CHECK_DEADLOCK FALSE`: when the budget is spent and every job is done, the system
rests.

### What the violations say of the code

Each is shown by the run or configuration named in brackets (a variant of one is
described in the table above). ContentPipeline_held and ContentPipeline_publish are listed as
runs and findings; the others are kept as configurations.

Of the queue:

1. *Cancellation is not sticky.* `markJobRunning/Completed/Failed` check the
   status and then update by id. With a failing attempt the row ends QUEUED
   while `cancelJob` takes the re-queued job out of Redis. [JobQueue_sticky]
2. *A row whose push failed cannot be retried.* It is QUEUED, which `retryJob`
   refuses and which makes its dedupe key answer "duplicate". [JobQueue_wedged]
3. *Stalls count against `willRetry` but not against BullMQ's retries*: the row
   says FAILED for a job that will run again. [JobQueue_retry]
4. *A re-enqueue in the window between the end write and BullMQ's completion*
   is answered `enqueued: true` and never runs. [JobQueue_reenqueue]
5. *The history cleanup deletes by id*: a row re-enqueued meanwhile goes too.
   [JobQueue_prune]
6. *A job that stalls twice* leaves its row RUNNING for ever. [JobQueue_stalledout]

Of the actions:

1. *A dry run moves the status*: NO_CHANGE completes the action, a refusal writes
   back a stale status, missing consent parks it. [Action_dryrun]
2. *Deciding one request leaves the others open.* Only the action's own page
   closes them all. [Action_open]
3. *Two refused runs at once make two requests.* [Action_open]
4. *A dry run in flight swallows the execution an approval asks for*: both use
   the same dedupe key. [Action_undone]
5. *A rejection does not withdraw consent*: APPROVED rows stay, and a run that has
   read the status applies the rejected action and writes EXECUTING over it.
   [Action_withdrawn]
6. *A stalled run is repeated* although the lane allows one attempt; a write-only
   adapter writes twice. [Action_twice]
7. *A run that stalls after the write leaves the change unrecorded*: its repetition
   sees nothing to change and completes the action. [Action_lostrecord]
8. *Nothing can be rolled back*: the worker nests the old values under `before`,
   the route looks for them one level above. [Action_dryrun]
9. *What the guardrail permits is not run*: an agent's action is QUEUED without a
   job. [Action_dryrun]
10. *A statement that fails after EXECUTING was written leaves the action there*: the job
   has one attempt and nothing puts it back. [Action_ends]

Of the crawler:

1. *A URL can be reported as crawled and as skipped*: an asset that is skipped for its
   extension is probed, and its probe makes a row. [CrawlEngine_both]
2. *Depths are least only one fetch at a time*; with more, a page may be filed deeper
   than the shortest way to it. [CrawlEngine_both]
3. *The skip count is inexact past `MAX_SKIPPED_RECORDS`.* [CrawlEngine_both]
4. *The second attempt of a crawl deactivates pages it has just fetched*: their
   CrawlPage rows keep the stamp of the first attempt, which is before the second one's
   start. [CrawlLifecycle_retry]
5. *Two crawls of one site may run*: a row stamped first and inserted last is missed by
   the look for rivals. [CrawlLifecycle_twice]
6. *A process that dies leaves a row for ever*: QUEUED if the request died, RUNNING if
   it was a scheduled job, which names no row and makes a new one in its next attempt; startCrawl refuses the
   site from then on. [CrawlLifecycle_orphan]
7. *COMPLETED overwrites a late CANCELLED.* [CrawlLifecycle_retry]
8. *A push that fails leaves the crawl row QUEUED*, "until a worker and Redis are available";
   nothing pushes it again, and startCrawl refuses the site. [CrawlLifecycle_orphan]
9. *A site archived before its crawl begins leaves the row active*: the job is skipped as
   completed. [CrawlLifecycle_orphan]
10. *A batch that could not be written counts as missing pages*: its pages keep an older stamp
   and are deactivated. [CrawlLifecycle_retry]
11. *A completed crawl whose audit the broker refused stays unaudited*: the answer is only
   reported. [CrawlLifecycle_orphan]

Of schedules, issues and the AI client:

1. *A schedule that was switched off may fire until the next pass*: a pass that read it
   before registers it again. [Schedules_off]
2. *Re-auditing one page resolves the open issues of every other page*, which come back
   as regressions. [Issues_page]
3. *An issue ignored while an audit runs may be written over by it.* [Issues_page]
4. *A lost push of a score job freezes the score*: its row holds the key, and every later
   audit is told duplicate. [Issues_audits]
5. *A pinned provider is left for embeddings* if it has none. [AiClient_runaway]
6. *Failed attempts are charged and never recorded*, so that a loop of failing calls is
   not throttled by the budget. [AiClient_runaway]
7. *An answer that does not parse is retried at full price*, where the comment leaves
   malformed answers to the repair loop. [AiClient_malformed]

Of content:

1. *A draft that is held is moved on all the same.* The agent leaves it at its stage
   with FAILED; the job, which only looks whether the agent threw, sets the next stage,
   or COMPLETED at the last one, and chains it. [ContentPipeline_held]
2. *No draft can be published.* A publication needs the id that only an earlier publication
   could have stored; the job throws on every attempt, for a dry run too. [ContentPipeline_publish]
3. *A death between the agent's row and its draft leaves the draft RUNNING*: the next
   attempt finds the stage completed and returns at once. [ContentPipeline_held]
4. *The run route takes APPROVED and PUBLISHED for stages*: the job marks the draft so
   before the agent refuses, and a publication trusts that mark. [ContentPipeline]
5. *What is approved need not be what was signed*: the autosave leaves APPROVED alone, and a
   stage under way during the approval writes its text afterwards. [ContentPipeline_held]
6. *A publication that is cut short leaves its action EXECUTING*, and the next attempt files
   another. [ContentPipeline_publish]

Noted while modelling, and not a property of any run: deciding a `CONTENT_DRAFT`
approval changes no draft; nothing enqueues `content.publish` with an action; a real
publication and a dry run share a dedupe key, so one swallows the other; a chained
stage (`stage:`) and the same one run by hand (`content.pipeline-stage:`) do not share
one, and may run at once; flags are only ever added to.

## Fairness

`FairSpec` adds weak fairness of the steps of a call that began, of a worker
slot's steps (processors end: they throw, return or are cut off by their own
time-outs), of BullMQ's stalled check (a timer in every worker), and strong
fairness of taking each job, because a lane is a queue: a job that keeps
waiting while slots come free is taken. Calls, late landings, evictions,
crashes and lock losses are never assumed to happen. `FairSpec` of
ActionLifecycle is the same idea: weak fairness of a request's and of a run's own
steps, strong fairness of taking a job; nobody has to decide, retry or run
anything.

CrawlEngine: the event loop runs what is ready and the fetcher has a deadline for every
request; nobody has to abort. Schedules: the interval keeps firing and statements return;
no edit and no fault has to happen, and no late command has to land. Issues: the crawl schedule keeps firing (strong
fairness of a full crawl, as the auditors are sometimes all busy), audits and the score
job go on. CrawlLifecycle: requests, the cancellation and runs go on once begun; no poll
has to see a cancellation and no push that was given up on has to land. AiClient: a call goes on; what the provider answers is open. ContentPipeline:
queued stages and publications are taken up and their handlers go on to their end, and an
approve request is served; no operator has to do anything.
Liveness is checked by TLC only.

## Proofs

`JobQueueProofs.tla` proves, for all constants that satisfy the named
assumptions (`DedupeIds` are job ids, `Attempts` is positive, the budgets are
naturals, the null values are not values):

- `TypeCorrect`: `Spec => []TypeOK`;
- `RowsAreDurable`: `Spec => []DurableRowFirst`.

`TypeOK` is not inductive: `broker[worker[w].job]` is only defined when a busy
worker names a job. `IInv` adds `Names`, which says that a client or worker past
its first step names a job, and that the row a client is about to push or to
write was written for that job; with it `DurableRowFirst` is inductive, because
rows only grow (`RowsGrow`): no step takes a row back to unborn or changes its job id.
A lemma that the theorems below rest on is `OneRow`: there is one live row per job id, which
is the table's unique key. Each invariance lemma has one step per action.

Two theorems name the faults they exclude, and the further configurations above show
what each of these faults does; everything else may happen in any number.

- `CancelHolds`: `Spec /\ Calm => []NoRunAfterCancel`. `Calm` says of the first state that
  the behaviour may lose no command and no row write and has no cleanup. Then a barred job keeps a CANCELLED row (`Barred`), and a worker
  that takes the job, however late, from whichever crash, looks that row up before
  it calls the processor. Cancelling and enqueuing race in every order, with crashed
  clients, lost locks and brokerless clients.
- `NoneStranded`: `Spec /\ UsedOnce /\ Tame => []NoStrandedRow`. `UsedOnce` says that no id
  is deduplicated, `Tame` of the first state that the behaviour may spend no
  cancel, cleanup, lost row write, client crash or lost lock, and no more worker
  crashes than `MaxStalled`. `Cared` says of a row in flight that Redis holds its job or
  its client is still pushing it. It needs that a job stalls once per crash under it
  (`CrashesCounted`), that before its push a job is its client's alone, late adds
  included (`Undelivered`), that a worker at work holds an active job (`Owned`), and that a
  run settles only after it wrote its verdict (`Ended`). Failed pushes, late adds, retries,
  repeatables and crashes remain.

`ActionLifecycleProofs.tla` proves, for all sets of approvals, jobs, clients and
runners, every risk band and adapter and every set of budgets (`KeyedJob` is a job, a type
that always asks is not SAFE, budgets are naturals, null values are no values):

- `TypeCorrect`: `Spec => []TypeOK`, through `Typed`, which adds that a busy slot
  names a job (`Stall` and `Settle` write `job[runner[w].job]`);
- `Guardrail`: `Spec => []GuardrailHolds`. A slot past its check writes without
  looking again, so `GuardInv` carries what it found: APPROVED rows are ones a
  human approved (`ApprovedByHuman`), no slot was cleared by the settings
  (`NeverCleared`), and a slot past the check had consent (`PastCheckConsented`);
  consent only grows (`ConsentGrows`);
- `Rejection`: `Spec => []RejectionHolds`. While a rejection stands the system is
  `Quiet`: the status is REJECTED, requests are only inside decisions, slots have
  only taken a job, read or settled it. A run that starts reads REJECTED and
  settles, and an execute is refused;
- `CompletionsRecorded`: `Spec /\ ~CanRead => []CompletedIsRecorded`, for the write-only adapters.
  `RecordInv` says that no slot answers "no change", that a slot past the change log or the
  experiment has them, and that none goes on after it read COMPLETED. Where the adapter
  reads, the property is false (Action_lostrecord.cfg), so the hypothesis is the code's.

The ghost variable `declined` starts when nothing else is in flight: with a run in
flight the property fails, which is what Action_withdrawn.cfg shows.

`CrawlEngineProofs.tla` proves, for every site, configuration, sitemap and behaviour of
the network, with finitely many URLs or not (the sets the crawl keeps are shown finite):

- `TypeCorrect`, `NothingIsDropped` (`NothingDropped`), `LimitHolds` (`PageLimitHolds`) and
  `RowsAreUnique` (`OneRowPerUrl`), all from `Invariance`: `Spec => []IInv`. `IInv` is the
  type invariant with `Accepted` (what is queued or in flight was accepted), `Finite`,
  `Counted` (rows and tasks in flight together are no more than were started, and those
  no more than the limit), `Kept` (`NothingDropped`, no URL twice in the frontier, the
  tasks or the rows, rows only of accepted URLs) and `Probing` (probes run only after the loop is empty, and
  only at URLs that were not accepted, which is why an asset row meets no page row);
- `CompleteIsComplete`: `Spec => []CompleteWhenSaid`, from `Honest`: a skip for
  the limit or the cancellation has its flag set, and the leftovers are drained under one
  of the flags only;
- `LinksAreAccounted`: `Spec => []LinksAccounted`. `Linked` says of every link of a crawled page
  that its target was accepted, has a skip, or waits to be offered, and that only an
  own page is ever too deep. A page that is too deep for one parent and not for
  another is accepted whichever comes first, because an offer that is accepted
  clears the skip and a refusal never touches an accepted URL;
- `EngineImplementsSemaphore`: `Spec => LimiterIsSemaphore`, the refinement. `Slots` adds to the
  invariant that holders stay within the concurrency, that probes wait only behind a full
  house, and that no URL waits twice; every step of the engine is then a `Join`, a `Leave`
  or a stutter of `Semaphore`.

The engine's URLs must be pairwise disjoint kinds (`SiteAssumption`), and its
configurations typed (`ConfigAssumption`).

`SchedulesProofs.tla` proves, for any number of sites (at least one), crons, overlapping passes,
requests, rows, edits and faults:

- `TypeCorrect`: `Spec => []TypeOK`, from `Sound`: what a request holds fits what it is about to
  write (`Held`), a request whose pass is under way waits for it (`Waiting`), ids are given out
  once (`Numbered`), a deleted site has neither row nor cron (`Gone`), and a pass registers
  what it keeps (`Wanted`);
- `PassesRepair`: `Spec => PassRepairs`. `Phase` says how far a pass has come that nothing
  touched since it began: its copies are what there is; the rows of the sites it has been
  through follow their settings; what it registered fires at its row's time; what
  it found and did not want is off. Every write past the pass, and every broker
  call that failed, puts it in `touched` (`PassesKept`), so that the pass's own steps are
  all there is to prove. At the end, with `Numbered` telling one row's repeatable from
  another's, settings, rows and Redis are equal. Nothing is assumed of the state
  the pass starts in: the leftovers of crashes, half-done edits and stale passes
  are repaired. `ReconcilePasses` shows besides that only a touched pass meets a refusal
  of the database;
- `AgreementHolds`: `Spec => AgreedStays`. Copies that agree, with no request under way but those
  that wait for a pass and no late command that asks for something else (`Harmless`), stay so
  until the next edit. A pass that read them finds no orphan and
  nothing stale (`NothingStale`), and what it keeps is what its settings ask for
  (`KeptIsAskedFor`), so that what it registers is registered already, whatever
  the broker refuses or answers late and whichever request dies: a command that a pass gives
  up on now asks for what is there. With `PassesRepair`: one quiet pass that ends with no
  other pass, no request and no late command pending is enough, for good.

`IssuesProofs.tla` proves, for every set of pages, rules and auditors and all scales, four of
the five properties of Issues_audits (the fifth is liveness):

- `TypeCorrect`: `Spec => [](TypeOK /\ Held)`; `Held` says that a crawl found nothing on a
  page it did not reach, and that an audit of a crawl loads all of its pages;
- `RegressionsShow`: `Spec => NeverReopened`. Only the three chunked writes touch issue and
  audit in one step (`WhoWrites`), and what they make of a resolved finding is a
  regression, whichever audit read it how long ago;
- `AgreementHolds`: `Spec => AgreedStays`. When the table, the latest crawl, the score and what
  is under way agree with the site, an audit that reads the statuses finds nothing to
  write (`NothingToDo`), so that its chunks are empty (`ChunkAgrees`); a crawl of all
  the pages finds what the last one found, and an attempt that starts again has the
  same crawl and pages. Overlaps and failures are in it, `touched` is not: no audit
  has to be undisturbed;
- `IgnoredHolds`: `Spec => IgnoredStays`, and `AuditsSettle`: `Spec => AuditSettles`. An audit
  writes what it decided when it read the table, minutes ago. `Settling` says of one
  that nobody disturbed meanwhile (it is not in `touched`) that each
  fingerprint still on its lists has the status it was read with, and each other one is
  as the audit wants it; `Ordered`, that the lists are worked off one after the other.
  When the last is empty everything is as the audit wants it, and with `Held` that is what
  the crawl found.

The invariant `IInv` is `TypeOK`, `Held`, and of each auditor `Ordered` and, unless it was
touched, `Settling`. The pages and the rules have to be finite sets, and a chunk holds
something.

`CrawlLifecycleProofs.tla` proves, for any number of requests, runs, rows and attempts, and
any scale:

- `RacersHold`: `Spec => []RacersAgree`. `Beaten` says that a request which saw an older
  rival withdraws or has done so, and that its row never gets a job. Of two that
  saw each other the younger is beaten. It is inductive because a row's number is held by one
  request (`Requested`), and because the jobs that the lane enqueues for itself, the
  scheduled ones and their further attempts, take numbers nobody has had (`Unborn`);
- `SomeoneHolds`: `Spec => []SomeoneWins`. `Outlived` says that while a request withdraws there
  is an older row than its own; a rival that takes its row back leaves a still older
  one. The least row there is (`WFMin`) is then nobody's to withdraw;
- `TypeCorrect`: `Spec => []Shaped`, the types of what the race reads and writes. `TypeOK`
  itself bounds the clock and the attempts by what a run of TLC can reach, and
  is not inductive;
- `MissingOnly`: `Spec => OnlyTheMissing`. `deactivateMissing` compares stamps, and the invariant
  `PInv` says what they are worth: a crawl that has not begun has no rows (`Blanks`),
  a run that nobody overlapped is the only one (`Alone`), and the rows of a first attempt, which are
  those of the pages it fetched and could store, are no older than its start (`Fresh`), nor are the pages
  it has upserted. A second attempt finds rows older
  than itself, and an overlapped one finds pages that the other stamped; for
  both the property fails, as it does for the pages of a lost batch (CrawlLifecycle_retry.cfg).

`Claimed` (no two runs hold one job) is what lets a run settle its job without
touching another's. OneAtATime, which the comment in the code hopes for, does not
follow, and CrawlLifecycle_twice.cfg shows that it fails: the two racers need not see each other.

`ContentPipelineProofs.tla` proves, for every pipeline, set of stages run by hand, number
of attempts and of texts, and all scales:

- `TypeCorrect`: `Spec => [](TypeOK /\ Known)`; `Known` says that the agent is at work
  only in stages of the pipeline;
- `NothingUnseen`, `ClaimsAreSeen`, `FlaggedIsHeld` and `OnceIsEnough`: `Spec /\ Unsigned => []...`
  of `ApprovedIsSeen`, `ClaimsSeen`, `GateHolds` and `DoneOnce`. `Approved` says that a draft is APPROVED or
  PUBLISHED only after somebody signed. Under a careful operator `Waited` holds: at most
  one of the stage jobs and the approval is under way (a publication changes no row that they
  read, `PubLeaves`), and what each of them
  read is still what the row says, which is what makes a read of minutes ago as good as
  one now. `Waited` is not an invariant of a hasty operator, and the properties fail there.

`Unsigned` assumes that the run route is not called with APPROVED or PUBLISHED, which
the route accepts and which the two last configurations above show to be fatal.

`AiClientProofs.tla` proves, for every set of sites and of budgets, any finite number of callers,
attempts, repairs, batches and months, every price list with a dearest price, and every
combination of keys, pins and models:

- `TypeCorrect`: `Spec => []Shaped` (`TypeOK` bounds the sums by what a run can reach);
- `CapRefuses`: `Spec => []NothingAfterTheCap`. A guard reads two sums at two moments, and
  the month may turn between them. `Remembered` says of a call made after a budget was
  used up that the sum since its own month shows it, and that what it has read so far shows it
  too, or is not that sum; `Sums`, that a sum over more months is no smaller;
- `OvershootLimited`: `Spec => []OvershootBounded`. `Spending` counts: a sum at or past its
  cap, plus one dearest call for every caller that may still add to it, is within the
  overshoot. A caller joins these movers only by reading a sum below the cap, and `Priced` bounds
  what it adds by its repairs or batches. Callers finitely many and a dearest
  price are needed for a bound to exist at all;
- `RoutesAreSound`: `Spec => []RouteSound`, from `Routed` and lemmas about the operators of
  AiRouting (`FoundIsAble`, `PreferredFits` and those after them), by cases on the few
  positions of the order.

Only model-checked: liveness (`RowsSettle`, `ExecutingEnds`, `CrawlEnds`,
`LimiterServes`, `Converges`, `CrawlsEnd`, `CompletedIsAudited`, `CallsEnd`, `RunningEnds`), which is out of the
prover's reach. Every invariant and every action property of a passing run is the subject of a
theorem. Of the further configurations, `RetryShown` has none: it holds under its own
budgets only.

## Plan

What a further extension would take up, in this order:

1. The OAuth token store: two refreshes of one token, and what the later store keeps.
2. Agent runs: a run that dies, and the actions it had proposed.
3. ActionLifecycle: the schema-deploy route as a further writer, and an abstract
   specification of what the approvals queue promises.
4. Proofs: that two agents of the queue, a client and a worker, implement an abstract job with
   three moments (accepted, running, ended), and `RetryShown` under its budgets.

## Not modelled

Most of the repository's lines are outside of what a state machine says anything
about: pages and components, prompts, parsers, vendor API clients, scoring arithmetic,
seeds and tests. They hold no state that two actors share, or none at all, and
are left to unit tests; the notes of `components` in PROJECT.json say so part by part.
With state, and still left out:

- the OAuth token store, the agent runs (above);
- how a draft comes to be (briefs, keyword clusters) and content.detect-decay, which only
  propose work;
- `createJobContext`'s progress writes, which nothing reads to decide anything;
- `cron.ts`: matching is arithmetic of the calendar;
- createSchedule, runScheduleNow and refreshNextRunTimes: rows without a settings column,
  an ordinary enqueue, a display column;
- the keywords, sync and maintenance processors: one writer, upserts by a natural key;
- crawlSinglePage, the per-host interval of the fetcher, the link graph's truncation and
  the columns of a page that only its own crawl writes;
- prices, token counts and the wire formats of the AI providers; storing vectors;
- the database itself: a statement is atomic and is seen by the next.
