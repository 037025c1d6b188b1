# TLA+ models of Kiizama

This directory specifies the parts of Kiizama whose correctness depends on the
order in which several processes act: the Redis job queue and its two kinds of
worker, the backend handlers that create and complete jobs, the accounting of usage
quota, Stripe's webhooks, access that administrators manage, the address kept at
Stripe, rate limiting, the event stream of a user, the scraping and storing of a
batch, and the command line tools that fill the table of profiles. The modules are
translated from the Python and TypeScript sources; `PROJECT.json` maps every
definition to the lines it stands for.

Run a model with `tlc -workers 2 -config TwoFaults.cfg MCScrapeWorker.tla` and
check proofs with `tlapm ScrapeWorkerProofs.tla`.

## The system

Short paths: *job control* is `packages/core/src/kiizama_core/job_control`, *jobs*
is `backend/app/features/ig_scraper_jobs`, *billing* is
`backend/app/features/billing/services`, *scraper* is
`packages/scrape_core/src/kiizama_scrape_core/ig_scraper_v2`.

| Component | State it keeps | Operations | Talks to | What makes it correct |
|---|---|---|---|---|
| Job control (job control) | Redis stream and consumer group, a state hash and a lease key per job | enqueue, poll (reclaimed, then new), start_job, heartbeat, finish_job, terminal claim | workers, backend | no message lost, one worker per job, attempts bounded |
| Scrape worker (`scrape_worker`) | polled batch, job handle with `lease_lost` | worker_loop, process_message, completion request | job control, backend over HTTP | acks only what is decided |
| Job service (jobs `service.py`) | Postgres row per job | create_job, complete_job | job control, billing, user events | the owner is told once, and after the fact |
| Job billing (jobs `billing.py`) | reservation of a job | reserve, attach job id, finalize or release | usage | settled once, for a decided job only |
| Usage reservations (billing `usage.py`) | usage_reservation, counters of usage_cycle_feature, usage_event | reserve, finalize, release | Postgres row locks | counters are the sum of reservations, limit kept |
| Usage cycles (billing `cycle_*.py`) | usage_cycle and its feature rows | ensure, refresh limits, close, revoke | usage, subscriptions | a cycle is open only while its subscription gives access |
| Apify runner (jobs `apify_runner.py`) | semaphore, tasks of the backend process | run loop, process message, complete in process, start and stop | job control, job service | slots given back, leases kept apart, no paid scrape twice |
| Recommended jobs (scrape_core `recommended_jobs.py`) | dedupe keys in Redis | claim, enqueue, release | job control | a username is claimed only with a job |
| Stripe webhooks, subscriptions, notices | billing_webhook_event, billing_subscription, notices | record and process an event, sync, refund, notify | Stripe, cycles | rows follow Stripe, a refund stays, the user is told |
| Access, checkout, cleanup (billing `access_*.py`, `users.py`) | accounts, overrides, rank of a user | read access, start checkout, make a user ambassador, standard or superuser, delete the account | Stripe, subscriptions | one customer, no row left behind; ambassador and superuser exclude each other; a subscription ends when its override starts |
| Customer email sync | tasks with attempts | upsert, claim, attempt, retry | Stripe, supervisor in every process | the last address ends up at Stripe |
| Rate limit | token buckets and windows in Redis | evaluate the rules of a policy | routes | a limit holds whatever the clocks say |
| User events | stream per user, dedupe keys, cursor and timers of a tab | publish, read, reconnect | job service, billing, browser | no event missed or shown twice |
| Scraping a batch (scraper) | queue of usernames, page workers, results, counters | prepare, log in, scrape, label, sum up | Instagram, Apify, a language model | every username has one result, the owner pays for the results told |
| Stored profiles (scraper `persistence.py`) | ig_profiles, unique by account and by username | persist a batch in one transaction | Postgres | reported profiles are stored, under the right name |
| Following and recommended pipeline (`backend/scripts`) | status file, two CSV files | precheck, scrape and store, export, discover, persist | ig_profiles (with jobs and superusers), Instagram | runs that are cut off lose nothing and end |
| Supervisors (`main.py`, `resilience.py`) | dependency status, runner tasks | start, degrade, restart | all runners | a runner comes back |
| Reports, OpenAI, accounts, frontend views | | | | not of this kind: I/O, rendering, single-transaction CRUD |

The hard behaviours are the interleaving of consumers at the awaits of
`start_job` and `finish_job`, tasks of one process that share a lease token, the
backend finishing a request whose caller has given up, handlers that fail between
two stores (Redis, Postgres, Stripe, the event stream, a file), webhooks out of order
and again, leases and TTLs, clocks that differ, transactions that wait for each
other's rows, and retries under the same idempotency key. `PROJECT.json` lists each
one under `hazards` at the line where it bites.

## Modules

| Module | Models | Role |
|---|---|---|
| `JobQueue` | job control | Redis state, `JobWorkerRuntime`, the environment's faults |
| `JobCompletion` | jobs `service.py`, `billing.py`, the internal route | creation and completion of a job; extends `JobQueue` |
| `ScrapeWorker` | `scrape_worker/worker.py`, `backend_client.py` | the worker; composes all three, states Spec, fairness and properties |
| `JobOutcome` | (abstract) | what the owner of a job is promised about row, reservation and notification |
| `ApifyRunner` | jobs `apify_runner.py`, `recommended_jobs.py`, `main.py` | the runner inside the backend, on `JobQueue` |
| `UsageQuota` | billing `usage.py`, parts of `cycle_*.py` | reservations of one feature of one user |
| `StripeBilling` | billing `webhooks.py`, `subscriptions.py`, `cycle_lifecycle.py`, `notices.py`, `access_state.py`, `access_read.py`, `checkout.py` | webhooks and the rows they maintain |
| `ManagedAccess` | `routes/users.py`, billing `access_write.py`, the Stripe client | administrators' requests; extends `StripeBilling`, states its properties |
| `CustomerSync` | billing `customer_sync.py`, `checkout.py`, `cleanup.py`, `users.py`, `main.py` | the address Stripe holds of a user |
| `RateLimit` | `features/rate_limit` | both Lua scripts and the loop over the rules |
| `UserEvents` | `user_events` of the backend and of the frontend | the stream, the generator and the connection of a tab |
| `UserEventDelivery` | (abstract) | what a tab is promised |
| `Scraping` | | what batches and tools share: usernames, their selection in order, the budget of failures |
| `ProfileStore` | scraper `persistence.py` | the table and the transaction that writes a batch |
| `ScrapeBatch` | scraper `executor.py`, `service.py`, `batch_runner.py`, `session.py`, `apify.py`, `analysis.py` | executing a job's batch; extends `ProfileStore` |
| `CuratedProfiles` | `backend/scripts` | what the two tools share: profiles, Instagram, a scrape |
| `FollowingPipeline`, `RecommendedPipeline` | `ig_following_persist_pipeline.py`, `ig_recommended_pipeline.py` | the tools; both extend `CuratedProfiles` |
| `ScrapeTools` | | composes the tools, states Spec, fairness and properties |
| `MC...` | | instances for TLC |
| `ScrapeWorkerProofs`, `ApifyRunnerProofs`, `UsageQuotaProofs`, `ManagedAccessProofs`, `CustomerSyncProofs`, `RateLimitProofs`, `UserEventsProofs`, `ScrapingProofs` | | theorems; `ManagedAccessProofs` has those about `StripeBilling` too, `ScrapingProofs` those about `ScrapeBatch` and `ScrapeTools` |

### How state and actions correspond to the code

*Step boundaries.* Python code runs without interruption between two awaits, so
each call to Redis, Postgres, Stripe or HTTP is one action, and the code up to the
next one belongs to it. The end of an execution, the `lease_lost` test and the
start of the request are one action, as no other task can run between them.
The billing functions are synchronous; their transactions are the actions. A Lua
script is one action. A request of the user that blocks its event loop is
one at a time per process.

*Queue.* `stream`, `delivered` and `pel` are the stream, the group's last-delivered
id and its pending list; `hash` is the state hash with the three fields decisions
depend on; `lease` the lease key. A slot's `pc` says where a handler stands:
`poll`, then `discard`, `expire` or `claim` (decided on the hash as read), `write`,
`execute`, `wait` (for the backend), `finish` (ack) and `release`. The early exits of
`start_job` are decided when the state is read and carried out later: that is where
stale reads come from.

*Backend.* `create` is the progress of the request that creates a job, `call` a
completion request in flight. A call goes through `ClaimTerminalState`,
`UpdateProjection`, `FinalizeBilling`, `PublishEvent`, `CompleteTerminalState`; it
continues when its worker has timed out or died, and `CallFails` may end it between
any two. `events` are the notifications of a job; publishing is deduplicated for
good, since the dedupe key lives as long as a job's messages (24 hours each).

*Faults of the queue.* Crashes, dependency errors, timeouts, handler failures, stalled
heartbeats, expiry and failed enqueues are actions with a budget per kind
(`MaxFaults`). A failing Redis command may or may not have taken effect. A cancelled
worker task is a crash followed by the end of the lease TTL.

*Apify runner.* `loop` is the polling loop (`down`, `acquire`, `poll`, `stopping`),
`permits` the semaphore, a `Slot` a message task; all slots of a process share its
worker id and so its lease token. `work` follows the execution: scrape, then one
dedupe key and one batch of recommended usernames at a time. `Stop` cancels every
task, `Cancel...` say what is left of it; cancelling a command may or may not have
let it through. Completing a job is one step here, as `JobCompletion` has its detail.

*Quota.* A request goes through `LookUp` (existing reservation; otherwise plan and
period are read), `EnsureCycle` (committed), `Reserve` or `ReserveFails` (row lock),
its work, and `Settle`; it may crash anywhere. Several requests may share a
key. Reads under `FOR UPDATE` are fresh: the ORM session expires what it holds at
every commit, and each route either commits in between or keeps no reference.
Managed (override) cycles are cycles of their own without limits; `StripeBilling` has
when they are opened and closed.

*Stripe.* `stripe` is the truth, `log` the events in the order Stripe emitted them,
`record` the rows of billing_webhook_event. A handler registers its event, fetches
what it needs (`Fetch`, the await), loads the row (`Load`), commits subscription and
cycles (`SyncCommit`, `RefundCommit`), moves a pending override to the end of the period
(`MoveOverride`, a transaction of its own when there is access; without it the override
is committed with the row), writes the notice (`Note`) and marks the event (`Finish`). An
abort may come between any two of these and leaves the record `pending`,
which the code answers as processed when Stripe comes again. A period is a pair of
bounds; `ended` are those whose end has passed. `offered` are the checkout sessions,
which a customer may complete long after they were granted.

*Managed access.* `override` are the rows of user_access_override in order of creation,
each with the moment it starts: at once (`Managed`) or at the end of a period;
`superuser` is the rank. A request of an administrator validates the transition
(`Validate`), writes the rank in a transaction of its own (`WriteRank`), reads what
`set_access_profile_async` needs (`ReadProfile`), asks Stripe (`AskStripe`, the await;
`StripeFails`), commits on what it has read (`CommitProfile`) and does the same for a
superuser's subscription (`ReadPromoted`, `CommitPromoted`); its answer builds the
billing summary, which opens a cycle (`Respond`). The pending override is looked up
again at the commit, as the code does.

*Customer.* `request` is what a process serves (a change of the address, the first
checkout, deletion), `tasks` the rows in order of creation, `attempt` the task a
supervisor is working on. A process has one event loop: between
`StartCheckout` and Stripe's answer another process may work, the own one only where
it awaits. `late` are requests that time out at the sender and may still arrive.

*Rate limit.* `time` is the time of the slowest clock, `Now(p)` that of a process.
Buckets, windows and their TTLs are as the scripts leave them, in the integers of the
scripts; `charges` is the history of what was let pass.

*Events.* An entry's id is its place in `log`; `trimmed` says how much is gone.
A `Conn` is one run of `connect()` with its fetch, the generator at the server
(`conn[c].server`) and what is on the wire. `run` is `runId`: a run of an older id is
being wound up. `cursor` is in sessionStorage and survives a page load, the rest does not.

*Batch.* `pc` goes through preparing, session, scraping, analysis and
persisting; `queue`, `pages`, `closing` are usernames in the queue, at a page, and at
a page that is being closed. `tx` is the transaction of `persist_scrape_results`:
each profile is looked up (`Find`), the owner of its name read (`Claim`) and made stale
(`Displace`, which writes to the row that was read, after a wait too), and its row flushed
(`LockRow`, `WriteName`); a statement waits for another transaction's row or name, or
loses a deadlock.

*Tools.* A run (`follow[o]`, `curate[o]`) works on its own copies of the files and
writes them back whole. `progress`, `exported` and `listed` are the files.
A run may be cut off before each write. `stored` is ig_profiles by the username a row
carries. Rows are found by the account's ig_id, so storing an account takes its row away
from the username it had before (`Stores`), be it the tool or a job that stores; superusers
create, rename and delete rows through the profile routes, and Instagram's accounts are
deleted and take free usernames (`World`, between any two steps of a run).

### Abstractions worth knowing

* XAUTOCLAIM's idle time is not modelled: an entry may be reclaimed any time. This
  is hardly more than the truth, as heartbeats do not refresh the idle time.
* Approximate MAXLEN may trim or not, oldest first, never below the limit.
* Attempts saturate at `MaxAttempts + 1`, beyond which the code sees no difference.
* `ClaimTerminalState` merges the read of the row with the claim script: they touch
  independent state, and rows only disappear while their job is being rolled back.
* A failing insert of the row has the effects of `CrashRequest`, except that the
  reservation is released; the model keeps it held, the worse case.
* A message with the wrong execution mode cannot occur: each queue has its producer.
* In `ScrapeWorker` a recommended job is an internal job created on its own; it has no
  row, no reservation and no deadline. `ApifyRunner` has how it comes about.
* `UsageQuota` follows one feature of one user; rows of others are independent.
* Dedupe keys (of notifications, of usernames) outlive a behaviour.
* Claiming a customer task and refreshing it is one step: nobody else touches a row
  that is being processed, except a change coalesced into it, which the step after sees.
* The rules of a policy count for different subjects or keys; the headers of an answer
  are left out but for Retry-After, and the promise of Retry-After adds the skew.
* What is read from a page is found, not found or failed. Labels, posts, reels and
  metrics are written under the profile's row and have no step of their own.
* A stored picture does not run out within a batch's behaviour. A deadlock is a
  transaction that waits for itself, through any number of others (`Deadlocked`).
* Only batches write to the table of `ProfileStore`: superusers' edits are left to the
  tools. There, which username an account had before is left open (`Stores`): any other
  may lose its row. What Instagram answers for a username carries that username.
* The files of the recommended tool list rows in the order of the input. Rows written
  by hand without a status are left out, and no code deletes them.
* Windows in which the code is known to fall short are *named*: history variables
  (`missed`, `skipped`, `overlapped`, `overtaken`, `stranded`, `crossed`, `misread`, `toggled`,
  `promoted`, `stolen`, `overlap`, `leaked`, `doubled`, `torn`, `raced`) remember that a behaviour
  went through one, and the properties say what holds outside. Each is set at the step of the code that opens the window, and nowhere else.
  For the tools a username whose row is gone is told from one that never had a row (`"removed"`
  in `stored`, until there is a row again).

## Runs

| Run | Module and cfg | Instance | Shows |
|---|---|---|---|
| two_faults | `MCScrapeWorker`, `TwoFaults.cfg` | 1 job, 2 workers, 2 requests, 1 attempt, at most two kinds of fault, once each | the worker's safety invariants; `ScrapeWorker` implements `JobOutcome` |
| recovery | `MCScrapeWorker`, `Recovery.cfg` | 2 jobs (1 recommended), 1 worker, stream of length 1, one of crash, dependency error, stall, expiry; fair | every message settles, an accepted completion is notified |
| terminal_is_final | `MCScrapeWorker`, `TerminalIsFinal.cfg` | no faults | counterexample, see Findings |
| accepted_lost | `MCScrapeWorker`, `AcceptedLost.cfg` | one handler failure, fair | counterexample, see Findings |
| usage_quota | `MCUsageQuota`, `UsageQuota.cfg` | 3 requests, 2 keys, 2 plans, 2 periods | counters, limit and charges |
| apify_runner | `MCApifyRunner`, `ApifyRunner.cfg` | 1 process with 2 slots, 1 user job and 1 recommended job, 2 usernames, 2 attempts, one crash or one dependency error | permits, leases, paid scrapes, dedupe keys |
| stripe_webhooks | `MCStripeBilling`, `StripeBilling.cfg` | 1 subscription (none or new at the start), 2 handlers, 3 events, 2 periods, 2 requests of administrators, one abort, failing fetch or failing call | access, notices, refunds, rows; rank, overrides and Stripe agree |
| customer_sync | `MCCustomerSync`, `CustomerSync.cfg` | 2 processes, 3 spellings of 2 addresses, 2 changes, 1 fault; fair | the last address arrives, tasks settle |
| rate_limit | `MCRateLimit`, `RateLimit.cfg` | 2 processes with clocks 1 apart, 2 clients behind one address, 2 windows or 1 bucket, time to 7, 3 requests, 1 failure | limits hold, Retry-After is enough |
| user_events | `MCUserEvents`, `UserEvents.cfg` | 2 job and 1 billing notification, stream of length 2, 2 connections at a time, 3 runs, 1 fault; fair | `UserEvents` implements `UserEventDelivery`; what is owed arrives |
| scrape_batch | `MCScrapeBatch`, `ScrapeBatch.cfg` | a browser batch with 2 pages and an Apify batch over the same 2 usernames in opposite orders, 2 accounts, any table, one failure or renaming | results, counters, stored rows, no standstill |
| scrape_tools | `MCScrapeTools`, `ScrapeTools.cfg` | 2 operators, 2 usernames recommending each other, batches of 1, limits 1 and 2, 2 faults; fair | progress is true, final stays final, everyone is decided |

Why these bounds are enough, run by run:

* *Queue.* Jobs interact only through the stream's order, trimming and
  the batch of a slot, which two jobs exercise; everything else is per job, so one job
  with two workers covers all races between an owner and a reclaimer. A third
  worker adds only another claimant of a lease that is taken. Two requests are
  needed for a retry to overtake the original. One attempt is enough for the bound to
  be reached. Each kind of fault strikes at most once; `AtMostTwoFaults` pairs them in
  all ways, except that a timeout comes alone: a worker that crashes while it waits
  leaves its request behind just so. `Recovery` needs progress after one fault
  only; the same with two workers and one job, and an instance with two attempts, have
  been explored too.
* *Apify runner.* Two slots are what shares a lease token; more processes are the
  subject of `ScrapeWorker`. `OneFault` keeps the kinds of fault apart; stopping
  and starting are not faults and are not bounded.
* *Quota.* Two requests under one key and one under another show both kinds of
  conflict, limits 2 and 3 with units 1 and 2 make requests fit alone and not
  together, and two periods let a reservation settle in a cycle that has been left.
* *Stripe.* The user starts with no subscription or with one whose rows are in step, so
  that three events are a purchase with its invoice and a refund, or a
  subscription with a renewal (two events) and a refund, or three changes; two
  handlers are the two processes. A second subscription comes only after the first has
  ended and multiplies the states; the module allows it. Two requests grant and
  withdraw, or race. `Bounded` keeps races between webhooks (without a request, two at a
  time, any order) apart from races of requests (with each other and with one
  webhook at a time, in order). With two requests Stripe sells a subscription and keeps
  the flag; with one it does everything. A request comes while nothing is being handled
  (`MayAsk`) and is overtaken by what happens from then on. Only with a request does the
  user turn the flag in Stripe's portal, and only an override makes it matter when a
  period ends. With requests what is cut short is a webhook between row and override.
* *Customer.* Two changes let a task be replaced, coalesced and overtaken; the
  `replayed` window takes three (out, back, out) and is not reached; nor is `reopened`,
  which the proof brought up. Safety has been
  explored with three changes and two faults (17 million states).
* *Rate limit.* The windows are 1 and 2 seconds, a second has 2 units and the
  clocks are 1 unit apart, so that a stretch across the end of a window, a refill
  that is not whole and an expiring TTL all occur before time 7. `OnePolicy`: keys of
  different policies are independent.
* *Events.* A stream of two and three notifications trims; two connections are the
  live one and the one being wound up; three runs let the number grow past both.
* *Batch.* A ring of two names is the shortest that cannot be renamed in order;
  two batches are the shortest deadlock. `OneEvent` allows a fault or a renaming.
  `OneScrapes`: batches meet in the table only, so they are scraped one after the other
  (without it 2.3 million states have been explored); transactions interleave freely. Three batches that
  wait for each other in a ring have been explored apart (450 thousand states).
* *Tools.* With batches of one each run is cut off between all of its writes, and
  two usernames that recommend each other make the list grow while it is read.
  A run is limited to two profiles and two prechecks, or to one of each.
  `OverlapOnce`: from the moment two runs overlap (`raced`) there are no faults and no rows
  taken away, and nothing after both have ended, as `FinalStaysFinal` and `EveryoneDecided` then
  allow anything (`DoneIsStored` does not; for it there is the theorem). Without overlap rows
  are taken away at any time. The inductive
  invariant of the proofs has also been explored for one operator with three usernames in
  batches of two and a fault (1.6 million states).

Symmetry is used where only safety is asked for. Deadlock checking is off: every job,
request and event ends, and budgets run out.

Properties, and the code behaviour each is about (the types of `RateLimit` and
`UserEvents` are proved and not part of a run):

* `NoJobSwallowed`: acks happen only after acceptance, expiry (or for recommended
  jobs execution).
* `OneExecutor`: the lease keeps reclaimers out while heartbeats arrive.
* `ExecutionsBounded`: crashes and redeliveries together stay within max attempts,
  as long as nothing was accepted and the hash has not expired.
* `DuplicateMeansNotified`: a completion answered as a duplicate had its
  notification.
* `ImplementsJobOutcome`: row, reservation and notification change only as promised;
  in particular a reservation is settled once, for a decided or withdrawn job, and a
  notification is sent once and after the decision.
* `AcceptedIsNotified`, `JobSettles`: liveness of queue and completion.
* `CountersMatch`, `NeverOversold`, `ChargedOnce`, `SettledForGood`: quota.
* `PermitInv`: no permit is lost or returned twice, however a task ends.
* `OneTaskPerJob`, `ScrapedOnce`: redelivery to a process that still works on the job.
* `KeyMeansQueued`: a claimed username is in a recommended job or about to be.
* `AccessInv`: a cycle is open only while its subscription gives access.
* `RefundSticks`, `RowFollowsStripe`: events out of order, late and again.
* `NoticesAreTrue`: a revocation is announced, a pause only while it lasts.
* `ProfileHolds`: nobody becomes superuser and ambassador, now or at the end of a
  period; "standard" leaves no override behind.
* `HandoverAgrees`: a pending override starts when its subscription's period ends,
  whatever webhooks do to the period, unless one is or has ended between the commit of the
  row and that of the override (`stranded`, until the next sync); between requests Stripe cancels the subscription
  of an ambassador-to-be and no other. The second half is about a user who bought one
  subscription, decided nothing in the portal and was never superuser, and holds while no
  request failed, crossed another or read rows that were out of step (`misread`).
* `EmailArrives`, `AttemptInv`, `TasksSettle`: the address at Stripe. `EmailArrives`
  names seven windows in which a change is lost.
* `WindowHolds`, `BucketHolds`, `RetryAfterIsEnough`, `PassedIsCharged`: limits over
  any stretch of true time, with clocks that differ.
* `OneConnection`, `ImplementsDelivery`, `OwedEventsArrive`: the connection of a tab.
* `CounterInv`: the owner is charged for the results told.
* `ReportedIsStored`, `AloneNeverFails`: what one transaction does to a table whose
  names lag behind Instagram's.
* `NeverStuck`: pages, workers and transactions do not wait for each other for good. It
  joins `SomeoneMoves`, that somebody waits for nobody or is the victim of a deadlock, with
  the check that who does so has a step to take.
* `ProgressIsTrue`: what the files call done has a row, and what a profile recommends
  has a row or is listed, wherever runs are cut off; unless the row was taken away since
  (`RowTakenAway`), and for the list unless a run was cut off between its writes (`torn`) or raced.
* `FinalStaysFinal`, `EveryoneDecided`: final statuses stay over any number of runs, and
  every username gets one.

### Fairness

* `ScrapeWorker`: weak fairness for each slot's own progress (polling, starting,
  executing, finishing), each request handler and each create request: they are
  asyncio tasks of running processes. Weak fairness for the end of a lease's TTL.
  Strong fairness for a pending entry being reclaimed: it grows idle and XAUTOCLAIM
  starts from the beginning of the list each time, so it cannot be passed over forever.
* `UserEvents`: a generator, a run of `connect()` and a timer go on by themselves.
  Nobody is assumed to publish, log in or load the page.
* `CustomerSync`: a request that was begun goes on; the supervisor of a process claims,
  sends and marks; a retry becomes due and a task of a dead process stale, as time
  passes. Processes come back after a crash.
* `ScrapeTools`: a run that was started goes on, and an operator starts another while
  there is work. The second half is an assumption about people, without which nothing
  can be said about a tool that is run by hand.
* The other modules claim safety only. `NeverStuck` of `ScrapeBatch` is the absence of
  a standstill; every step of a batch brings it nearer its end (`BatchesEnd` below), so
  with it every batch ends.
* Faults are nowhere fair.

### Findings

* `terminal_is_final`: `start_job` reads the state, and `write_running_state`
  (`worker_runtime.py:127`) overwrites it later without looking. Worker B polls a
  reclaimed message and reads `running`; A completes the job and releases its lease; B
  claims the lease, writes `running`, executes again, and its completion is accepted
  as new. The row of a job that was done becomes failed (or the reverse), while the
  owner is not told again. The README of the backend promises terminal dedupe.
* `accepted_lost`: when `complete_job` fails after the claim (`service.py:292`) and
  before the notification, the redelivered message is acked by `start_job` because
  the hash is terminal. The claim's `accepted_pending` answer exists for the repeated
  completion, but no worker sends one. The notification and the settlement of
  the reservation are lost.

Behaviour that contradicts no document but is worth knowing:

* Jobs: a job that completes before its id is attached to the reservation leaves the
  reservation held; a lost XADD reply makes a job run whose row is gone.
* Quota: a retry with a settled idempotency key works again free of charge; a request
  that dies keeps its units reserved until the cycle ends.
* Stripe: a record left pending by a crash is answered as processed when the event
  comes again (`skipped`); the refund of an old invoice revokes the access of a
  subscription whose row still carries it; rows follow the order of processing, not
  that of the events (`overtaken`). A webhook that ends after it has committed the row
  (`subscriptions.py:145`) and before the override (166) leaves the override at the
  end of the old period, and no code repairs it before the subscription's next event
  (`stranded`).
* Managed access: transitions are validated on reads, so crossed requests may make a
  superuser ambassador, or leave Stripe's flag out of step (`crossed`). Without any
  race, an override that was scheduled may have started while the row of the
  subscription still says active, until the cancellation's webhook is processed:
  "ambassador" set once more then adds a second override, and a later "standard"
  revokes only the youngest (`doubled`; TLC finds this with three requests). A
  subscription that is past due or paused is left running when an override is created.
  A user who resumes the subscription in the portal stays ambassador-to-be and goes on
  paying. Taking away the rank of superuser does not take back the cancellation.
* Customer: deletion of an account removes the customer at Stripe first; if the
  database then refuses, the account goes on without one. At checkout the row lock
  is held across the await of Stripe (`checkout.py:36`): a change of the address of
  the same user in the same process then blocks the event loop that has to receive
  Stripe's answer.
* Apify runner: a task whose lease has lapsed releases that of another task of its
  process, as both carry the same token (`stolen`).
* Batch: a page that fails to close counts its username twice, and the owner is
  billed for it (`doubled`); labels are matched by position, not by username
  (`analysis.py:294`); a browser is leaked when `start()` fails (`browser.py:107`).
* Tools: two runs on the same files write back the statuses they began with, and may
  do so for ever; a run of the recommended tool that is cut off between its two writes
  loses what it discovered, as the export already says done (`torn`). The status file
  says done of a username for good, also when its row has moved to the account's new
  username (`persistence.py:421`) or a superuser has deleted it: the tool does not scrape
  whoever has the username now.

## Proofs

`tlapm` checks the theorems of eight modules for every value of the constants that
satisfies the modules' assumptions. These say that bounds are natural numbers, sets of
kinds are parts of the sets they divide, and null values are none of the real ones;
beyond that they ask for finitely many tasks, processes and batches (`ApifyAssumption`,
`CustomerSyncAssumption`, `BatchAssumption`), one period at least (`StripeAssumption`), each username once
in the files of the tools (`CuratedAssumption`; `load_input_usernames` drops repetitions),
and what `RateLimitProofs` below needs. Each theorem rests on an inductive invariant that types,
shape and the property make up together; what makes it inductive is told here.

* `ScrapeWorkerProofs`
  * `TypeCorrect`: `Spec => []TypeOK`. The induction needs more than types: a busy
    slot has a job, a busy request has a job, a waiting slot waits for a live request
    about its own job, and only finitely many entries are enqueued (`TypeInv`).
  * `NothingSwallowed`: `Spec => []NoJobSwallowed`. A worker acks because of what it
    has read or been told earlier, so the invariant `AckInv` says that a
    terminal hash belongs to an accepted job, that a request past its claim is about
    one, and that a slot about to ack has a job that was accepted, expired or internal.
    Acceptances and expiries are never taken back, so the reason stays valid.
  * `ExecutorsExclude`: `Spec => []OneExecutor` for one slot per worker id
    (`OneSlotPerWorker`), as in the standalone worker. The invariant `LeaseInv`: while no
    lease has stalled, who renews a lease holds it. For two slots under one id it is
    false: they cannot tell their leases apart.
  * `DuplicatesNotified` (`NotifiedInv`): a request past the publishing step leaves a
    notification behind, and notifications stay.
  * `OutcomesImplemented`: `Spec => ImplementsJobOutcome`, every step being one of
    `JobOutcome` or a stutter. `CreationInv` says what row and reservation are at
    each point of the request that creates a job, `DecidedCalls` that a
    request past the claim is about a job with a row, which says queued no longer once it
    has been projected.
  * `ExecutionsLimited`: `Spec => []ExecutionsBounded`. Executions and the slots that have
    counted an attempt but not executed it together fit into the attempts
    counted (`Counted`), as long as nothing was accepted or has expired.
* `ApifyRunnerProofs`
  * `Typed`, and `PermitsKept`: tasks are counted against the permits taken
    (`PermitsAccounted`); a stopped process has no task, and a task has one message
    (`TaskShape`).
  * `KeysMeanQueued`: a task claims usernames only between its scrape and the last batch it
    enqueues, and a recommended job has usernames only once it is enqueued (`ClaimShape`).
  * `StoredOnce` (`OnceInv`): a task about to scrape has looked for stored
    profiles, and nobody has stored them since, or two tasks had the job at a time.
  * `OneTask` (`LeaseInv`): a task that renews has the lease, and no other task with its token
    renews it, unless a heartbeat stalled or the lease was released from under it.
* `UsageQuotaProofs`
  * `TypeCorrect`, `CountersAlwaysMatch`, `QuotaNeverOversold`,
    `EveryReservationChargedOnce`. The inductive invariant `IInv` joins types and the
    three properties with: the plan a row carries is one it was granted
    (`PlanInv`), open reservations have consumed nothing (`OpenInv`), and only
    finitely many units are held or consumed (`FiniteInv`). Sums over keys are cardinalities of sets of pairs
    (`Units`), for which `TotalMoves` says how a sum changes when one key changes.
    That `reserved_count` never drops below a reservation being settled follows:
    the `max(0, ...)` of the code never cuts.
  * `SettledStays`: no step changes a settled reservation, from the same invariant.
* `ManagedAccessProofs`, about webhooks and requests together
  * `Shaped`: types, and that what is written or read somewhere is of a subscription that
    was bought (`Shape`). All others build on it.
  * `AccessAgrees`, `RefundsStick` (`AccessIInv`): as long as handlers do not overlap,
    what one commits was read from what is there (`Agree`), and only a refund that sticks
    has revoked a row (`RevokedIsSticky`).
  * `NoticesTrue` (`NoticesIInv`): a revocation or a pause is announced, or the handler that
    wrote the row is about to.
  * `RowFollows` (`RowIInv`): what handlers carry is a version that Stripe's log
    has (`HandlerVersions`), the row is the version applied last, and what was answered has
    been applied (`AppliedInv`).
  * `ProfilesHold` (`ProfileIInv`): what a request was allowed to do it still is when it does
    it (`RankSound`), and the overrides it has read are all there are (`ReadSound`).
  * `HandoversAgree` (`HandoverIInv`): one override waits at most, and what a
    request has read of the period is what the row says (`PendingIInv`). A handler about
    to move the override has written the row it goes by (`OverrideWritten`), so that it
    closes the gap it has opened. Between the
    call to Stripe and the commit Stripe has been told what the request is about to
    write; one that asked nothing had nothing to ask (`CancelParts`).
* `CustomerSyncProofs`
  * `TypesHold`: no history queues more tasks than there were changes (`Budget`).
  * `AttemptsExclude` (`Held`): a task that is attempted is processing and not stale.
  * `EmailsArrive` (`MailInv`): only the last task is open; it has the user's address once no
    change is on its way; if it succeeded Stripe has its address; and Stripe has
    handled what an attempt is about to call done. With `Quiet` that is `EmailArrives`.
* `RateLimitProofs`
  * `TypeCorrect`, and `PassedCharged` (`PassedInv`: what a request has been charged so
    far are the rules before its next one).
  * `WindowCorrect`, `BucketCorrect`: the limits, for any clocks within the skew,
    rules and times. `ChargeInv` orders the history. `WindowInv`: a request younger
    than the window less the skew is in the sorted set and the set outlives it, so
    no process has evicted it, nor Redis the key. `BucketInv`: what a bucket let pass
    since any request, with what it holds beyond its capacity, has been refilled since,
    in the scaled integers of the script; and its key outlives a full refill. Here the
    assumptions come in: the skew is within the buffer of the TTL, and the period a
    multiple of the tokens refilled in it. All policies of the code satisfy the second.
  * `RetryAfterSuffices`: a refused request whose rule has charged no other meanwhile
    has been told long enough (`WaitInv`); a window never holds more than it lets
    pass (`FullInv`), so that when its oldest request is gone there is room.
* `UserEventsProofs`
  * `TypeCorrect`, and `OneConnectionCorrect` (`Single`: a live run of `connect()`
    excludes another and the timer, belongs to the session and carries its `runId`).
  * `Refines`: `Spec => ImplementsDelivery`. `Promise` says that the cursor is the last entry
    received and what is owed comes after it (`Claims`), and that for a live run what was
    read is on its way in order, without a gap, and after all that was told (`Pipe`).
    From it `RefinesStep` maps each step to `Publish`, `Deliver`, `Forget` or a stutter.
* `ScrapingProofs`, about batches and about the command line tools
  * `CountersCorrect` (`CountInv`): each username of a batch is in its queue, at a page or has
    a result (`Shape`), and the counters are those of the results (`Counted`). What is left
    of a queue when usernames leave it is `KeptFacts`, from the rank of an
    element among those that stay.
  * `ReportsStored`, `AloneSucceeds` (`StoreInv`): what a transaction has yet to write and has
    written are the results reported (`TodoTrue`), rows are written for nothing
    else (`WritesTrue`), and a transaction that is alone finds what it has read, be it its own
    row or the owner of a name, and frees each name before it takes it (`Alone`).
  * `BatchesGoOn`: `Spec => []SomeoneMoves`, for any number of batches. Among finitely many
    transactions that all wait, take one that reaches the fewest others by waiting
    (`Reach`). Those it waits for reach no fewer, so they reach themselves: one of them is
    in a ring and is failed (`SomeVictim`).
  * `BatchesEnd` (`EndInv`): a batch has so many stages left, and in its stage so many
    credentials, pages or statements (five for each profile) (`StagesLeft`, `StepsLeft`); each of its steps lowers
    these, lexicographically, and the steps of others leave them alone (`AllEnd`). The
    numbers are natural (`StepsCount`), so a batch takes finitely many steps. Together with
    `SomeoneMoves` that is termination, but for the temporal argument itself.
  * `ProgressTrue`: `ToolsSpec => []ProgressIsTrue`. The files are true because the copies
    that replace them are: what a run is about to write as done is stored already
    (`CopiesTrue`), which holds for runs that race as well. A username that once had a row has
    one or had it taken away, whoever stores, edits or deletes (`WorldStep`, `PersistsFacts`). What was discovered needs more,
    since the list is replaced as a whole (`RunsSound`): while nothing has raced, a run is
    alone, its copies are the files but for the batch at hand, its list has every source the
    file has, and what is left to scrape is not final.
  * `FinalStays`: `ToolsSpec => FinalStaysFinal`, from the same invariant. A username is in
    the rest of a run once at most, as candidate or to be scraped (`FollowShape`), so the
    status written for a batch is not overwritten by the next (`BatchFacts`).

Proving has corrected the models where no run had gone wrong: a task of the
Apify runner that is cancelled in `finish_job` may release the lease of another, as one
that ends by itself may (`stolen`); a repeated attempt
can open a task of the customer sync again (`reopened`); three transactions that wait in
a ring blocked each other for good when only pairs were looked for (`Deadlocked`); and for several
subscriptions or a "standard" read out of step Stripe's flag need not agree with the
overrides (the conditions of `HandoverAgrees`).

Only model-checked are the liveness properties (`AcceptedIsNotified`, `JobSettles`,
`TasksSettle`, `OwedEventsArrive`, `EveryoneDecided`) and `NeverStuck`, which is about
ENABLED: both are out of the prover's reach (`SomeoneMoves`, the half of `NeverStuck`
without ENABLED, is a theorem). Every other property of the passing runs is a theorem.

## Plan

1. Done: job queue, completion, worker and Apify runner; usage quota; Stripe and managed
   access; customer sync; rate limiting; user events; batches and stored profiles;
   command line tools; the proofs above.
2. `BillableJob`: several create requests under one idempotency key, composing
   `UsageQuota` with job creation.

## Not modelled

* Several jobs under one reservation: a retry of a create request with the same
  Idempotency-Key. `UsageQuota` has the reservation's side of it; the composition is planned.
* The notices of an upcoming invoice or the end of a trial: they touch no subscription.
* A managed cycle lasts a month; the next month's is a cycle like it. A user who is created
  with a profile or rank has no subscription yet and goes through the same function.
* Reports, OpenAI and brand intelligence: rendering and calls to services. They reserve
  and settle quota the way `UsageQuota` says. Their size is text, schemas and prompts.
* Parsers, metrics, navigation and collection of pages: functions of what Instagram
  answers, without state between calls; here a choice of outcomes.
* The dependency status and health routes (`resilience.py`): shown, not acted on, except
  that a supervisor starts its runner again, which `ApifyRunner` has.
* Login, accounts, creator history and the other CRUD routes: one transaction each.
* The frontend's views; the `validate_ig_v2_*.py` scripts, which try the scraper
  by hand against Instagram; migrations.

These are most of the repository's lines, so the map covers a small share of
them: the modules follow the lines that decide something between two steps.
