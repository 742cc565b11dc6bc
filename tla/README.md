# Verification of smrt-saas-starter

TLA+ models of the SaaS starter's server and worker, the TLC configurations that
check them on small instances, and TLAPS proofs for every size. Each module is
translated from the source; `PROJECT.json` names, for every definition, the lines
it stands for. Run inside this directory:

    tlc -workers 2 -config ReportOperationsCore.cfg MCReportOperations.tla
    tlapm ReportOperations_proofs.tla

## The system

The starter is a SvelteKit web application (`apps/web`), a worker process
(`apps/worker`), a package of shared models and services
(`packages/app-objects`), UI packages and mobile shells. Web and worker share one
PostgreSQL database and nothing else; jobs travel through the framework's table
`_smrt_jobs`. Stripe calls the web application back with webhooks.

| Component | State | Operations | What is hard |
| --- | --- | --- | --- |
| Report operations (`report-operations.ts`, `report-operation-runtime.ts`, `ReportOperation.ts`) | `starter_report_operations`, `_smrt_jobs`, the framework's idempotency records | create, approve, decline, cancel, read, enqueue, deferred effect, reconcile | retries after a lost answer, a commit followed by an enqueue, redelivery, lease expiry, crash between effect and bookkeeping, revoked authority |
| Subscription sync (`subscription-sync.ts`) | `_smrt_tenant_subscriptions` with event ids in `metadata.stripe` | one handler per webhook | events lost, doubled, reordered, two in one second; two handlers at once |
| Maintenance jobs (`jobs.ts`) | the same rows, usage counters, threshold evaluations | reconcile subscriptions, audit usage | reads, calls Stripe, then writes what it read; pages over rows that change |
| Worker runtime (`smrt-jobs.ts`) | schedules, runners, registrations | seed schedules, start, stop, run once, find the next run | two workers starting, shutdown order, events against polling |
| Accounts and onboarding (`accounts.ts`, `access-requests.ts`, `invitations.ts`) | users, tenants, memberships, invitations | request and verify a link, sign in, onboard, invite, redeem, revoke, graduate | check-then-insert under read committed, whole-row saves, unique keys |
| Profile identity (`profile-identity-core.ts`) | profiles and their link to users | ensure a profile | one profile per e-mail key under concurrent sign-ins |
| Report refresh and export (`report-actions.ts`) | the materialised report | refresh, page through, export | pages of two different snapshots |
| Agent chat, MCP tools and usage (`agent-chat.ts`, `mcp.ts`, `usage.ts`) | sessions, messages, usage counters | send a message, run a tool | quota checked first, counted later |
| Rate limiter, billing provider, memoised services (`rate-limit.ts`, `billing.ts`, `hooks.server.ts`) | a capped map, promises in memory | hit, get/set, memoise | eviction at the cap, reset while awaited, a failure that is remembered |
| Report panel and browser tools (`ReportOperations.svelte`, `shell-request-lifetime.ts`, `operation-tool.ts`) | the operations shown, ids of failed creations, requests under way | refresh, create, run a tool, leave | answers after a switch of tenant or after the page is left |
| Authorisation, sessions, tenants (`hooks.server.ts`, `authz.ts`, `tenancy.ts`, `session.ts`) | sessions, cookies, the context of a request | identify, resolve the tenant, require a permission, switch, sign in and out | what a hook has read and a command uses; answers out of order |
| Mobile authentication (`mobile-auth.ts`) | sessions | start, complete, bootstrap, destroy | session stored before membership is checked; several identity providers |
| Settings, storage, other pages, scripts, mobile apps | none of their own, or constant | lookups, presentation, tooling | not modelled |

What makes each correct: an operation runs once, with consent, and its result and
status never part; a subscription row belongs to its tenant and tells the newest
thing Stripe said; one set of schedules exists and the runners stop clean; one
user, tenant and subscription per sign-up, and an invitation admits no more than
it allows; a user has one profile; an export is one snapshot; a tenant's quota and
a client's window are respected up to a stated excess; a page shows and an agent is told
what belongs to the tenant it asked for; a request acts under a membership that exists
when it acts.

## Modules

| Module | Models |
| --- | --- |
| `ReportOperations` | the commands, the worker effect, the status reads; queue and idempotency store as external parts |
| `ReportOperationContract` | what the users are promised, with no jobs, leases or requests in it |
| `ReportOperations_proofs` | the inductive invariant, the safety theorems, the refinement |
| `SubscriptionSync` | webhook handler, reconciliation job, and Stripe as the environment |
| `SubscriptionSync_proofs` | the inductive invariants and the safety theorems |
| `Onboarding` | sign-up, sign-in, invitations of owners and members, graduation, and the users, tenants and Persons they write |
| `Onboarding_proofs` | what every request may count on, whatever the others do, and the theorems |
| `ReportExport` | refreshing the materialised report, exporting it to a file, downloading the file |
| `ReportExport_proofs` | the inductive invariant and the safety theorems |
| `WorkerRuntime` | the worker processes: seeding the schedules, start, stop, one-shot runs, job events |
| `CronSchedule` | `getNextCronDate`: the next run of a schedule |
| `Worker_proofs` | the theorems of both: what each process may count on, and the next run for every calendar |
| `TenantUsage` | chat messages, tool calls, quotas and their windows, the audit of the thresholds |
| `TenantWorkspace_proofs` | the theorems of `TenantUsage` and `ShellPage` |
| `WebProcess` | what a web process keeps in memory: rate limiter, billing provider, memos |
| `BrowserPage` | the panel and the agent's tools of a page, with a server that switches tenants |
| `Authority` | who a request acts as and for which tenant: hooks, permissions, sessions, switch of tenant, mobile sign-in |
| `Authority_proofs` | who holds which session, what a request knows, and the theorems |
| `WebStartup` | containers and checks that migrate, seed, verify and clean up one database |
| `ProductionRun` | runs of the release gate on one Docker host |
| `WebApplication` | the four together, for one run |
| `WebApplication_proofs` | their invariants, part by part, and the theorems |
| `ShellPage` | the shell's tools for an agent in the browser, their endpoints, and the chat in the dock |
| `TenantWorkspace` | `TenantUsage` and `ShellPage` together |

`MC*` modules hold what a `.cfg` cannot express (functions as constant values, symmetry).

### ReportOperations

A step is one database transaction, or one statement outside any. What a request
or a handler remembers between two transactions is in `call`, `delivery` and
`view`; everything else may happen in between, and the process may die there
(`AbandonCall`, `WorkerCrash`). The effect's transaction is split in two
(`BeginEffect`, `CommitEffect`), because authority is read inside it and may be
revoked before it commits; while it is open it holds the row lock (`RowFree`).

* `row` is the table, one record per request id: creation takes an advisory lock
  on tenant and request id, so the id names the operation.
* `jobs` is the queue. `Claim`, `LeaseExpires`, `AckJob` are the task runner's,
  modelled from the options the code passes (`maxAttempts: 3`) and from the
  at-least-once delivery it prepares for.
* `reservation` is the idempotency store of the action adapter: `none`,
  `reserved` by a delivery, `completed` with an outcome that later deliveries replay.
* The payload fingerprint is SHA-256 over id, owner, kind and query; it is taken as injective.
* Several tenants share nothing but the job table; one tenant is modelled.

### SubscriptionSync

`Receive` is the unlocked read that finds whose lock to take; `Decide` takes the
advisory lock, reads the row again and runs every check of
`applyStripeSubscriptionUpdate`; `Write` is the upsert and the commit, with every
column computed from what `Decide` read. `ListRow`, `RetrieveStatus` and
`UpdateRow` are one row of the reconciliation's page: the update is by row id,
without the lock, with metadata as it was listed. `event` is what Stripe has
emitted; delivering an event does not remove it, so it can be lost, doubled and
reordered. `applied` is a history variable.

Of the columns Stripe dictates the model has one of each kind: `status`, which every event
carries; `plan`, which a subscription event may not name (`resolvePlan` keeps the row's);
and `period`, for the columns an event may leave out, each of which the code takes from the
event or else from the row (billing period, trial, cancellation). `Contents` says what events
may carry. The values of `plan` and `period` are named after the events that brought them. The constants' assumption says that
Stripe bills a customer for one tenant only: the starter gives Stripe a customer
id only from the tenant's own row.

### Onboarding

A flow is one request: a link (`RequestLink`, `OpenLink`), an invited sign-up, a
member invitation, a graduation, a revocation. `onboardTenant` is one transaction:
`FindUser`, `ChooseSlug`, `UpsertTenant`, `UpsertUser`, `Redeem`, `Commit` are its
statements. Each reads what has committed; writes appear at `Commit`. From its upsert
to its end a transaction keeps the slug and the address, and others that need them
wait (`SlugFree`, `EmailFree`). `UpsertUser` stands for the user, its Person, the
membership and the subscription, between which nothing shared is read.

What PostgreSQL and the framework do is assumed: `upsert` keeps the id of a row it
meets and overwrites the other columns, and `memberships` has foreign keys to users
and tenants. Without the foreign keys `FoundersAreAtHome` fails for the second of two
founders with one slug, whose membership would name no tenant. Ids are named after
the flow that generates them. `person` may contain addresses from the start:
other services create Persons too.

`inviteTenantMember` has no transaction, so each of its statements is an action.
`AccessRequestService` is external; `Graduate` is its transaction with what the
starter adds to it.

### ReportExport

`export[x].pc` walks through `executeActivityReportExport`: `capture` (the count and
`asOf`, in a transaction of its own), `bound` to `asserted` (what `applyReportExport`
asks of its host: authorise, assert, audit), `verify` and `verified` (the check before
rendering), `render` and `pages` (the render transaction, which sees the report of its
first query: `view`), `persist` and `persisting` (the check at the persistence boundary),
`store`. Every check is one step, and roles and report may change between any two.
A row is the materialisation it belongs to and its place there, so that a doubled, a
missing or a foreign row shows. `banned` and `outdated` are history variables.

External and assumed: a rebuild replaces the rows of a tenant and their `asOf` in one
transaction; no two rebuilds of a tenant have the same `asOf`; the order of rows has no
ties that differ between pages (the framework's tiebreaker); a report with more rows than
`EXPORT_MAX_ROWS` is not executed as a stream; the asset store is atomic. Owner and admin
have the same permissions here, so one set `member` serves. Requests share only the
report and the roles, so one export with two principals is enough.

The check and the store are two steps: a role lost between them does not stop the store,
so `banned` and `outdated` leave the last window (`persisting` and `store`) out.
`expiresAt` is stored and never read in `src/`; whether an expired file is
refused is up to the report package.

### WorkerRuntime

`proc[p]` is a process: where it is (`pc`, one value per await), and what it holds. The
runtime of a worker is `db`, the registrations of the report runtimes `handlers`, the two
runners `scheduler` and `runner`; `outer` is the second runtime that
`runQueuedMaintenanceJobsOnce` opens around the first. `Throw` is the catch block of
`startSmrtWorkerRuntime`, `StopComponents` one of the three tries of
`stopSmrtWorkerRuntimeComponents`; a component whose stop fails stays as it is. `RegistrationFails` throws before the try
begins, so nothing releases the database, or the handler registered first (`abandoned`). A process
that leaves, or dies, loses its events (`news`), and its running jobs have no owner until a
live runner recovers them.

A schedule row is what a definition says of it (`def`: cron, timeout, arguments and the
columns the seeding resets) and `running_count`. The slug of a row is made of its method, and
the database keeps one row of a slug: the other tables of the repository are upserted on
that key. So the second of two inserts fails, the worker throws, and the deployment starts
it again. `next_run` is `CronSchedule`'s. `skew` is a history variable.

Two things the model shows that the properties state as they are: a start with a changed
definition puts back the `running_count` it listed, so two jobs of one schedule can be under
way, or, when it puts back a higher one, the schedule waits for a job that has ended; and a
worker with the agent queue and no scheduler completes scheduled jobs without counting them
down (`Report`). Whether the framework's schedule runner repairs counts is not visible here.

### CronSchedule

The loop of `getNextCronDate`, a minute a step. A field of an expression is the set of its
parts, and a part what is left of it after parsing; expressions that do not parse match
nothing and are left out. `Denoted` and `StandardDate` are the reference: what standard cron
means. `ReadsLess` names the expressions whose dates the code reads as fewer: both day
fields restricted (the code wants both to match, cron either), a value with a step, and a
range that ends in 7. Local time without changes of clock is assumed.

### TenantUsage

`req[r].pc` walks through `sendTenantChatMessage` and `callToolForChat`, or, for a call over
MCP, through `executeRuntimeToolForMembership`; each value is an await. `usage` is the
meter's table, a record for each use of a metric with its window, and `Used` counts those that
lie in a window, as the framework's meter does. `peak` is a history variable: the most requests that were between the check of
a metric and its count at once. It is by how much `QuotaHolds` lets a limit be
exceeded: the code reads, compares and counts in three steps, without a lock.

`session` is the list of tools of the member's agent session, which every message
overwrites if it differs from what it has computed, or if the prompt does. `GET /api/chat`
does the same to the session without the quota check and then only reads; a message that goes no
further than `SaveSession` stands for it. A text is the set of the phrases it has,
and `SelectTool` finds the first rule that it meets; two messages begun under different
grants or plans can fail each other (`AnnounceRejected`). The audit is independent of the
rest and shares the module's constants only; `steady` is the set of tenants whose
subscription was live all the while.

### WebProcess and BrowserPage

JavaScript runs a handler up to its next await without interruption, so that is a step.
`use` says which part is looked at: the parts share nothing, and one run takes them all.
`buckets` is the map of the limiter, buckets of keys and which were inserted before which,
`now` its clock; `admitted`, `told` and `wasteful` are history. The three memos (`billing.ts`, the session service of
`mobile-auth.ts`, the demo profile of the hooks) are one: a promise that is remembered, and
`use` says how a failure is dealt with. `since` is a history variable: the promises that no set
and no reset has overtaken. `LimiterIsSound` allows a key twice its limit less
one in a stretch of a window's length, which fixed windows have at their border.

In `BrowserPage` a request is sent, dealt with by the server and answered, in three steps; `fetch[f]`
is one under way, of the panel (`refresh`, `create`) or of an agent's tool (`submit`,
`switch`). The server's session changes its tenant in the middle step, and the page learns of
it with its next load (`Reload`). `page.life` counts mounts. `Answer` is the `run` of
`shell-request-lifetime.ts`, `Leave` its `dispose` and the panel's `onDestroy`.

### Authority

A request walks through the hooks (`Identify`, `Reconcile`) and one handler; a step ends
where the code awaits the database or the provider. `jar` and `token` are what the clients
hold: a request is sent with what is there, and an answer replaces it when it arrives, in
any order. `context` is the tenant context entered by the hooks, `tenant` what
`locals.tenantId` says, `seen` the role that the hook has found, which no handler uses.
`deployment` is the configuration: demo fallback, trusted header, identity providers, their
redirects. `inner` is a choice the framework makes and the starter cannot be read for: whether the session's
tenant context is entered within the resolved one. `settled` and `after` are history, for
`TenantIsRight`: the tenant a browser was last told it is in, unless two requests that change it
have crossed.

`RoleOf` stands for the query of `findMembershipRows` with all it joins: a user whose
profile is in doubt has no membership.

### WebStartup, ProductionRun and WebApplication

`script[p]` is a container's entry point or a run of `db:smoke`. Neither seed nor check is a
transaction, so each statement that matters is a step (`SeedSteps`, `Deletes`) and every script
may fail or be killed between two. A row of `row` stands for the rows of one loop of the
seed; of the identities only those with the address of the demo's owner are kept, since the
seed refuses some of them. A fixture of the check is the set of its rows that are there; it is
made, verified and deleted, and on an error only deleted (`Fails`, the `finally`s). The
setup, chosen in the initial state, says which scripts run, on which schema, whether people
use the application meanwhile and whether rows are there that the demo does not expect.
Fairness: a container goes on and is started again when it exits, which is Kubernetes'
restart policy; a check is started once and owes nothing. Checks are taken one after
the other, as CI runs them, each against a database of its job.

`stage[r]` is a run of `run-production-e2e.mjs`; `thing` what it has made on the host,
`tagged` what the tags of images name, `version` what the web containers were started from.
A command of Docker may fail before or after it has done its work, containers exit, an
inspection fails and counts as absence. Everything of Docker is external.

`WebApplication` puts these two and `BrowserPage` (with `WebProcess`) side by side; they share
no state, so the runs of the checker look at one at a time.

### ShellPage and TenantWorkspace

`shown` is what the page shows, `sessionTenant` what the endpoints act in; they part as soon as
another tab, or a tool, has switched, and meet again when a load arrives (`going`). The keys
of `+layout.svelte` and `WebMcpShellContext.svelte` make `Arrive` dispose of the bridge when the
tenant or the path has changed, and of the acknowledgement when the tenant has; the
component of the dock has no key and outlives both. A call of a tool is sent, served or
failed, and answered; `acted` is what the server has done by then, also for a call that
is answered "cancelled". The two forms are saved only for a tenant whose plan has their feature
(`Prompting`, `Translating`): the page looks at the plan of the tenant it shows, the action at
the session's, and a refusal of the action comes with status 200 (`fail` under
`x-sveltekit-action`), so that a tool must read the result. `owed`, `drafted` and `failures` are history. `ShellIsSound` promises
what the code can keep: a message is stored once, and once more for each failure the
user has seen (`stored` counts how often, and keeps the tenants it is stored in), because the endpoint has no id that would tell a repetition.

`TenantWorkspace` puts the module beside the server's side of chats and calls. The dock's
`ServeDock` is the whole chat of `TenantUsage`, whose failures after the message was stored
are `FailDock`'s.

## Runs

| Run | Module, bounds | Shows |
| --- | --- | --- |
| `operations_core` | 1 operation, 2 users, 2 requests, 2 deliveries, 2 jobs, 2 attempts | safety and refinement below; two requests and two deliveries are enough for every pair of overlapping actors, two jobs for a double enqueue, two attempts for a retry and an exhausted job |
| `operations_progress` | 1 user, 1 request, 2 deliveries, 1 reader, fairness | an end that is shown is stored; an operation with a job settles |
| `subscription_webhooks` | 1 tenant, 2 subscriptions, 3 events with any content, 2 webhooks, 2 seconds, no reconciliation | each column from the latest event that carries it, no replay; three events are one that is kept, one that overtakes it and one that comes late |
| `subscription_tenants` | 2 tenants, 3 events in one second, each with plan and period, 1 webhook, 1 job, fairness | no row crosses tenants; reconciliation repairs whatever happened; one second is the worst case, since the timestamp then rejects nothing |
| `onboarding_core` | 3 flows, 2 addresses, 1 name, 2 slugs, 1 invitation | safety below; three flows let two race while a third has committed, invites or revokes |
| `onboarding_progress` | 3 flows, 1 slug, crashes, fairness | nothing half-founded stays, and every request ends |
| `export_core` | 1 export, 2 principals, 2 downloads, 2 refresh jobs, pages of 2, reports of up to 4 rows with a limit of 3 | the properties of `ReportExport`; pages of 2 and 3 rows give an empty report, a last page that is full, one that is not, and a report beyond the limit |
| `worker_core` | 1 method, 2 jobs of 2 attempts, and five deployments: two runners of different definitions; a runner with a listener; a runner with a one-shot run, with an enqueuing process, alone with report jobs; one failure each, none with two runners; fairness | the properties of `WorkerRuntime`; two jobs are enough for two of one schedule, one failure for every step to fail once |
| `cron` | a calendar of hours of 3 minutes, days of 2 hours, and months of one to three days; every part of every field, and pairs | the next run against standard cron's |
| `usage_core` | 3 chats, or 2 chats, or a chat and a call with one failure or change of plan or role; 3 texts, 2 plans, 2 roles, days 0 to 2 with months of 2, limits 1 and 2; 4 tenants in pages of 2 with 2 changes; 2 tenants, one a customer whose plan has the features of both forms, 2 calls of tools or 2 requests of the dock, 2 messages, 2 failures, aborts, switches or closings | the properties of `TenantUsage` and `ShellPage`; two calls are one and the one that moves the page under it, two slips a message stored twice and failed, two requests a message and a load; three chats exceed a limit by two, three days cross a day and a month |
| `web_process` | 2 clients, 1 address, room for 2 buckets, windows of 3 in 8 units of time; 2 requests, 4 promises, 2 failures; 2 tenants, 3 requests of the page, 2 ids, 2 failures, aborts, departures or switches; nine setups of a database: 2 containers, 2 checks or one of each, on an empty, a foreign or a complete schema, with people about or not, 2 failures or kills; six of a release: one run with 3 mishaps, two that share a tag, names that are taken; fairness | the properties of `WebProcess`, `BrowserPage`, `WebStartup` and `ProductionRun`; eight units hold two windows and their border, three requests a command, its successor and a tool, two kills a script killed and its successor killed again, three mishaps a command, and the inspections of a container and its network |
| `authority` | 2 users, one the demo's owner, 2 tenants, 2 sessions, 1 browser or device, 3 requests of which 2 at once, 1 change of a role or expiry, 4 deployments | the properties of `Authority`; three requests let one that is under way cross two others, four deployments have every setting once on and once off |

Every property of a passing run has a mutant: a definition replaced by the form a
plausible bug would give it (`PROJECT.json`, "mutants"), under which the run fails.
Mutant operators stand next to what they change and say so.

Deadlock is checked in the runs of `ReportOperations`, `Onboarding` and `WorkerRuntime`,
where someone can always act. `SubscriptionSync` may stop: after Stripe's last event, when every webhook is
answered and no row names a subscription, nothing is left to do. So may
`ReportExport`, `TenantUsage` and `Authority`, whose requests each end once, and
`CronSchedule`, whose search ends. `WebProcess` stops when its clock has reached
`LastTime`.

### Bounds

`MaxAttempts`, `MaxVersion` (changes of the live report), `MaxSecond` (Stripe's
clock) and `RecentCap` (20 in the code) stand in guards or in `Redeliverable` and
`Newest`; `Tries` (20 in the code) are the slugs tried for a name; `MaxRefresh`,
`MaxSize`, `MaxRows` (1000 in the code) and `PageLimit` are `ReportExport`'s; `Faults` are the
steps that may fail in `WebProcess`, and `upsets` of a deployment or a situation those in
`WorkerRuntime` and `TenantUsage`; `Horizon` is the year that `getNextCronDate` searches, `LastDay` and
`LastTime` are where the clocks of `TenantUsage` and `WebProcess` stop; `Changes` bounds what
others do to roles and sessions in `Authority`, `Concurrent` its requests under way; `Upsets` are
the failures, aborts, departures and switches of `BrowserPage`. The theorems hold for all
values of the constants they mention.

### Fairness

`JobbedOperationSettles` assumes that the task runner claims pending jobs,
recovers expired leases and keeps running a handler it started: it polls in a
loop (`smrt-jobs.ts`, `startSmrtWorkerRuntime`). It assumes nothing of users,
requests or memberships: a handler that stays refused fails its attempts and the
job ends. `EventuallyAligned` assumes that a webhook request ends, that the
scheduled job keeps visiting every row that names a subscription (the keyset page
covers all of them), and that its calls succeed infinitely often whenever they are
tried infinitely often (strong fairness, because `FailRow` may always
intervene). Its hypothesis `StripeGivesUp` is Stripe's retry limit.
`EveryFlowEnds` assumes that a request of `Onboarding` that can go on does: PostgreSQL ends a
transaction or lets its successor in. `ProcessesGetThere` assumes that a worker's awaits come
back and that a live runner goes on with its jobs; `DemoRecovers` that a creation ends, one way
or the other, and that requests keep coming; `ContainersComeUp` that a container's start
script goes on as long as its machine is up. `TenantUsage`, `ReportExport`, `CronSchedule` and
`Authority` state no liveness and assume no fairness.

## What the models show of the code

Facts the models contain and the properties state as they are: unless a comment is quoted,
no test or document of the repository promises otherwise, or the framework decides:

* `jobs.ts:412`: reconciliation overwrites the remembered event ids with what it read before
  its call to Stripe, so that an event redelivered afterwards passes the check of
  `subscription-sync.ts:467-471` and applies twice; `AppliedOnce` is therefore checked of
  webhooks alone. By the same unlocked write by row id, the status of a subscription that
  a checkout has replaced meanwhile lands in the row, until the next cycle (`EventuallyAligned`).
* `subscription-sync.ts:635-637` says of the remembered ids that "older ids fall off and are
  instead caught by the timestamp check". That check is strict, so it catches none of the second
  the row is at: with `RecentCap` below the events of one second, TLC finds a delivery applied
  twice. The run gives every id a place; the theorem says that up to `RecentCap` events a
  second are safe.
* `subscription-sync.ts:158-178` and `430`: what an event leaves out stays as it was, also
  when the event is of another subscription than the row's. After a checkout that replaces a
  subscription, the row shows the new one with the period of the old one, until an event or
  a reconciliation brings the new period; `ShowsALatestEvent` says of each column whose it is.
* `accounts.ts:316`, the second of two racing sign-up links: the user upsert names
  `(slug, context)` as its conflict target and the slug is a hash of the address, so it meets
  the row of the first link instead of raising the unique violation that
  `accounts.ts:732-735` expects; the profile is then sought under an id that is not there,
  and the visitor gets an error instead of a sign-in (`UpsertUser`, `failed`).
* `accounts.ts:494`, a member invitation: the user is committed before the profile is
  reconciled, in another transaction, so that a refusal there leaves a user without a Person
  (`README.md:31` says that every starter-created user is bound to one).
* `access-requests.ts:235`, a second graduation of one request with a workspace name: the
  seeding looks at the option of the call, not at whether this call made the tenant, and puts
  the starter subscription over a paid one (`Graduate`, `Seed`).
* `smrt-jobs.ts:327-330`: the runtime is opened, and the first report handler registered, before the
  `try` of line 339. A missing or short signing key throws in between, and neither is released
  by `startSmrtWorkerRuntime`; `index.ts:97` ends the process (`RegistrationFails`,
  excepted by name in `LifecycleIsOrderly`).
* `agent-chat.ts:334`: a tool of the chat that resolves the membership again, or whose operation is
  refused, throws an HTTP error, which is not a `RuntimeToolExecutionError`: the request fails
  after its call was announced, and the room keeps a call without an answer.
* `ReportOperations.svelte:60`: the id of a creation that failed is kept over a change of
  tenant or of the query. In another tenant it names another operation; with another
  query the server answers 409 to each further attempt, until the page is left.
* `ReportOperations.svelte:52`: until the page is loaded again after a switch, a refresh lists the
  operations of the new tenant under the name of the old one: `PanelIsCurrent` speaks of
  what was asked for, not of what the server has answered.
* `billing.ts:38`: a creation that throws is remembered until the process restarts.
* `mobile-auth.ts:184`: a session whose sign-in is refused by the check of the
  membership stays stored until it expires; nobody holds its token (`CheckStored`).
* `+server.ts:18` of the switch: when the session is gone the answer is 409 and has set the
  cookie all the same, so the browser is in the new tenant with its next request.
* `smrt-db-seed.mjs:202`, `232`, `309`, `324`: each start of a container writes the seeded
  subscription, settings, prompts and languages over what people have changed since
  (`SomebodyEdits` followed by a start); a demo access request that has been triaged gets
  another one at each start, although the comment at line 342 calls that idempotent.
* `smrt-db-seed.mjs:142`: once somebody has signed in with the demo owner's address before
  the seed, no container comes up any more; `ContainersComeUp` excepts it.
* `smrt-db-migrate.mjs:16`: of two containers that start on an empty database one may fail,
  and is started again (the runbook serialises them).
* `smrt-db-smoke.mjs:226`: a check that is killed before this line leaves its audit entry for
  good; `SmokeIsFair` speaks of fixtures. A user without a Person makes the check fail once
  (line 486), which reconciles it.
* `run-production-e2e.mjs:497`: an inspection that fails counts as absence, so a run may pass
  and leave a running container; with `PassMeansTested`: only after two of them failed.
* `WebMcpShellBridge.svelte:253` and `settings/prompts/+page.server.ts:40`: a form is filled and submitted on a
  page that shows one tenant, and saved in another, if the session was switched elsewhere in between.
* `DockPanel.svelte:90`: the draft of one tenant's chat stays when the page changes to another tenant, and is sent there.
  The chat shown is the one that arrives last, of whichever tenant.

## Proofs

Proved with TLAPS for every value of the constants, from the named assumptions of
the modules only.

*ReportOperations.* `Invariance` proves `Spec => []IInv`. The safety properties are
not inductive alone: that a row has at most one job needs that a request about to
link a job holds the receipt the row already has; that a recorded outcome is true
needs that a delivery about to record one holds the outcome the row came to; that a
result is atomic needs that a delivery inside its transaction is alone on its row.
`IInv` is the conjunction of these facts about rows, jobs, reservations, calls,
deliveries and views. One lemma per action preserves it; `TypeCorrect`, `OneJob`,
`ConsentHolds`, `ResultIsAtomic`, `RecordsAreTrue` and
`ShownIsStored` follow. `TerminalOperationsAreFinal` is the action property: the only
action that writes a terminal row is `LinkJob`, and it writes what is there.
`OperationsKeepTheContract` maps every step to a step of the contract or a stutter.

*SubscriptionSync.* `IInv` adds to the shapes that every row, every row somebody has
read, and every tenant a request is bound to agree with the owner of the
subscription (`TenantsAreIsolated`). While no reconciliation writes, `Serial` says
that a webhook that holds a tenant's lock holds its current row, so the upsert
computes from what is stored. So the fallbacks of a row compose: a column that an event does
not carry keeps the value of the latest event that did (`ShowsStill`, `ShowsNext`). Hence
`RowsShowALatestEvent`, `ClocksGoForward`. Their
hypothesis is needed: reconciliation writes without the lock. `Recents` follows the ids a
row remembers through every copy of the row (`TypeCorrect`). `Recalls` adds what makes them
an answer to a second delivery: they are events the row has absorbed, in the order of their
seconds, and all those of its latest second. An event before that second is refused by its
time, one of that second by its id (`EventsAreAppliedOnce`). That the row still has the id
is a counting argument: an id is dropped only from a full row, and if that one was of the
latest second, so were all the others, and the second had more events than
`RecentCap`. The theorem assumes that none has (`FewASecond`), which the code needs too: it keeps 20 ids.

*Onboarding.* The argument is one of rely and guarantee. `Good(f)` is what a request may
count on: what it carries (`Carries`), that the rows its transaction is to write are still
free (`Reserved`), that the invitation it has read is the one that is stored
(`ReadsInvitation`), that nothing names it before it commits (`LeavesNothing`), and what it
has after (`AtHome`, `Spent`). Every step promises the other requests that stored rows stay
(`Grows`) and that the keys they hold, and what they carry, are left alone
(`Respects`); `RespectedStaysGood` is the rely half, one lemma per action the guarantee.
`Apart` is needed for it: two transactions never hold the same key, because `SlugFree` and
`EmailFree` make the second wait. `FoundersAreAtHome` alone is not inductive: it says
nothing of the transaction before its commit. Assumed are `OnboardingAssumption` and
`RowAssumption`, that a row is not the absence of one.

*ReportExport.* `IInv` adds what holds on the way to a stored file: an `asOf` names one
report for as long as the report carries it, so the assertion inside the render
transaction makes `view` equal to `snapshot` (`Reading`), and the rows read so far are
its first rows, never more than it has (`Prefix`, `PageContinues`); a banned request has
not passed the last authorisation (`Revoked`), an outdated one not the last assertion
(`Replaced`); whoever was let past the audit step is on record (`Audited`, `Fetched`).

*WorkerRuntime.* `Sound(p, s)` says of a process what it holds by where it is (`Holds`,
`Releases`), what is left of its list (`Pending`), and that a one-shot run without an error has
seen its jobs end well (`Outcomes`). What one process relies on of the others is `JobsGo`
alone: a job that was made stays, and a good end is not taken back. `CountCoversJobs`, that the count of a schedule is at
least the number of its jobs that are live or ended and not yet reported, but for what saves
have changed (`skew`), carries `CountLimitsJobs`; it needs that the end of a job is reported
once, by the runner that recorded it (`Told`), or a count would fall twice. A run of the checker allows
one failure for each deployment, the proof any number: with two, the first form of the model let a process that
had left claim jobs, which `index.ts:97` excludes (`Alive`). Assumed is `WorkerRuntimeAssumption`.

*CronSchedule.* `Searched` is inductive: the candidate is `index` minutes after the start and
none before it matches. What is left is about operators: a part the code matches is denoted
(`MatchIsDenoted`), and the other way round where the code does not read less.

*TenantUsage.* `QuotaHolds` compares what is counted and what is about to be counted with the
limit, for every window there has been. `Metered` makes it inductive: a request between check
and count has the window it was compared in, and that is the window of a day that has been, so that at midnight
the windows that begin are empty (`MidnightMeters`); a request is counted once for a metric, so that
counting moves one use from one sum to the other (`UseIsCounted`); and a check that passes
speaks of today's windows only, in which `ContainedIsAWindow` places the request
(`UsesStayCovered`). `WindowsAreApart` is the fact about windows behind all three: two of a
kind are the same or do not overlap. `Rooms` says what a room holds at each stage of a
request; `Owned` where the tools of the session come from: another message of the member, if
not this one, so that a rejected call always has somebody who has caused it. `Listed` describes
the audit between two pages: those up to the cursor are visited, and what a page leaves out comes after all of
it (`PagesAreInOrder`). `WorkspaceIsOne` carries the theorems over to `TenantWorkspace`, which
the run checks. Assumed is `TenantUsageAssumption`.

*Authority.* The properties look at the step in which a request acts; why they hold lies in
earlier requests of the same client. `IInv` says that no two clients hold a session
(`Apart`) and that ids are not used again (`Used`), so that a session that was gone when a
request was sent stays gone (`Dead`, `Nobody`); that a browser that was told its tenant is in
it (`Settled`) as long as no request that moves it is under way, and that of several such
requests none counts as alone (`Crossing`, `Tells`); that a command keeps the tenant it was
sent in (`Keeps`); and what a provider's answer has been reduced to (`Vouched`).
`StepKeeps` reduces a step of a request to that request and the sessions it may touch.
`TenantIsRight` holds only because of `Crossing`: when two moves cross, the cookie and the
session may disagree, and the model lets them. Assumed is `AuthorityAssumption`.

*WebApplication.* Each part has an invariant of its own, and a step of one leaves the others
alone (`Parts`). `LimiterInv`: of a key with a live bucket, the hits of its window are no more
than the bucket counts, and those of earlier windows fewer than the limit, the first having been
forgotten by then (`HitsWell`); of keys in an order no two have as many
younger ones, so the newest n are n at most (`NewestAreFew`). `MemoInv`: what is remembered was begun since the provider was last set.
`PageInv` says of each request on its way what it stands for (`SoundFetch`: of the panel's own
only the active one is not aborted, a creation that is has the id that is kept, a tool's
lives as long as its page) and that the panel keeps the one id that is not settled
(`SoundPanel`). `GateInv`: a web container that has answered was the run's own (`TestsItsOwn`),
what is in use by a run stays (`NetworkStays`), and what a run that has no error has left is no
more than what it missed (`Removes`). `StartInv`: `SeedsWell(p, s)`, what a script has
seeded by the step it is at is there, which relies only on what no step takes back (`Monotone`); that a
demo's user who is there is sound, and then no visitor has its address (`OwnerInv`);
`CleansWell(s)`, what a check has cleaned is clean (`Deleted`), since checks do not run at the same
time (`OneCheck`); and, in a setup in which nobody else changes the database (`Quiet`), that no
script meets what it would fail for (`Fairly`). Assumed are the four modules' assumptions.

*ShellPage.* Its two halves share only the page, so each has its invariant. `ToolsInv`: a call
that is under way and not aborted was made on the page that is shown (`SoundCall`), and a load that
has read its tenant goes somewhere (`SoundLoad`). `DockInv`: a message that was written has one
place, the draft or one request, and of the requests one at most is the dock's that is there
(`Dispatched`); a message is stored as often as it has failed, and once more only where it cannot
be sent again (`Copied`). An action property follows: `Answers` says which calls a step may answer.
Assumed are the two modules' assumptions.

Only model-checked: liveness (`JobbedOperationSettles`, `EventuallyAligned`, `EveryFlowEnds`,
`ProcessesGetThere`, `DemoRecovers`, `ContainersComeUp`), which the proof system cannot do.

## Not modelled

Rendering, translation, logging and the wording of errors; SDK wrappers (asset
storage, mail); single-row settings and the generated settings API; lists from the
environment; scripts, manifests and the mobile shells. `PROJECT.json` gives the
reason for each component.

## Plan

Done: every component that keeps state and is used by more than one actor has a
module. Left, in this order:

1. the contract of subscriptions (what Stripe says last is what the tenant gets) as an
   abstract specification that `SubscriptionSync` implements;
2. the settings and field policy, should they come to be written by more than one actor.
