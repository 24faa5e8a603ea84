# Formal models of HumanityRules (HumR)

TLA+ models, TLC configurations and TLAPS proofs for HumanityRules: the Django control
plane that deploys customers' agent apps into AWS accounts, runs their jobs, decides who may
reach what and bills their usage; and the software that HumR installs beside each deployed
agent: the broker that holds the agent's integration credentials, the policy proxy in front
of it, the runner of its persistent root and the supervisor of its workloads.

Paths below are relative to `src/`; `services/`, `views/`, `management/` and `models.py`
stand for `humanityrules_app/...`, `humr_runtime/` for
`template_repos/hermes_agent/humr_runtime/`, `integrations/` for `humr_runtime/integrations/`.

Contents: 1 the system and its parts, 2 the modules and how they correspond to the code,
3 what is checked, 4 bounds, 5 fairness, 6 what is proved, 7 what the models show about
the code, 8 what is not modelled, 9 plan, 10 running.

## 1. The system

The control plane is one Django application over Postgres. Web requests and management
commands *admit* work by changing rows; a **job worker** (a loop in a daemon thread of the
web process, or `run_job_worker`) *claims* rows and starts one thread per claim; the
threads (**executors**) call AWS and *settle* the rows; a **reaper** inside the worker loop
settles what nobody will settle any more. There is no message queue: the rows are the
queue, and row locks are the only synchronisation between processes.

Beside every deployed agent runs a **broker**, a single asyncio process that intercepts the
agent's outgoing TLS, injects credentials it fetches from the control plane, meters model
calls and refuses them when the organization is out of credits. It knows the control plane
only through HTTP calls that may fail, be slow, or be answered late. A **policy proxy** in
front of the agent asks the control plane who may enter and caches the answers.

### 1.1 Components, their state, operations and hard parts

| Component | State | Operations | What is hard | Correct means |
|---|---|---|---|---|
| App job lifecycle: `services/jobs/app_job_service.py`, `services/template_deploy_service.py` | `App.job_status`, attempt id, `last_attempt_error`, live state, `may_have_infra`, claim; `DeploymentRecord` trail | create and deploy, queue deploy, queue removal, settle success, settle failure | row and trail are two statements; settling saves whatever object the caller loaded and looks at no status | one thread and one outcome per attempt; a removal is final; the trail agrees with the attempts |
| Deployment and removal executors: `services/jobs/app_deployment_executor.py`, `app_remove_executor.py`, `app_deployment_teardown_executor.py`, `app_config_builder.py` | the App object in memory; stack, tasks, secrets, files | build and deploy, tear down, purge, delete the row | any step may raise; the row may be reaped, deleted or retried under the thread | no stack or data outlives its row; a stack finds its secrets |
| Environment lifecycle: `services/jobs/environment_*.py`, `views/environments.py` | `Environment.status`, claim; the base stacks, network and zone | set up, retry, redeploy, queue teardown; provision; tear down apps, purge, base, rows | admission of apps and of teardown race; a failed teardown is retried from any point; stacks are found by a prefix of their names | teardown owns the environment; READY has its base |
| Job worker: `services/jobs/job_worker.py` | `JobWorkerRun` heartbeats, CDK semaphore, job threads | start, beat, claim, die | death at any point; two workers; a slot taken before the claim | slots conserved; every queued job runs |
| Reaper: `services/jobs/stale_job_reaper.py`; fleet recovery: `services/fleet_service.py` | none of its own | reap rows of dead runs; reap rows without progress; fail everything unsettled | cannot tell slow from dead | every executing row settles |
| Agent deploys and plans: `services/template_deploy_service.py`, `services/billing/plans.py` | apps, forms, the plan | submit, create, remove, tear down | the lock is per environment, the plan per organization | agents within the plan; unique slugs |
| Usage ingest, entitlement, rating, grants: `views/billing_usage.py`, `services/billing/` | usage events, append-only ledger, cached balance | report, rate, grant, reset | overlapping passes, the cap, midnight, half-even rounding of a growing sum, replays | balance is the ledger's sum; every priceable event is rated once |
| Stripe lifecycle: `services/billing/stripe_lifecycle.py`, `views/stripe_webhook.py` | webhook rows, mirrored subscription, plan | apply an event | at least once, any order, one-second timestamps, two subscriptions | plan and grants are what Stripe was paid for |
| Cost refresh: `services/cost/` | daily cost rows, frozen days | refresh window, freeze | a lagging or failing source, a reaped refresh that goes on | a frozen day is complete and stays |
| Permission requests: `services/permissions_service.py`, `services/jobs/permissions_apply_executor.py` | request rows, baseline, IAM role | draft, edit, approve, apply, cancel | IAM write, baseline and outcome are three steps; edits race the approval | requests move forward; drift shows |
| ABAC engine: `services/abac_service.py`, `views/security_abac.py` | attributes, tags, policies | decide, list, edit, seed, reset | two evaluation paths that must agree | a listing shows what the check allows |
| PDP and policy proxy: `views/pdp.py`, `template_repos/policy_proxy/` | two TTL caches | decide, cache, evict | late answers, stale allows | revoked access ends in time |
| Accounts, invites, onboarding: `views/auth.py`, `views/invites.py`, `views/onboarding.py` | users, memberships, invitations | log in, invite, accept, revoke, remove | requests commit statement by statement and die in between | nobody is halfway in; nobody comes uninvited |
| Control-plane integrations: `views/integrations/` | credential rows per provider | connect, refresh, narrow, disconnect, re-target | consents and refreshes that complete late; rotating tokens | no dropped grant returns; no rotated token is lost |
| Broker entitlement and metering: `integrations/billing_*.py` | snapshot, generation, fetch lock, event buffer | decide a metered call, flush, tap a response | every await is an interleaving; answers overtake each other | a paying organization is not refused; reports fit |
| Broker credentials: `integrations/tls_credential_state.py`, `credentials_service.py` | token cache, cards, one lock, env file, processes | inject, evict on 401, resync, connect, disconnect, refresh all, bootstrap | a refresh parked on the network while the user disconnects or reconnects; partial failures down the chain to the restarts | no dropped secret returns; card, secret, file and processes agree |
| Broker data plane: `integrations/tls_intercept.py`, `tls_http_message_relay.py` | connections, parsers | plan, inject, relay, observe | framing that breaks anywhere | a secret reaches its own hosts; all readers agree where a message ends |
| MCP gateway: `integrations/mcp_*.py` | tool mirror and index; OAuth client and token files | load, drop, search, sign in, refresh, disconnect | loads race disconnects; refreshes race each other | mirror, index and search agree; tokens are not lost |
| Device logins: `integrations/device_flow.py`, `views/integrations/provider_device.py` | sessions, dialogs, marker file | start, poll, store, mark | two tabs, late answers, a marker written by another process | a dialog ends; a code is used once |
| Sandbox slugs: `services/sandbox_service.py` | slug claims | claim, release | two organizations, uncommitted rows | one owner per slug |
| Customer infrastructure: `services/infra_customer/` | stacks, images, networks, builder | build, deploy, tear down | AWS calls that fail, lag or overlap | a tag names its content; rows match the account |
| Persistent root and migration: `humr_runtime/persistent-root-runner.sh`, `management/commands/humr_hermes_migrate.py` | root per instance, archive on EFS | boot, restore, checkpoint, sweep; stop, stage, clear, start | a kill between any two steps; moves between instances | archives and roots in use are whole |
| Workloads: `humr_runtime/process_supervisor/`, `widgets/`, `webapps/` | one document, daemon, routes, tombstones | register, apply, delete, publish, boot | one document for two command families; crashes between renames | document, routes and daemon agree |
| Webapp grants, git providers, billing administration, platform stacks, UI, operator commands | | request-response | | not modelled, section 8 |

### 1.2 How the parts interact

* **Rows as messages.** Admission writes `DEPLOY_PENDING`, `REMOVAL_PENDING`, `PENDING`,
  `TEARDOWN_PENDING`; a worker's claim (`SELECT ... FOR UPDATE SKIP LOCKED`) turns them into
  `DEPLOYING`, `REMOVING`, `PROVISIONING`, `TEARING_DOWN` and stamps its run id. The
  environment's row lock, then the app's, is what makes app admission and environment
  teardown exclude each other. Permission applies and cost refreshes are claimed by the same
  loop and reaped by the same reaper.
* **Executors write blindly.** A thread saves the object it loaded; nothing re-checks the
  status for deployments. The reaper and the recovery may have settled the row meanwhile.
* **Balance row.** Rating, trial grants and resets all lock `BillingBalance`; the Stripe
  transaction locks the organization and calls the same reset.
* **Broker and control plane.** Each usage report is answered with an entitlement that the
  broker installs; each credential refresh is answered per provider with a token, an
  absence or a failure. Both copies are read by requests while a refresh is out.
* **Credential change.** Cards decide the managed lines of an env file; a changed file
  restarts the processes the changed provider declares.
* **Revocation.** A grant or a window is closed in the database; the proxy learns of it when
  its cached answer runs out, and an answer already on its way starts a TTL of its own.

## 2. Modules

| Module | Models |
|---|---|
| `AppJobs` | rows, records, worker runs; app admission, claims, deployment and removal threads |
| `JobSystem` | extends `AppJobs` with environments, workers, reaper and recovery; the job system's properties and fairness; implements `InfraOwnership` |
| `InfraOwnership` | abstract: who may touch a stack, and that no stack is forgotten |
| `AgentDeploys` | the deploy form, its transaction, the plan's limit of agents |
| `AppDeployment` | every write of a deployment and a removal to AWS: secrets, stack, tasks, data |
| `AppPlan` | what a task is started with: template, snapshot, plan, preset, secrets, packing |
| `TemplateImages` | images by content hash, the builder instance, its lock and watchdog |
| `EnvironmentStacks` | several environments: setup form, network blocks, zones, stacks found by prefix |
| `SandboxSlugs` | slug claims across organizations, as transactions with uncommitted rows |
| `BillingLedger` | usage events, rating passes, grants, resets, ledger, balance |
| `StripeLifecycle` | extends `BillingLedger` with Stripe (external), webhook transactions, mirror, plan |
| `CostRefresh` | cost rows over a lagging log, refresh jobs, freezing |
| `PermissionRequests` | drafts, edits, approvals, the apply thread, the baseline, the IAM role |
| `AccessPolicies` | the engine as operators against a reference definition; edits, seeds, removals, resets |
| `Memberships` | first logins, invitations and their acceptance or revocation, edits of roles and of the default role, requests that die |
| `PolicyProxy` | visits, the PDP's answers in flight, both caches |
| `GoogleConnect`, `UserOAuth`, `SharedLogins` | credential rows of one Google user, of one rotating personal login, of an organization's shared logins |
| `SetupSessions`, `SlackSetup`, `TelegramSetup` | signed setup dialogs (base module), and the two bots: Slack's extends it, Telegram's is an instance beside state of its own |
| `BrokerEntitlement` | the broker's snapshot, its lock, callers, buffer and flush |
| `UsageTap` | token usage out of a response that arrives in pieces |
| `CredentialBroker` | token cache and cards, proxied requests, user operations, env file, restarts, bootstrap |
| `WireCredentials` | the provider catalogue; what is put on a request, refused, metered |
| `MessageRelay` | HTTP framing in both directions |
| `ToolCatalog`, `DcrOAuth` | the MCP gateway's tool mirror; its dynamic registration, tokens and files |
| `DeviceFlow` | device logins from the tab to the marker file |
| `PersistentRoot`, `RootMigration` | boot, restore, checkpoint, sweep; the migration that extends them |
| `AppWorkloads` | web apps and widgets, their document, lock, daemon, routes, tombstones, boots |
| `MCJobSystem`, `MCIntegrations`, `MCBilling`, `MCBroker`, `MCCustomer`, `MCConsole`, `MCSettles` | finite instances for TLC |
| `JobSystem_proofs`, `Console_proofs` (of all four console modules), `BrokerEntitlement_proofs`, `Broker_proofs` (of `CredentialBroker`, `DcrOAuth`, `MessageRelay` and `ToolCatalog`), `Integrations_proofs` (of `SlackSetup`, `TelegramSetup`, `UserOAuth` and `SharedLogins`), `Customer_proofs` (of `AgentDeploys`, `SandboxSlugs`, `PersistentRoot` and `RootMigration`) | theorems |

**How the MC modules compose.** Except for the job system, components of one MC module share
no state in the code, and interleaving them would only multiply their states. An MC module
therefore has a variable `part`, chosen once in the initial state from the constant `Parts`:
a behaviour is one of a single part, the others rest in an initial state. A module whose
properties are proved is extended directly, so that run and theorem speak of the same
definition; the others are instances over shared variables `v1`, `v2`, ... in the order in
which their modules declare theirs (an instance with fewer variables leaves the rest at 0). A
property of such a module is the conjunction of the properties of its parts, each under
`part = "..."`; a configuration can name fewer parts to look at one of them alone.

An operator whose comment begins with `Bug:` is a deliberately wrong variant of the mapped
definition that `PROJECT.json` pairs it with under `mutants`. No run uses it; substituting it
for that definition makes a property of a run fail, which is how each property is known to be
able to fail.

### 2.1 Job system

*State.* `app` and `env` are the rows; only the fields that a guard reads are kept (status,
attempt, last error, live state, `may_have_infra`, claiming run, worker label).
`appThread[a][n]` is the thread claimed for attempt `n` of app `a` with the in-memory status
and attempt it loaded; `envThread` likewise. `run` is a `JobWorkerRun` row together with
whether its process lives: `fresh`, `late` (alive, heartbeat too old), `crashed`, `expired`,
`none`. `freeSlots` is the CDK semaphore, `trail` the `DeploymentRecord` events of each
attempt, `infra`/`data`/`base` what exists in AWS.

*Steps.* A database transaction is one action. The settle functions of the deployment
executor are two: the save of the row and the insert of the record (`GoRecord`, then
`WriteRecord`), because a crash or a refused insert falls between them. The reaper's and the
recovery's settle (`SettleFailureOfAll`) is one, as the code wraps it in `atomic()`. An
executor is split at every write of a row or of AWS; an AWS phase succeeds or fails by
choice, and a failing purge leaves files and secrets in the states its order allows.
Process death (`WorkerDies`) removes the threads and restores the semaphore; the rows stay.

*Disturbances* (a constant) name what goes beyond crashes: a live thread slower than the
no-progress timeout, a live worker that misses heartbeats, staff recovery, a staff redeploy
of a READY environment, a refused record insert. A run names those it allows, so that a
property that needs "no live thread is settled from outside" says so in its configuration
(and its theorem in the assumption `Calm`) rather than being weakened.

*Abstract specification.* `InfraOwnership` knows busy apps, closing environments, stacks and
forgotten apps. `JobSystem` implements it under `busy` = apps with a job status other than
IDLE, `closing` = environments queued for or in teardown, `stack` = `infra`, `gone` =
deleted rows (property `OwnershipSpec`).

`JobSystem` takes a deployment and a removal as one AWS phase each. `AppDeployment` opens
that phase: every secret, stack and task is written by a step of its own and an attempt
may end after any of them; it relies on one attempt at a time per app, which
`JobSystem_proofs!SoundAttempts` proves. `AppPlan` opens the input of the phase,
`EnvironmentStacks` the provisioning and teardown, `TemplateImages` the build.

### 2.2 Billing

`BillingLedger`: a usage event has a price in tenths of a credit, a date and a rank; entries
are whole credits. A rating pass is two actions, `RatingBegins` (balance row locked, posting
date and events read) and `RatingCommits` or `RatingAborts`, so that reports, midnight and a
new rate card fall in between; other writers of the balance wait (`BalanceFree`), passes of
other workers skip. `DayCharge` re-derives an amount from the exact sum with half-even
rounding, as the code does. `WriteLockedEntry`, `ResetBalanceToGrant` follow
`services/billing/grants.py` branch by branch.

`StripeLifecycle`: Stripe is external and modelled as a seller that renews, fails, gives up,
recovers and cancels, numbering its events; a webhook transaction applies any sent event not
yet applied. Redelivery of an applied event finds its row and changes nothing, and a
delivery that is rolled back leaves the event unapplied, so neither needs an action.
Handlers are the operators `ApplySubscriptionEvent`, `ApplyPaidInvoice` and `Reconciled`
with the code's guards as named predicates.

`CostRefresh`: the log of a day grows after the day; a refresh reads the days of its window
one snapshot at a time, upserts and freezes; its job is claimed, reaped and retried like
the others.

### 2.3 Broker entitlement

Each step runs from one await to the next. A caller samples the generation, waits for the
lock, takes it, asks, gets an answer or a failure, installs it unless the generation moved,
and decides on whatever the cache then holds. The flag `superseded` of a caller stands for
"the generation moved since it sampled it". `inCredit` is a history flag. `UsageTap` is the
observer that feeds the buffer: a response is a sequence of lines with lengths, cut into
arbitrary pieces.

### 2.4 Broker credentials and data plane

A credential at the control plane is a *generation*: odd while one is stored, the next even
number once it is deleted. That makes "older", "dropped" and "whose" comparable without
modelling tokens. `cache` is the token cache (with the life of an entry: fresh, inside the
refresh-ahead window, expired), `card` the generation the connection card was written
from, `holder` the caller that holds the store's lock across its refresh, `caller` the
operation or request in each slot with its stage, scope and reply, `file`, `running` the
lines of the env file and those each process booted with, `tmp` the one `.env.tmp` that all
operations write, `handle` what the file that an operation has open has become since. `floor`,
`missed` and `spared` are history: the newest generation known when the slug's secret was last
dropped, the processes that an operation should have restarted and did not (a restart that
fails, a `.env.tmp` that is gone, a models cache that cannot be deleted), and those that the
operation that changed the file does not restart, because its provider declares no restart of
them.

The control plane answers with the state of the moment the answer is made; each slug of a
batch may fail on its own and an unreachable control plane fails all. `Applied` is
`_apply_locked`; `CredentialForSlug`, `RequestApplies` and `EvictAfter401` are a proxied request;
`StartOperation` to `RestartFails` the user operations of `credentials_service.py`;
`Bootstrap` the container start. The env file is written in a thread of the pool, with no lock
held (`credentials_service.py:262`): reading and comparing it (`ReadEnvFile`), opening
`.env.tmp`, which empties it (`OpenTmp`), writing it (`WriteTmp`) and `os.replace` (`PublishTmp`,
`TmpIsGone`) are steps of their own, between which other operations take theirs. `file` holds a number per slug: 0 for no lines, 1 for lines
that depend only on being connected, the generation for lines that carry the credential's
own configuration.

`WireCredentials` has the catalogue of providers as data (hosts, slots, placeholders) and one
request from CONNECT to answer; `MessageRelay` has framing as token streams, with each
reader's parser as state; the payload is units that are counted.

### 2.5 Console

`PermissionRequests`: `request` rows with their status, statements and attempt, `thread` the
executor at its three writes, `editor` a web request that has loaded a row and not yet saved
it, `role` and `baseline` what AWS and the database hold. `approved`, `overtaken` and
`touched` are history. `PolicyProxy`: cache entries hold what is left of their TTL; `visit`
is a request with the answer it has in flight and its age; `closed` and `barred` say how
long ago access was last granted. `Memberships`: a request outside `transaction.atomic` is a
`session` with a program counter, so that it can die after each statement. `AccessPolicies`:
the engine is pure, so it is operators over sets of clauses, with the reference definition
(`decide each resource, then filter`) beside the code's three evaluation paths.

### 2.6 Integrations, gateway, device logins

A grant at a provider is a number, a rotated token a number within it; `dead` is what the
provider no longer honours. A handler that calls the provider is split before and after the
call, a save writes the whole row that was read, as `Model.save()` does without
`update_fields`. `DcrOAuth` keeps memory and disk apart. `DeviceFlow` numbers logins in the
order their codes were issued, so that "later" needs no clock.

### 2.7 What runs in the customer's account

`PersistentRoot` has one directory per instance, one archive and one temporary archive on EFS,
and the runner's steps; what the agent stored is a set of works, so that "older root" is a
smaller set. `RootMigration` adds the operator's phases as `humr_hermes_migrate` has them:
any phase at any time, with or without `--stop-dest`, failing or rerun, with what the state file
keeps of each other (`state`). `desired` is the service's count, `stopping` the instances whose
task ECS wants stopped: such a task may go on writing its checkpoint, and the command's
`list_tasks`, which names no desired status, does not list it (`Listed`). `stager` is the one-shot
task, `late` whether stagers of failed phases are still about, `restored` the tasks that logged
the end of their restore, `progress` history: how far a staging that was begun with the service
really gone has come.

`AppWorkloads` has the document with its publication in two renames (`TakeDoc`, `PublishDoc`) that
a crash or another command may fall between, the two locks, routes, daemon and the boot sequence
of `webui.sh`. `wanted` and `lost` are history: the web apps whose last accepted command keeps
them, and the entries that went with the whole document. An entry is lost in two ways only: the
container dies while the document is away (a widget's also between its routes and the document), or a command that saw it away writes the empty one
over the one published meanwhile.

## 3. What is checked

Passing runs (`PROJECT.json` lists the properties of each):

| Run | Configuration | Shows |
|---|---|---|
| `jobs` | `Jobs.cfg`: one app in a sandbox environment, three attempts, two workers that crash at any point, a staff redeploy | no stack or data outlives or is missing from its row, READY has its base (`RowsTellTheInfra`); one thread per app, one outcome per attempt, a removal is final, no slot is lost (`AttemptsAreSound`); the job system implements `InfraOwnership` |
| `jobs_disturbed` | `JobsDisturbed.cfg`: every disturbance, one worker, two attempts | the teardown of an environment excludes the jobs of its apps (`TeardownOwnsEnvironment`) |
| `jobs_live` | `JobsLive.cfg`: fair workers that keep crashing | every executing job settles; every queued job of an environment that stays READY is claimed |
| `integrations` | `Integrations.cfg`: Slack, Telegram, one and two Google accounts, overlapping refreshes (GitHub), one refresher (X), shared logins, their edits | rows keep type, workspace, mode and owner; a bot is its owner's; no revoked consent returns through a callback that could see and lock the row; refreshes lose no token; the newest rotation is kept |
| `billing` | `Billing.cfg`: four usage events and two passes; one Stripe subscription with eight events, two with five; the broker's entitlement; cost refreshes with crashes and with failing queries | the ledger is exact, the plan follows Stripe, a recharged user's own answer unblocks them, frozen costs are complete and stay |
| `broker` | `Broker.cfg`: the credential store with two overlapping operations and a request; the wire; framing; usage streams; three catalogues; sign-ins and refreshes; device logins and their marker | section 2.4 and 2.6's promises (`CredentialsAreSound`, `ProcessesRunTheFile`, `FramesAgree`, ...) |
| `customer` | `Customer.cfg`: agent deploys, deployments and removals, images (two builders), stacks, plans, slugs, the root, its migration, workloads | no leftovers for the next owner of a slug, agents within the plan, tags name their content, rows match the account, checkpoints survive, a migration staged with the service gone lands, documents and routes agree and no entry goes except with the whole document |
| `console` | `Console.cfg`: permission requests with crashes, slow applies and teardowns; memberships; the proxy with a late answer beside a cached one | requests move forward and drift shows; members are whole; revoked access ends |
| `policies` | `Policies.cfg`: one app and one shared credential under two edits of policies, tags, people and groups, deployments, removals and resets that break | listings are what the checks allow; an agent is its owner's; a reset gives back the access of the seeds; credentials follow their scope |
| `settles` | `Settles.cfg`: the fair specification of eight components, and a policy proxy with a full cache | rating, approved requests, teardowns, logins, refusals, the runtime, commands, refreshes and dialogs come to an end; revoked access too when entries are evicted |

Violation runs, each a statement of a doc or a docstring that the code does not keep (section
7): `permissions_edited` (`AppliedIsApproved`) and `agents_over_plan`
(`AgentsAreWithinPlan` when removals may fail).

Reading the properties: `RowsTellTheInfra`, `TeardownOwnsEnvironment`, `DriftIsReported`,
`DayChargesAreExact`, `PaidPeriodGranted`, `NoDroppedSecretReturns`, `FilterIsExact`,
`FreeSlugIsClean`, `CheckpointIsKept` and `ProcessesRunTheFile` each relate two pieces of
state that different actors write in different steps; every property's comment names the code
behaviour it is about.

No run checks deadlock. In the job runs the system really is finished once every attempt of
the bound is used and every row settled; in the composed runs each part ends when its
bounded users have done all they may, and a part of which nothing is left to do would be
reported as a deadlock of the whole.

## 4. Bounds

| Bound | Module | Why it is enough |
|---|---|---|
| `MaxAttempts` 2 or 3 | `JobSystem` | the interesting histories are an attempt, a retry that meets the first one's late thread, and (in `jobs`) a deploy after a failed removal |
| `MaxEnvThreads` 1, `CdkSlots` 1, one app, one environment, 1 or 2 runs | `JobSystem` | the tightest semaphore: any leak stops all deployments; rows of different environments share only the semaphore and the reaper; identities of dead runs are reused once nothing refers to them. What these bounds leave out (two threads of one environment, several apps) is covered by the theorems, which have no bounds |
| 4 events, cap 2, horizon 1, 3 dates | `BillingLedger` | two passes of one cap, a midnight inside a pass, an event older than the horizon, one sum that rounds half to even |
| 8 or 5 Stripe events, 4 seconds | `StripeLifecycle` | create, renew, fail, recover, cancel with ties; two subscriptions one after the other |
| 4 days, 2 or 3 jobs, one invocation a day | `CostRefresh` | a day ages into freezing while a reaped or failed refresh is about |
| `MaxBuffered` 2, `MaxChanges` 2 | `BrokerEntitlement` | a full buffer during a flush; the balance crosses the floor and back |
| `MaxGeneration` 3, `MaxOperations` 2 | `CredentialBroker` | stored, deleted, stored again while the first refresh is parked |
| `Forms`, `Kinds`, `MaxGen` | `WireCredentials` | every shape of a request towards two providers with all combinations; every provider of the catalogue once; two connections on one funded provider |
| streams of at most two requests | `MessageRelay` | every framing alone and followed by another request; every place where a stream may break; theorem for any streams |
| `Cap` 3, `Sniff` 2, up to three events | `UsageTap` | cuts before, at and after both limits |
| `Slots` 2, `MaxChanges`, `MaxRestarts` | `ToolCatalog` | two loads that overlap a change; a failing load; one tool id from two connectors, where only the agreement of tools, index and search is checked; theorem for any number |
| one or two flows, one or two callers, one cut, one restart, one or two expiries | `DcrOAuth` | two sign-ins, or two refreshes of one token, around a disconnect |
| `MaxLogins` 2, `MaxPresses` 2, two tabs; or one tab and two disconnects | `DeviceFlow` | a login superseded by another; a disconnect before and during its end |
| 3 flows, 4 stamps, one session | `GoogleConnect` | a flow that completes after a narrowing and a reconnect |
| 2 or 3 grants, 3 rotations, two refreshers | `UserOAuth`, `SharedLogins` | a refresh that reads before and writes after another rotation; a reconnect under way |
| one app created anew, one change of owner, one disconnect, two saves or bots | `SetupSessions` and the bots | every change that a dialog can miss |
| `MaxRequests` 2, one editor, one grant | `PermissionRequests` | an older apply that ends after a newer one; theorems for any number |
| `MaxPageEdits` 2, one app, one credential, four policies to write | `AccessPolicies` | a grant by team, a denial of some, a grant of some, a denial without resource conditions, and two edits; theorem for any organization, policies and edits |
| two invitations, three people, `MaxEdits` 1, `MaxCrashes` 1 | `Memberships` | two requests of one person, or of two, each cut at any statement |
| TTL 1, `Flight` 1, one cache entry, two visits; in `settles` TTL 2, two webapps, one visit | `PolicyProxy` | a late answer beside a cached one; a full cache that evicts; theorem for any values |
| four submits, two slugs, one environment | `AgentDeploys` | as many forms as the plan has agents, and one more |
| `MaxGens` 2, 3 or 4 attempts, one or two hosts | `AppDeployment` | a slug used by two apps one after the other, with a failed removal in between |
| `MaxChanges` 2 | `AppPlan` | a reseed and a change of plan or preset between attempts |
| three deployments of two versions, `Keep` 2, limits of 1 tick, one crash | `TemplateImages` | two deployments that need the same image and one that needs another; eviction by the lifecycle rule |
| `Blocks` 3, `Workers` 1, one fault | `EnvironmentStacks` | a customer's VPC, two environments, a failed step in each phase |
| 2 or 3 organizations, 4 apps | `SandboxSlugs` | a claim, its release and two others that wait for it |
| `MaxWork` 2 or 3, `MaxImage` 2, 3 to 5 tasks | `PersistentRoot` | a restore of an older archive over a newer root; a task that returns to an instance |
| `MaxPhases` 4, `MaxWork` 0, 2 tasks, two instances | `RootMigration` | stage, host-clear and finalize in any order and one of them again after a failure (uploads and cleanups are not counted), a stager left of the failure, the service's task that stops late and the one that starts; theorem for any number, tasks that follow a loss included |
| `MaxCommands` 3, one crash, one edit, two ports | `AppWorkloads` | a web command and a widget command that overlap anywhere, the renames included, a third after them, and a boot after a crash |

Symmetry is used for workers (`jobs`) and for visits (`console`), which the specifications
treat alike; never in a liveness run. All other runs enumerate everything.

## 5. Fairness and why the code gives it

* Jobs: the process manager restarts a worker that is gone (`StartWorker`), time passes
  (`HeartbeatExpires` of a crashed run), job threads come to an end (`AppThreadStep`,
  `EnvThreadStep`: waits on AWS are bounded by the code or by CloudFormation; the CDK
  subprocess has no timeout of its own, so that it ends is an assumption, and a thread that
  outlives the no-progress timeout is the disturbance `no_progress`). What a worker does
  between two crashes, claiming and reaping, is strongly fair: the loop polls every second
  (`job_worker.py:467`), heartbeats every 15 s and reaps every 60 s, and takes whatever is
  there. Nothing is assumed of users and staff, and
  no fairness keeps a worker from crashing again.
* Permission applies: `ClaimApply` is strongly fair for the same reason, the steps of a thread
  and the reaper's third tier weakly.
* Ledger: the tick runs every minute (weak fairness of `RatingBegins`) and a pass is not rolled
  back for ever (strong fairness of `RatingCommits`). Reports, midnight and deployments of a
  rate card are not fair.
* Entitlement: the event loop runs every ready task, `asyncio.Lock` is first come first served,
  and every HTTP call has a timeout. `RefusalsEnd` additionally has as a premise that some GET is
  answered again and again.
* Stacks: a claimed provisioning or teardown goes on (the threads of the first item); faults
  are bounded, retries are not fair.
* Workloads: a command that was started and `webui.sh` go on; starting commands, crashing and
  editing are not fair.
* Sign-ins, refreshes and device logins: a handler on the event loop or in a browser tab goes on,
  because each of its requests has a timeout; pressing buttons is not fair.
* Logins: a request that was started comes to its end (`OidcStep`), in a part without crashes.

All other components are checked for safety only. An operation that HumR never answers ends by
timeout in the code; no safety property depends on it.

## 6. What is proved

The proofs hold for every value of the constants that the named assumptions allow, any
number of apps, environments, workers, callers, slugs, requests, visits and people, while the
runs are small instances. `tlapm` checks every obligation; nothing is assumed beyond the
`ASSUME`s of the modules, which TLC evaluates in the runs, and the hypotheses in the third
column. Theorems in bold state a property that a run checks.

| Module | Theorems | Hypotheses |
|---|---|---|
| `JobSystem_proofs` | `TypeCorrect`, **`TeardownExcludesJobs`**, `SlotsInvariant`, `SlotsAreConserved` | none: under every disturbance |
| | `JobsInvariant`, **`RowsTellTruth`**, **`SoundAttempts`**, **`OwnershipHolds`** | `Calm`: no row is settled under a thread at work |
| `Console_proofs` | **`SoundRequests`**, **`ForwardOnly`**, **`AccessEndsInTime`**, **`WholeMemberships`** | none |
| | **`AccessStaysDecided`** | what the statement says itself: of the admins' policies none is a denial that hides from a listing; their edits leave the keys of the seeds alone |
| `Broker_proofs` | `CredentialTypeCorrect`, `DroppedSecretsStayDropped`, `CardDescribesSecret`, `ConnectionsNeverReturn`, `OutagesRefuseNobody`, **`CredentialsStaySound`** | none |
| | **`ProcessesStayInStep`**, **`SignInsStaySound`** | none |
| | **`FramesStayShared`** | a response states its length at most once; what follows the last chunk is a trailer or a blank line |
| | **`CatalogStaysCurrent`** | a connector of the gateway's own has one backend, is native, and Merge has no scope; "current" only when no tool id is offered by two connectors, as the statement says |
| `BrokerEntitlement_proofs` | `BrokerTypeCorrect`, `GetsSerialized`, `ReportsFit`, **`OwnAnswerHelps`** | none |
| `Integrations_proofs` | `SlackTypes`, `OwnersAreOfTheirBotsWorkspace`, `TokensServeTheirMode`, `TokensStayHome`, **`SlackRowsStaySound`** | none |
| | **`BotsStayTheirOwners`**, **`RefreshesStayHarmless`**, **`SharedLoginsAreKept`** | none but what the statements say themselves |
| `Customer_proofs` | `DeploysTypes`, `NoJobIsLeftBehind`, `SlugsStayUnique`, `AgentsAreTheirDeployers`, **`DeploysStaySound`** | `None` is no form |
| | **`AgentsStayWithinPlan`**, `NewAgentsFitThePlan` | one environment per organization; removals do not fail |
| | `SlugTypesHold`, `ClaimsLeaveWithTheirApps`, **`SlugsStaySound`** | none |
| | `SlugsStayWithOneOwner`, `AppsHoldTheirClaims` | a hosted zone; no removal that was given up on still runs |
| | `RootTypes`, `RuntimesRunTheirImage`, `LeftoversAreGone` | none |
| | `ArchivesAreWhole`, `RuntimesRunOnWholeRoots`, **`RootsStaySound`** | tar extracts the marker last |
| | `RootsSurvive` | tar extracts the marker last; the staging begins with the service gone, as the statement says itself |
| | `CheckpointsAreKept` | one instance |

The hypotheses are not for the prover's sake: without them the statement is false of the
code, and section 7 shows how.

*Job system, teardown.* `TypeOK` is inductive; it carries thread records whose in-memory status
decides which event is recorded. `TeardownOwnsEnvironment` is inductive together with it. An app
becomes busy, or an environment enters teardown, only in an admission, which looks at the other
side under the environment's row lock (`AdmissionExcludesTeardown`,
`EnvAdmissionExcludesJobs`); every other step, the late thread of a reaped job, the reaper,
recovery and claims included, creates no new owner (`NoNewOwner`). The proof shows why blind
settling is harmless *for this property*: a late save can only make an app idle.

*Job system, slots.* `SlotsIInv` says that the free slots of a run, its deployment threads and
its provisioning threads add up to `CdkSlots` (`SlotsOf`). That alone is not inductive: a claim
must be known to replace no thread that still holds a slot, and a thread to live in a worker that
is alive, or a slot would be given back to the successor of a dead one. `ThreadsAreClaims` says
both. No assumption on disturbances is needed: none touches the semaphore of a living process.

*Job system, rows and attempts.* `JobsIInv` adds, per app (`AppSound`), what each pair of row
and thread may look like: which thread works for the current attempt, what it has done to stack
and data so far, what the trail holds by then; per environment (`EnvSound`) the same for base
and status; and per worker that a claim is of a run that lives or may be reaped
(`WorkersBeat`). It is what an operator would draw as the state diagram of a job, and it is as
long as that diagram; the three properties follow from it without looking at steps again. It
holds while no row is settled under a thread at work (`Calm`: of the disturbances at most the
staff redeploy), which is the condition under which the code's blind saves are sound.

*Refinement.* `OwnershipHolds` proves `Spec => OwnershipSpec`: the initial states map to
initial states, and each step, given `JobsIInv` before and after it, is one of
`InfraOwnership`'s steps under the mapping or leaves its variables alone. One lemma per action
says which.

*Permission requests.* `PermIInv` is the type invariant with: the row an editor is about to save
exists (`EditsHaveRows`), a thread belongs to the request that is applying or to one whose outcome
the reaper has written (`ThreadsHaveRequests`), at most one request is applying
(`OneIsApplying`), none while the environment is torn down (`NothingInTeardown`), nobody has a
request before there is a baseline (`BaselineComesFirst`), and the executor has written what its
stage says, role before baseline (`WritesInOrder`). The last is why drift between role and
baseline always shows: whenever they differ and the reaper has given up on no running thread, a
request is applying or was reported as failed. `ForwardOnly` is an action property from the same
invariant.

*Policy proxy.* `ProxyIInv` bounds ages: access that holds now was taken away no time ago
(`GrantsAreFresh`), an allow on its way is no younger than the loss of the access it grants
(`FlightIsYoung`), and of a cached allow the time since that loss and what is left of its TTL are
together at most TTL and `Flight` (`CachedIsYoung`). `AccessEndsInTime` is then arithmetic.
`CacheIsSmall` is proved by cardinality; that there is an entry to evict follows from the
well-foundedness of the naturals.

*Access policies.* The engine is decided first, as lemmas about its operators for any policies, attributes
and tags: a policy that applies to a resource was a candidate before the resource was known
(`AppliesIsCandidate`), a blanket candidate applies to every resource (`BlanketApplies`), so the
listing is the check of each resource (`ListingIsTheCheck`), unless a denial for everything hides
behind a reference to the resource. `AccessIInv` then says what the rows are: a policy's name is its
own, so that `get_or_create` can be trusted (`GetOrCreateGives`); a person has one username and a
resource the tags it was given (`UsernamesAreOwn`, `SeedTagsAreOwn`); and as long as no admin has
written policies or tags, every policy is a seed or the open policy of a live app, and the seeds and
the policy of every app that the reset has passed are there (`SeedsAlone`). The last holds in the
middle of a reset, and across a removal and a new deployment under the same name.

*Memberships.* `MembersIInv` says what a request between two of its statements may have left: who
is in the organization has a membership, except between the two commits of a first login
(`InIsMember`), a session holds invitations sent to its own person (`SessionsHoldTheirOwn`), an
accepted invitation was sent (`UsedWereSent`), and before the first edit nothing makes anybody but
the founder an admin (`FounderFirst`).

*Entitlement.* `BrokerInv` is the type invariant, `AnswersAreSnapshots` (only a successful
answer is ever installed, which is what types the cache), `OneGetAtATime` (the lock's holder
is the one caller between its GET and its return) and `BufferBounded` (the report is the
buffer it emptied). `CreditHistory` adds that whoever was in credit since its arrival has an
answer that says so; with it the action property follows from the one step that decides.

*Credentials.* `Typed` strengthens the type invariant by the callers' records. `CredInv` adds,
per slug, that card and floor are never ahead of HumR (`Known`) and that a cached secret is at
least the floor, is the card's and is stored (`Kept`); and per caller that an answer not yet
applied is no older than card and floor (`Answers`) and that a confirmed deletion is a deleted
generation (`Confirms`). `Answers` is why the lock is held across the network: between an
answer and its application no card and no floor can move, because every writer of both finds
the lock taken (`OthersKeep`, `AloneStep`). The most delicate case is `MarkKeeps`: a confirmation that
arrives after the user has connected again sets the card back to the deleted generation and
drops the newer secret; the invariant survives because both go together. `HeldInv` says
that a request that found a usable secret still has it when its answer comes, because
nobody drops it while the request holds the lock. `RunInv` says that a process that runs with other
lines than the file's has an operation about to restart it, or one that should have and gave up,
or was spared. Nothing else is needed of the file: whatever operations empty, overwrite or publish
of each other's `.env.tmp`, whoever changes the file goes on to the restarts of its providers, and
a process reads the file as it starts.

*Sandbox slugs.* `SlugIInv` says that one row of the claim table at most exists, committed or not,
that a committed claim comes and goes with its App, and that an uncommitted App belongs to the
open transaction. One owner needs more (`OwnerIInv`): past the check of the hostname label the
organization sees no App of its own, so it cannot mistake a claim that is just being released for
its own, and nobody has an App from before the claims; past `get_or_create` the transaction
itself holds the slug. Both checks may pass in two transactions; the claim is what decides. The
hypotheses are exact: without a hosted zone the label is not checked, and a late removal thread
releases by slug and organization, whatever App holds it by then.

*Slack, deploys, roots.* `SlackIInv` describes what a save under way holds, so that the row it
writes is good although the stored row changed since it was read. `DeploysIInv` says that an open
transaction holds its environment's row lock and found it ready; `LimitIInv` that a transaction
that has counted still has room. `RootIInv` and `WholeIInv` follow the marker through a boot: a
root with the marker is whole, a task past its boot has one, and a rename publishes a whole
archive.

*Telegram, personal and shared logins.* Each handler reads, talks to a provider and writes, and
anything may have happened in between; the invariants say what it still knows. `TelegramIInv`: a
bot is named by a dialog that was opened, a stored row and a poll about to store one are of a bot
from a dialog of that very user, and a bot that was let go is of a dialog that is over. `OAuthIInv`
and `GrantsApart` (`UserOAuth`): a refresh carries what the provider issued, its answer is a later
rotation of the same grant, a verdict of revocation is true of the token it was given for, and a
grant that was disconnected is stored nowhere. `LosslessIInv` adds, while no answer is lost, that the
row holds the newest rotation or a refresher of that very token has the newest in its answer.
`KeptIInv` of `SharedLogins` says the same of the one holder of the row's lock, and that a login is
in one place: a row, or a request that has yet to store it; it needs that nobody re-targets a login
and no process dies, which the property states itself.

*Sign-ins.* `DcrIInv` ties flows, token file and refreshes to what the authorization server issued.
Three facts carry it. Client ids only grow, so a code that was asked for before a disconnect is
sent as another client and refused (`CutFlows`). Answers on their way are refresh tokens that the
server accepts, that nobody holds or has sent, each of its own (`AnswersApart`). And of the grant
that is held, the server accepts the token in memory, or the refresher that rotated it away has the
answer still before it, or an answer was lost (`HeldGrantLives`). Memory and disk are the same
between steps (`DiskIsMemory`).

*Framing.* `RelayIInv` says who has read how far. Between two messages neither the broker nor the
sandbox's parser expects anything (`NothingUnderWay`); within one the body that the broker still
counts is the body the parser waits for, in kind, position and number (`SameRest`); and the tokens
of a head say the same to both (`HeadsAreReadAlike`), because there is at most one length
among them. That is the hypothesis: of two lengths the code follows the last
(`tls_http_message_relay.py:455`) and forwards both, so what the sandbox would follow is its parser's
affair. What is left of a response is as tidy as the response (`TailsAreTidy`), which is
why a trailer is followed by another, a blank line or the end.

*Tool catalogue.* `CatalogIInv` has what a load may have been told (`LoadAnswers`) and, for each pair
of backend and connector, why it is or will be right. An answer is the truth until its backend
changes (`YoungAnswers`). After that, in a load that takes the lock, it still is for this pair, or a
further load of that backend waits for the lock, or somebody is about to notify the catalogue, or
one of the exceptions of the property has occurred (`OldAnswers`); a row is right, or covered by a
load under way, in the same way (`PairsAreCurrent`). `TakeLock` is where the order of these matters:
a load begins to list only when none that takes the lock is listing, so nobody holds an old answer
when a waiting load stops waiting. That is what the load at boot, which takes no lock, lacks. A drop
in place keeps the row's presence (`DropIs`), which needs that every pair that is shown has a row
once its backend has answered (`RowsAreSaid`). Index and tools agree at any time (`RowIs`).

*Migration.* `MigIInv` extends the root's invariant with how far a staging has come (`Landed`).
Begun with the service scaled to none and every task gone (seen in AWS, not in what the command
lists), it stays alone with the archive: nothing starts a task before finalize does
(`NoTaskNoStep`), and other stagers, whatever is left of failed phases, put the same archive there.
After a host-clear the roots are empty, so the first boot of every instance restores, and only the
staged state or its descendants are checked in (`RestoreKeepsItsArchive`, `LandedStays`). A phase
that is run again, fails or comes out of order either keeps `Landed` or ends that staging; a
host-clear of an agent that was started already is the end of it, which is why
`AgentKeepsItsState` is refuted. `KeptIInv` of `PersistentRoot` follows a
checkpoint through archive, restore and root on one instance.

*Only model-checked.*

* All liveness: `ExecutingSettles`, `QueuedJobsRun`, `ControlPlaneSettles`,
  `ContainerSettles` (temporal induction and ENABLED are beyond the provers used).
* `LedgerIsExact`, `StripeIsFollowed`: their sums are folds over sets, which need induction over
  data. `StreamsAreReadWhole`: what a reader of the usage has read is a recursive function of the
  stream, for the same reason.
* The composites over instances, in the MC modules: `LoginsFollowConsent`,
  `FrozenCostsAreFinal`, `SecretsAreInTheirPlace`, `LoginsAndListingsAreSound`,
  `DeploymentsAreClean`, `ImagesAreTheirContent`, `StacksMatchTheRows`, `PlansAgree`,
  `WorkloadsAreKept`. Nothing in principle keeps most of them
  from a proof; section 9 has the order.

## 7. What the models show about the code

Two statements of the repository that the code does not keep have a run whose counterexample is
the scenario:

1. **What is applied need not be what was approved** (`permissions_edited`). An edit checks the
   status of the request when it loads the row (`views/permissions_api.py:131`) and saves its
   statements without a lock or a second look (`services/permissions_service.py:152`); the
   executor reads the row when it runs. An edit under way during an approval changes what is
   applied, against `docs/permissions_broker_design.md:234-235`, "the reviewed artifact must
   equal the applied artifact".
2. **More agents than the plan** (`agents_over_plan`). An app whose removal is queued no longer
   counts (`services/template_deploy_service.py:170`), so another agent takes its place; when the
   removal fails, the app is back. `AgentsStayWithinPlan` proves the limit for removals that do
   not fail.

Others are properties that stand in their modules and that no run names, because each would need a
configuration of its own. Under the constants in the third column TLC refutes them; each comment in
the module quotes the statement.

| Property | Module | Refuted with | Where | What the code says of itself |
|---|---|---|---|---|
| `CappedRemainderRates` | `BillingLedger` | cap 1, the oldest event unpriceable | `services/billing/rating.py:168` | a capped pass leaves the remainder for the next tick (52-54); events the card cannot price fill every pass until they leave the horizon |
| `DeliveryOrderDoesNotMatter` | `StripeLifecycle` | two subscriptions | `stripe_lifecycle.py:685` | order doesn't matter (51-53); the invoice of a new subscription that overtakes the deletion of the old one is skipped for good |
| `FinalNeverChanges`, `GapsAreRecomputed` | `CostRefresh` | `no_progress`; `query` | `cost_refresh.py:101`, `:109` | a frozen day is never written again; gaps of missed runs are read again |
| `BaselineReflectsAws` | `PermissionRequests` | `crash` | `permissions_apply_executor.py:64` | the baseline always reflects what is in AWS |
| `FilterIsExact` | `AccessPolicies` | a denial for everything whose identity clause refers to the resource | `abac_service.py:421` | a listing returns only what the user may act on |
| `AcceptedOrRevoked`, `RejoinAddsNoRole`, `NobodyHalfIn` | `Memberships` | two requests; an edited role; OIDC with a crash | `invites.py:101`, `abac_service.py:599`, `auth.py:361` | an invitation is accepted or revoked; no second role is added; a row is created and joined |
| `TTLBoundsRevocation`, `RacersAgree` | `PolicyProxy` | `Flight` 1, two visits | `policy_proxy/app.py:148`, `pdp_cache.py:61` | the TTL bounds revocation latency; racing writers write the same |
| `SlugHasOneOwner` | `SandboxSlugs` | no hosted zone; late removal threads | `sandbox_service.py:95`, `app_remove_executor.py:169` | one global namespace |
| `NewAgentsAreWithinPlan` | `AgentDeploys` | two environments | `template_deploy_service.py:250` | no deploy past the plan's limit |
| `OnlyRemovalErases`, `FreeSlugIsClean` | `AppDeployment` | `RemoverLingers`; `SsmLags` | `app_remove_executor.py:418`, `:523` | a removal is the one destructive operation; nothing inheritable is left |
| `DefaultModelHasGrant` | `AppPlan` | a changed plan or preset | `app_config_builder.py:85` | a deploy whose preset the plan does not have is refused |
| `TagNamesContent`, `NoBuildCut` | `TemplateImages` | `Editable`; `BuildLimit` above `IdleLimit` | `template_images.py:156`, `deploy_base.py:514` | never a wrong image; the watchdog stops an inactive builder |
| `ReadyHasItsBase`, `NetworksAreDisjoint`, `ZoneHasOneOwner`, `ReadyServesItsZone` | `EnvironmentStacks` | a slug that extends another; two workers; `FormsOverlap`; `LookupFails` | `deploy_base.py:815`, `:698`, `views/environments.py:288`, `route53_utils.py:39` | teardown deletes its own stacks; a free block; a zone of one owner; HTTPS if a zone is configured |
| `CheckpointIsKept`, `RunsOnWholeRoot`, `RestoresIntoEmpty` | `PersistentRoot` | two instances; `MarkerEarly` | `persistent-root-runner.sh:300`, `:218` | the replacement restores what was checkpointed |
| `StopDestStops`, `ServiceComesBack`, `AgentKeepsItsState` | `RootMigration` | any values: a task that stops late; a stage phase run again; a host-clear run again | `humr_hermes_migrate.py:655`, `:315`, `:340` | stage with `--stop-dest` scales the destination to 0 and waits (12-15); each phase is idempotent and can be rerun on its own (4) |
| `NoWebappIsLost`, `PortsAreUnique`, `DeleteCanBeRepeated`, `RemovedStaysRemoved`, `KeptExampleIsInstalled` | `AppWorkloads` | two commands, or a crash; `PortsByHand`; a crash | `process_supervisor.py:73`, `widgets_runtime.py:882`, `:224`, `webapps:29`, `seed_example_webapps.py:140`, `:148` | mutations are serialized; a delete can be repeated; unregister removes |
| `NoResurrection` | `GoogleConnect` | two accounts | `provider_google.py:698` | the revocation mark is permanent |
| `NothingIsResurrected` | `GoogleConnect` | a first connect beside another callback and a disconnect | `provider_google.py:653` | the guard's read can't go stale before the write commits (634-636) |
| `ValidGrantIsKept` | `UserOAuth` | GitHub, two refreshers | `provider_github.py:269` | a valid grant is not deleted |
| `RotatedTokenIsKept`, `ReconnectKeepsTarget` | `SharedLogins` | `Retargets` | `org_shared_keys.py:411`, `:313` | brokers do not orphan one another; a reconnect keeps the target |
| `RenameKeepsTheOwner` | `SlackSetup` | two saves | `provider_slack.py:440` | a name-only save keeps the owner |
| `BotIsFound`, `NewBotAnswersItsCreator` | `TelegramSetup` | `Page` below the bots created; an edit beside a dialog | `provider_telegram.py:186`, `:283` | sessions cannot eat each other's events; a new bot answers its creator |
| `EveryRenderedLineIsApplied`, `BlockIsReplacedAtomically` | `CredentialBroker` | two providers of which one restarts only the WebUI; two operations | `credentials_service.py:232`, `:387` | file and gateway agree after a disconnect; the managed block is replaced atomically |
| `MirrorsCallable` | `ToolCatalog` | a load beside a disconnect | `mcp_top_level_tools.py:140` | the catalogue mirrors what is callable |
| `DisconnectSticks`, `RefreshKeepsTheGrant` | `DcrOAuth` | a disconnect beside a refresh; `Rotates` false | `mcp_aggregator.py:490`, `:114` | disconnect deletes the token; the refresh token is optional in an answer |
| `MarkerOnlyWhileConnected` | `DeviceFlow` | a disconnect | `credentials_service.py:108` | shown only while connected |
| `NoBrokenFraming`, `OnlyWholeRequests` | `MessageRelay` | a broken delimiter; a head cut short | `tls_http_message_relay.py:590`, `:197` | stop rather than emit garbage; complete requests only |

A hypothesis of a theorem or a restriction of a passing run (`Calm`, "tar extracts
the marker last", one environment per organization, `MaxCrashes = 0` under OIDC) is the negation
of one of these scenarios.

Observations made while modelling:

* A deployment slower than the no-progress timeout is settled by the reaper and settles
  again when it ends: the attempt both fails and succeeds in the trail, a retry may be
  under way beside it, and `OneThreadPerApp`, `SettledAtMostOnce`, `NoOrphanInfra` do
  not hold then, nor does `RemovalIsFinal` (its counterexample needs three attempts). They are
  therefore checked, and proved, without `no_progress`, `stalled_beat` and `recovery`.
* A process that dies between the save of a settled row and the insert of its record leaves an
  attempt without an outcome in the trail.
* `mark_disconnected` applied after a reconnect drops a valid secret until the follow-up
  refresh; nothing wrong is ever injected.
* A refresh ahead of expiry that fails slowly hands out the prior entry without looking at its
  expiry again.
* Two operations of the broker share one `.env.tmp`: `os.replace` of the second may find none and
  end that operation without its restarts, or publish what the first has emptied and not written
  yet. The restarts of whoever publishes last repair the processes, not the operation that ended.
* A connect whose restart fails reports nothing: `complete_device_flow` suppresses the error
  (`credentials_service.py:106`) and the dialog ends well beside processes that run the old lines.
* An env file that is emptied between another operation's open and write may be read by a third,
  which then carries over none of the user's own lines outside the managed block.
* Nothing brings back a document of app workloads that a crash left in its backup: the next command
  writes an empty one, and the boot registers only what it seeds.
* A bootstrap in which some providers fail transiently starts the processes without those
  providers' lines.

## 8. What is not modelled, and why

* *In modelled components.* Formats, names, logging, prices as data, the contents of templates
  and policies, DNS and the CDK itself; authentication of webhooks and brokers; checkout and
  portal sessions; plan changes by hand during a Stripe run; listener priorities and the cleanup
  of orphaned tasks; the cache of AWS resources behind permission suggestions; the organization-wide
  GitHub and AWS installations; TLS handshakes, certificates and upgrades to WebSocket; MCP sessions
  and the bodies of tool calls; the proxy's reports of activity and its streaming; a write of
  `client.json` or `token.json` that is torn by a crash; the Refresh-all cooldown of the credential
  broker (without it the model has more behaviours, not fewer); the user's own lines of the env file,
  outside the managed block; how a widget is rendered; during a migration other deployments of the
  service, a second operator, instances that are not ACTIVE, and an SSM command of host-clear that
  outlives the 120 s it is waited for.
* *External systems* are modelled from how the code uses them: Stripe as a seller with
  at-least-once events, AWS as existence of stacks and data, identity providers and OAuth servers as
  tables of grants, the control plane in `CredentialBroker` as a table of generations.
* *Not modelled at all.* Webapp public grants (one row under a unique constraint; `PolicyProxy`
  has what a window means to a visitor), git clients (no state), billing administration (read-only
  reports), the platform's CDK stacks, the UI apart from the dialogs that drive a flow, and
  interactive operator commands. `PROJECT.json` lists each with its reason.
* *Time* is dates in the ledger and the cost rows, seconds in Stripe's timestamps, what is left of a
  TTL in the proxy, ticks at the builder, and elsewhere an event that may happen ("the heartbeat
  grew too old"); durations are not measured.

## 9. Plan

Done: every module of section 2, the runs of section 3 and the proofs of section 6. Next, in order
of importance:

1. Proofs for the instances of the MC modules, in the order of what a reviewer would ask first:
   `AppDeployment` (`FreeSlugIsClean`, `StackFindsItsSecrets`), `EnvironmentStacks`,
   `TemplateImages`.
2. The parts of the billing modules that need no sums: `WriteOffOnlyWithGrant`, `GrantsArePaid`,
   `CancellationSticks`; `OneRefreshPerApp` and `FinalIsComplete` of `CostRefresh`.

## 10. Running

In this directory, with the TLA+ tools, the community modules and TLAPS installed:

    tlc -workers 2 -config Jobs.cfg MCJobSystem
    tlc -workers 2 -config Console.cfg MCConsole
    tlapm JobSystem_proofs.tla

A run takes up to four minutes; `JobSystem_proofs` and `Broker_proofs` about ten, the others a few minutes
each. `PROJECT.json` pairs every run with its module and configuration, every definition with
the lines it translates, every property with the change of the code that breaks it, and every
theorem with the property it proves.
