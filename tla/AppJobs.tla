------------------------------ MODULE AppJobs ------------------------------
(***************************************************************************)
(* The life of one App: admission of deploy and removal attempts           *)
(* (app_job_service), their claims (job_worker), and the two executors     *)
(* that run an attempt in a thread (app_deployment_executor,               *)
(* app_remove_executor).                                                   *)
(*                                                                         *)
(* An executor keeps the App it loaded in memory.  It settles the attempt  *)
(* by saving that object (no condition on the row's current job_status)    *)
(* and then inserting a DeploymentRecord: two statements, not one          *)
(* transaction.                                                            *)
(***************************************************************************)
EXTENDS Naturals, FiniteSets, Sequences

-----------------------------------------------------------------------------
(* The rows the control plane's job system shares: App and Environment     *)
(* rows, the worker runs that claim them, and the in-process threads that  *)
(* execute the claims.                                                     *)

CONSTANTS
  Apps,          \* App rows (one per slug; a deleted row never returns)
  Envs,          \* Environment rows
  EnvOf,         \* [Apps -> Envs]: App.environment, set at creation, immutable
  SandboxEnvs,   \* environments whose AWS account is the shared sandbox
  Runs,          \* identities of JobWorkerRun rows
  NoRun,         \* claimed_by_run IS NULL
  Labels,        \* worker / App labels
  Unscoped,      \* the empty label: the main worker
  LabelOf,       \* [Runs -> Labels]: the label a run was started with
  CdkSlots,      \* HUMR_MAX_CONCURRENT_CDK_JOBS
  MaxAttempts,   \* bound on the attempts opened on one App
  MaxEnvThreads, \* bound on the threads alive for one Environment
  Disturbances   \* what may happen to a row while a live thread works for it

ASSUME AppsAssumption == EnvOf \in [Apps -> Envs] /\ SandboxEnvs \subseteq Envs
ASSUME RunsAssumption ==
  /\ NoRun \notin Runs
  /\ Unscoped \in Labels
  /\ LabelOf \in [Runs -> Labels]
ASSUME BoundsAssumption ==
  /\ CdkSlots \in Nat \ {0}
  /\ MaxAttempts \in Nat \ {0}
  /\ MaxEnvThreads \in Nat \ {0}
\* "no_progress":  a live thread leaves its row untouched for longer than
\*                 HUMR_STALE_JOB_TIMEOUT_MINUTES, and the slow tier reaps it;
\* "stalled_beat": a live worker misses heartbeats for longer than
\*                 HUMR_DEAD_WORKER_TIMEOUT_MINUTES;
\* "recovery":     staff use the fleet page's recovery action;
\* "redeploy_env": staff send a READY environment back to provisioning, whatever
\*                 its apps are doing;
\* "insert_fails": the database refuses the DeploymentRecord insert that follows
\*                 the save of a deploy's result, which is then settled again.
ASSUME DisturbancesAssumption ==
  Disturbances \subseteq
    {"no_progress", "stalled_beat", "recovery", "redeploy_env", "insert_fails"}

VARIABLES
  app,        \* the App rows
  env,        \* the Environment rows
  appThread,  \* appThread[a][n]: the thread claimed for attempt n of app a
  envThread,  \* envThread[e][k]: the threads working on environment e
  run,        \* the JobWorkerRun rows and whether their process is alive
  freeSlots,  \* the CDK semaphore of each worker process
  trail,      \* trail[a][n]: DeploymentRecord events of attempt n, in order
  infra,      \* AWS: does the app's CloudFormation stack exist?
  data,       \* AWS: the app's persistent files and secrets
  base        \* AWS: does the environment's base stack exist?

vars == <<app, env, appThread, envThread, run, freeSlots, trail, infra, data, base>>

-----------------------------------------------------------------------------
(* Rows *)

JobStatus == {"IDLE", "DEPLOY_PENDING", "DEPLOYING", "REMOVAL_PENDING", "REMOVING"}
EXECUTING_JOB_STATUSES == {"DEPLOYING", "REMOVING"}
REMOVAL_JOB_STATUSES == {"REMOVAL_PENDING", "REMOVING"}

\* "NO_ROW": not created yet; "DELETED": the row was deleted.
AppRow == [job: JobStatus \cup {"NO_ROW", "DELETED"},
           att: 0..MaxAttempts,
           err: {"NONE", "DEPLOY_FAILED", "REMOVAL_FAILED"},
           live: {"NOT_DEPLOYED", "DEPLOYED"},
           mayInfra: BOOLEAN,
           run: Runs \cup {NoRun},
           label: Labels]

NewApp == [job |-> "NO_ROW", att |-> 0, err |-> "NONE", live |-> "NOT_DEPLOYED",
           mayInfra |-> FALSE, run |-> NoRun, label |-> Unscoped]

EnvStatus == {"PENDING", "PROVISIONING", "READY", "ERROR",
              "TEARDOWN_PENDING", "TEARING_DOWN"}
EnvRow == [status: EnvStatus \cup {"DELETED"}, run: Runs \cup {NoRun}]

EventType == {"DEPLOY_STARTED", "DEPLOY_SUCCEEDED", "DEPLOY_FAILED",
              "REMOVAL_STARTED", "REMOVAL_FAILED"}
SettleEvents == {"DEPLOY_SUCCEEDED", "DEPLOY_FAILED", "REMOVAL_FAILED"}

Present(a) == app[a].job \in JobStatus
AppsOf(e) == {a \in Apps : EnvOf[a] = e /\ Present(a)}

-----------------------------------------------------------------------------
(* Threads.  `job' and `att' are the fields of the App object the thread   *)
(* loaded and keeps in memory; `ev' is the event it has yet to record      *)
(* after saving the row.                                                   *)

AppThread == [kind: {"none", "deploy", "removal"},
              pc: {"end", "spawned", "refused", "running", "created",
                   "teardown", "torn", "purge", "delete", "failed", "record"},
              run: Runs \cup {NoRun},
              job: JobStatus,
              att: 0..MaxAttempts,
              ev: EventType \cup {"none"}]

NoThread == [kind |-> "none", pc |-> "end", run |-> NoRun, job |-> "IDLE",
             att |-> 0, ev |-> "none"]

Spawned(kind, r) == [NoThread EXCEPT !.kind = kind, !.pc = "spawned", !.run = r]

EnvThread == [kind: {"none", "provision", "teardown"},
              pc: {"end", "spawned", "running", "built", "apps", "purge", "base", "delete"},
              run: Runs \cup {NoRun},
              todo: SUBSET Apps,
              victims: SUBSET Apps]

NoEnvThread == [kind |-> "none", pc |-> "end", run |-> NoRun, todo |-> {}, victims |-> {}]

Attempts == 1..MaxAttempts
EnvThreads == 1..MaxEnvThreads

EnvThreadAlive(e) == \E k \in EnvThreads : envThread[e][k].kind # "none"

-----------------------------------------------------------------------------
(* Worker runs: the process and its heartbeat row.                         *)
(*   "none"    no row, no process          "late"    alive, row too old    *)
(*   "fresh"   alive and beating           "expired" dead, row too old     *)
(*   "crashed" dead, row not yet too old                                   *)

RunState == {"none", "fresh", "late", "crashed", "expired"}
Alive(r) == run[r] \in {"fresh", "late"}
HeartbeatExpired(r) == run[r] \in {"late", "expired"}

-----------------------------------------------------------------------------

EnvReady(a) == env[EnvOf[a]].status = "READY"

-----------------------------------------------------------------------------
(* Settling: the two halves of settle_deploy_success and settle_failure.   *)

FailureEventByJobStatus(job) ==
  CASE job \in {"DEPLOY_PENDING", "DEPLOYING"} -> "DEPLOY_FAILED"
    [] job \in REMOVAL_JOB_STATUSES           -> "REMOVAL_FAILED"
    [] OTHER                                  -> "none"

LastAttemptErrorByJobStatus(job) ==
  IF job \in REMOVAL_JOB_STATUSES THEN "REMOVAL_FAILED" ELSE "DEPLOY_FAILED"

\* The row after settle_failure saved it; `job' is the saver's in-memory status.
FailedRow(row, job) ==
  [row EXCEPT !.job = "IDLE", !.err = LastAttemptErrorByJobStatus(job)]

DeployedRow(row) ==
  [row EXCEPT !.job = "IDLE", !.live = "DEPLOYED", !.err = "NONE"]

Recorded(a, n, ev) ==
  IF ev = "none" THEN trail ELSE [trail EXCEPT ![a][n] = Append(@, ev)]

\* settle_failure run on every app of a set under one transaction (the reaper
\* and the fleet recovery): row and record together, from the row just read.
SettleFailureOfAll(S) ==
  /\ app' = [a \in Apps |-> IF a \in S THEN FailedRow(app[a], app[a].job) ELSE app[a]]
  /\ trail' = [a \in Apps |-> [n \in Attempts |->
                 IF a \in S /\ n = app[a].att
                 THEN Append(trail[a][n], FailureEventByJobStatus(app[a].job))
                 ELSE trail[a][n]]]

-----------------------------------------------------------------------------
(* Admission: queue_deploy and queue_removal, under the environment's row  *)
(* lock and then the app's.                                                *)

\* Bug: the environment is not looked at.
LockIgnoresEnvironment(a) == Present(a)

LockAppForAdmission(a) == Present(a) /\ EnvReady(a)
RequireIdle(a) == app[a].job = "IDLE"
RequireNoFailedRemoval(a) == app[a].err # "REMOVAL_FAILED"

\* A fresh attempt id, the error cleared, the started event: one transaction.
OpenAttempt(a, row, job, ev) ==
  /\ row.att < MaxAttempts
  /\ app' = [app EXCEPT ![a] = [row EXCEPT !.job = job, !.att = @ + 1, !.err = "NONE"]]
  /\ trail' = [trail EXCEPT ![a][row.att + 1] = Append(@, ev)]

NoThreadStep == UNCHANGED <<appThread, envThread, run, freeSlots, infra, data, base>>

\* deploy_from_template: create the App and queue its first deploy.
DeployFromTemplate(a) ==
  /\ app[a].job = "NO_ROW"
  /\ EnvReady(a)
  /\ \E l \in Labels :
       OpenAttempt(a, [app[a] EXCEPT !.label = l], "DEPLOY_PENDING", "DEPLOY_STARTED")
  /\ NoThreadStep /\ UNCHANGED env

QueueDeploy(a) ==
  /\ LockAppForAdmission(a)
  /\ RequireIdle(a)
  /\ RequireNoFailedRemoval(a)
  /\ OpenAttempt(a, app[a], "DEPLOY_PENDING", "DEPLOY_STARTED")
  /\ NoThreadStep /\ UNCHANGED env

\* The web and fleet callers keep the label (None); humr_control passes "".
QueueRemoval(a) ==
  /\ LockAppForAdmission(a)
  /\ RequireIdle(a)
  /\ \E l \in {app[a].label, Unscoped} :
       OpenAttempt(a, [app[a] EXCEPT !.label = l], "REMOVAL_PENDING", "REMOVAL_STARTED")
  /\ NoThreadStep /\ UNCHANGED env

-----------------------------------------------------------------------------
(* Claims: SELECT ... FOR UPDATE SKIP LOCKED of the app and its            *)
(* environment, then the thread is started.                                *)

\* Bug: only rows without a claimed_by_run are claimed; settling does not clear it.
ClaimDeployUnclaimedOnly(r, a) ==
  /\ Alive(r)
  /\ freeSlots[r] > 0
  /\ app[a].job = "DEPLOY_PENDING" /\ app[a].run = NoRun
  /\ app[a].label = LabelOf[r]
  /\ EnvReady(a)
  /\ app' = [app EXCEPT ![a].job = "DEPLOYING", ![a].mayInfra = TRUE, ![a].run = r]
  /\ appThread' = [appThread EXCEPT ![a][app[a].att] = Spawned("deploy", r)]
  /\ freeSlots' = [freeSlots EXCEPT ![r] = @ - 1]
  /\ UNCHANGED <<env, envThread, run, trail, infra, data, base>>

ClaimDeploy(r, a) ==
  /\ Alive(r)
  /\ freeSlots[r] > 0
  /\ app[a].job = "DEPLOY_PENDING"
  /\ app[a].label = LabelOf[r]
  /\ EnvReady(a)
  /\ app' = [app EXCEPT ![a].job = "DEPLOYING", ![a].mayInfra = TRUE, ![a].run = r]
  /\ appThread' = [appThread EXCEPT ![a][app[a].att] = Spawned("deploy", r)]
  /\ freeSlots' = [freeSlots EXCEPT ![r] = @ - 1]
  /\ UNCHANGED <<env, envThread, run, trail, infra, data, base>>

\* Bug: the claim keeps the previous attempt's claimed_by_run.
ClaimRemovalUnstamped(r, a) ==
  /\ Alive(r)
  /\ app[a].job = "REMOVAL_PENDING"
  /\ app[a].label = LabelOf[r]
  /\ EnvReady(a)
  /\ app' = [app EXCEPT ![a].job = "REMOVING"]
  /\ appThread' = [appThread EXCEPT ![a][app[a].att] = Spawned("removal", r)]
  /\ UNCHANGED <<env, envThread, run, freeSlots, trail, infra, data, base>>

ClaimRemoval(r, a) ==
  /\ Alive(r)
  /\ app[a].job = "REMOVAL_PENDING"
  /\ app[a].label = LabelOf[r]
  /\ EnvReady(a)
  /\ app' = [app EXCEPT ![a].job = "REMOVING", ![a].run = r]
  /\ appThread' = [appThread EXCEPT ![a][app[a].att] = Spawned("removal", r)]
  /\ UNCHANGED <<env, envThread, run, freeSlots, trail, infra, data, base>>

-----------------------------------------------------------------------------
(* Thread steps.  t is appThread[a][n].                                    *)

At(a, n, kind, pcs) ==
  /\ appThread[a][n].kind = kind
  /\ appThread[a][n].pc \in pcs

GoTo(a, n, pc) == appThread' = [appThread EXCEPT ![a][n].pc = pc]

\* The thread saved the settled row and goes on to record `ev'.
GoRecord(a, n, ev) ==
  appThread' = [appThread EXCEPT ![a][n].pc = "record", ![a][n].ev = ev]

\* The thread's target returns; a deployment also returns its CDK slot.
Finish(a, n) ==
  /\ appThread' = [appThread EXCEPT ![a][n] = NoThread]
  /\ freeSlots' = IF appThread[a][n].kind = "deploy"
                  THEN [freeSlots EXCEPT ![appThread[a][n].run] = @ + 1]
                  ELSE freeSlots

\* run_deployment and run_removal: the App is read (with its environment).
Loaded(a, n, pc) ==
  appThread' = [appThread EXCEPT ![a][n].pc = pc, ![a][n].job = app[a].job,
                                 ![a][n].att = app[a].att]

DeployLoad(a, n) ==
  /\ At(a, n, "deploy", {"spawned"})
  /\ Present(a)
  /\ Loaded(a, n, IF EnvReady(a) THEN "running" ELSE "refused")
  /\ UNCHANGED <<app, env, envThread, run, freeSlots, trail, infra, data, base>>

\* deploy_app.deploy: at some point the stack exists and its container runs,
\* and may write files and secrets under the app's name.
DeployCreatesInfra(a, n) ==
  /\ At(a, n, "deploy", {"running"})
  /\ infra' = [infra EXCEPT ![a] = TRUE]
  /\ data' = [data EXCEPT ![a] = {"files", "secrets"}]
  /\ GoTo(a, n, "created")
  /\ UNCHANGED <<app, env, envThread, run, freeSlots, trail, base>>

DeploySettleSuccess(a, n) ==
  /\ At(a, n, "deploy", {"created"})
  /\ Present(a)
  /\ app' = [app EXCEPT ![a] = DeployedRow(@)]
  /\ GoRecord(a, n, "DEPLOY_SUCCEEDED")
  /\ UNCHANGED <<env, envThread, run, freeSlots, trail, infra, data, base>>

\* A failed or refused deploy: the stack may exist or not.
DeploySettleFailure(a, n) ==
  LET job == appThread[a][n].job
  IN /\ At(a, n, "deploy", {"refused", "running", "created"})
     /\ Present(a)
     /\ app' = [app EXCEPT ![a] = FailedRow(@, job)]
     /\ GoRecord(a, n, FailureEventByJobStatus(job))
     /\ UNCHANGED <<env, envThread, run, freeSlots, trail, infra, data, base>>

\* The row is gone: the load finds nothing, or the save of a missing row raises,
\* the handler's save raises too, and _run_app_deployment_thread logs it.
\* A database outage has the same effect on the thread.
DeployThreadDies(a, n) ==
  /\ appThread[a][n].kind = "deploy"
  /\ Finish(a, n)
  /\ UNCHANGED <<app, env, envThread, run, trail, infra, data, base>>

\* The insert that follows the save.
WriteRecord(a, n) ==
  LET t == appThread[a][n]
  IN /\ t.pc = "record"
     /\ Present(a)
     /\ trail' = Recorded(a, t.att, t.ev)
     /\ Finish(a, n)
     /\ UNCHANGED <<app, env, envThread, run, infra, data, base>>

\* The insert fails after the row was saved.  run_deployment's handler settles
\* the attempt again: its object is IDLE now, which maps to no event.
DeployRecordFails(a, n) ==
  /\ "insert_fails" \in Disturbances
  /\ At(a, n, "deploy", {"record"})
  /\ appThread[a][n].ev # "none"
  /\ Present(a)
  /\ app' = [app EXCEPT ![a] = FailedRow(@, "IDLE")]
  /\ Finish(a, n)
  /\ UNCHANGED <<env, envThread, run, trail, infra, data, base>>

-----------------------------------------------------------------------------
(* Removal: tear the stack down if there may be one, purge the namespace,  *)
(* delete the row.                                                         *)

\* Bug: only an app that is shown as deployed has its stack torn down.
RemovalLoadTrustsLiveState(a, n) ==
  /\ At(a, n, "removal", {"spawned"})
  /\ IF Present(a)
     THEN /\ Loaded(a, n, IF app[a].live = "DEPLOYED" THEN "teardown" ELSE "purge")
          /\ UNCHANGED freeSlots
     ELSE Finish(a, n)
  /\ UNCHANGED <<app, env, envThread, run, trail, infra, data, base>>

\* A missing row ends the removal ("already gone").
RemovalLoad(a, n) ==
  /\ At(a, n, "removal", {"spawned"})
  /\ IF Present(a)
     THEN Loaded(a, n, IF app[a].mayInfra THEN "teardown" ELSE "purge") /\ UNCHANGED freeSlots
     ELSE Finish(a, n)
  /\ UNCHANGED <<app, env, envThread, run, trail, infra, data, base>>

RemovalTeardown(a, n) ==
  /\ At(a, n, "removal", {"teardown"})
  /\ infra' = [infra EXCEPT ![a] = FALSE]
  /\ GoTo(a, n, "torn")
  /\ UNCHANGED <<app, env, envThread, run, freeSlots, trail, data, base>>

RemovalClearsOutputs(a, n) ==
  /\ At(a, n, "removal", {"torn"})
  /\ Present(a)
  /\ app' = [app EXCEPT ![a].live = "NOT_DEPLOYED", ![a].mayInfra = FALSE]
  /\ GoTo(a, n, "purge")
  /\ UNCHANGED <<env, envThread, run, freeSlots, trail, infra, data, base>>

\* purge_app_namespace_data: files, then secrets; the first failing step stops
\* it, so the secrets are only touched once the files are gone.
PurgeFailureLeaves(a) == {data[a], data[a] \ {"files"}}

RemovalPurge(a, n) ==
  /\ At(a, n, "removal", {"purge"})
  /\ data' = [data EXCEPT ![a] = {}]
  /\ GoTo(a, n, "delete")
  /\ UNCHANGED <<app, env, envThread, run, freeSlots, trail, infra, base>>

RemovalPurgeFails(a, n) ==
  /\ At(a, n, "removal", {"purge"})
  /\ \E left \in PurgeFailureLeaves(a) : data' = [data EXCEPT ![a] = left]
  /\ GoTo(a, n, "failed")
  /\ UNCHANGED <<app, env, envThread, run, freeSlots, trail, infra, base>>

\* Deleting an App row cascades to its records and log lines.
DeleteRows(S) ==
  /\ app' = [a \in Apps |-> IF a \in S THEN [NewApp EXCEPT !.job = "DELETED"] ELSE app[a]]
  /\ trail' = [a \in Apps |-> IF a \in S THEN [n \in Attempts |-> <<>>] ELSE trail[a]]

RemovalDelete(a, n) ==
  /\ At(a, n, "removal", {"delete"})
  /\ DeleteRows({a})
  /\ Finish(a, n)
  /\ UNCHANGED <<env, envThread, run, infra, data, base>>

\* teardown_infra or the purge returned a failure.
RemovalSettleFailure(a, n) ==
  LET job == appThread[a][n].job
  IN /\ At(a, n, "removal", {"teardown", "failed"})
     /\ Present(a)
     /\ app' = [app EXCEPT ![a] = FailedRow(@, job)]
     /\ GoRecord(a, n, FailureEventByJobStatus(job))
     /\ UNCHANGED <<env, envThread, run, freeSlots, trail, infra, data, base>>

\* An exception anywhere in run_removal: fail_from_worker reads the row again
\* and settles it only while it is REMOVING, whichever attempt that is.  After
\* the row is settled only a refused insert of the record raises.
RemovalRaises(a, n) ==
  /\ \/ At(a, n, "removal", {"spawned", "teardown", "torn", "purge", "delete", "failed"})
     \/ At(a, n, "removal", {"record"}) /\ "insert_fails" \in Disturbances
  /\ IF app[a].job = "REMOVING"
     THEN /\ app' = [app EXCEPT ![a] = FailedRow(@, "REMOVING")]
          /\ appThread' = [appThread EXCEPT ![a][n].pc = "record", ![a][n].job = "REMOVING",
                             ![a][n].att = app[a].att, ![a][n].ev = "REMOVAL_FAILED"]
          /\ UNCHANGED freeSlots
     ELSE Finish(a, n) /\ UNCHANGED app
  /\ UNCHANGED <<env, envThread, run, trail, infra, data, base>>

-----------------------------------------------------------------------------
AppThreadStep(a, n) ==
  \/ DeployLoad(a, n) \/ DeployCreatesInfra(a, n)
  \/ DeploySettleSuccess(a, n) \/ DeploySettleFailure(a, n)
  \/ DeployThreadDies(a, n) \/ DeployRecordFails(a, n) \/ WriteRecord(a, n)
  \/ RemovalLoad(a, n) \/ RemovalTeardown(a, n) \/ RemovalClearsOutputs(a, n)
  \/ RemovalPurge(a, n) \/ RemovalPurgeFails(a, n) \/ RemovalDelete(a, n)
  \/ RemovalSettleFailure(a, n) \/ RemovalRaises(a, n)

AppAdmission(a) == DeployFromTemplate(a) \/ QueueDeploy(a) \/ QueueRemoval(a)
=============================================================================
