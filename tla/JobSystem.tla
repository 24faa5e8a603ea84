----------------------------- MODULE JobSystem -----------------------------
(***************************************************************************)
(* The job system: web requests and staff commands admit work, worker runs *)
(* claim it, threads execute it, and the reaper settles what was           *)
(* abandoned.  Every row change below is one database transaction or       *)
(* statement of the code; the interleavings between them are TLA+'s.       *)
(***************************************************************************)
EXTENDS AppJobs

Exists(e) == env[e].status # "DELETED"

\* transition_status: change the status only from an expected one.
TransitionStatus(e, expected, new) ==
  /\ env[e].status \in expected
  /\ env' = [env EXCEPT ![e].status = new]

NoJobStep == UNCHANGED <<app, appThread, envThread, run, freeSlots, trail, infra, data, base>>

-----------------------------------------------------------------------------
(* Environments: retry, redeploy and teardown admission                    *)
(* (environment_job_service and its callers), the claims of the unscoped   *)
(* worker, and the provisioning and teardown executors.                    *)

\* The web UI's retry of a failed environment.
EnvironmentRetry(e) == TransitionStatus(e, {"ERROR"}, "PENDING") /\ NoJobStep

\* humr_control redeploy-env: also from READY, whatever jobs its apps have.
RedeployEnvironment(e) ==
  /\ "redeploy_env" \in Disturbances
  /\ TransitionStatus(e, {"ERROR", "READY"}, "PENDING")
  /\ NoJobStep

\* Bug: the apps' jobs are not looked at.
QueueTeardownUnsettled(e) ==
  /\ env[e].status \in {"READY", "ERROR"}
  /\ env' = [env EXCEPT ![e].status = "TEARDOWN_PENDING"]
  /\ NoJobStep

\* queue_teardown, under the environment's row lock.
QueueTeardown(e) ==
  /\ env[e].status \in {"READY", "ERROR"}
  /\ \A a \in AppsOf(e) : app[a].job = "IDLE"
  /\ env' = [env EXCEPT ![e].status = "TEARDOWN_PENDING"]
  /\ NoJobStep

-----------------------------------------------------------------------------
(* Claims: the unscoped worker only; provisioning takes a CDK slot.        *)

Claim(r, e, from, to, kind) ==
  /\ Alive(r) /\ LabelOf[r] = Unscoped
  /\ env[e].status = from
  /\ env' = [env EXCEPT ![e] = [status |-> to, run |-> r]]
  /\ \E k \in EnvThreads :
       /\ envThread[e][k] = NoEnvThread
       /\ envThread' = [envThread EXCEPT ![e][k] =
                          [NoEnvThread EXCEPT !.kind = kind, !.pc = "spawned", !.run = r]]

ClaimProvisioning(r, e) ==
  /\ freeSlots[r] > 0
  /\ Claim(r, e, "PENDING", "PROVISIONING", "provision")
  /\ freeSlots' = [freeSlots EXCEPT ![r] = @ - 1]
  /\ UNCHANGED <<app, appThread, run, trail, infra, data, base>>

ClaimEnvironmentTeardown(r, e) ==
  /\ Claim(r, e, "TEARDOWN_PENDING", "TEARING_DOWN", "teardown")
  /\ UNCHANGED <<app, appThread, run, freeSlots, trail, infra, data, base>>

-----------------------------------------------------------------------------
(* Thread steps *)

EnvAt(e, k, kind, pc) == envThread[e][k].kind = kind /\ envThread[e][k].pc = pc
EnvGoTo(e, k, pc) == envThread' = [envThread EXCEPT ![e][k].pc = pc]

EnvFinish(e, k) ==
  /\ envThread' = [envThread EXCEPT ![e][k] = NoEnvThread]
  /\ freeSlots' = IF envThread[e][k].kind = "provision"
                  THEN [freeSlots EXCEPT ![envThread[e][k].run] = @ + 1]
                  ELSE freeSlots

\* run_provisioning goes on only while the row is still PROVISIONING.
ProvisionLoad(e, k) ==
  /\ EnvAt(e, k, "provision", "spawned")
  /\ IF env[e].status = "PROVISIONING"
     THEN EnvGoTo(e, k, "running") /\ UNCHANGED freeSlots
     ELSE EnvFinish(e, k)
  /\ UNCHANGED <<app, env, appThread, run, trail, infra, data, base>>

ProvisionCreatesBase(e, k) ==
  /\ EnvAt(e, k, "provision", "running")
  /\ base' = [base EXCEPT ![e] = TRUE]
  /\ EnvGoTo(e, k, "built")
  /\ UNCHANGED <<app, env, appThread, run, freeSlots, trail, infra, data>>

\* The result is written only while the row is PROVISIONING ("superseded" otherwise).
SettleProvisioning(e, new) ==
  IF env[e].status = "PROVISIONING" THEN env' = [env EXCEPT ![e].status = new]
  ELSE UNCHANGED env

ProvisionSucceeds(e, k) ==
  /\ EnvAt(e, k, "provision", "built")
  /\ SettleProvisioning(e, "READY")
  /\ EnvFinish(e, k)
  /\ UNCHANGED <<app, appThread, run, trail, infra, data, base>>

ProvisionFails(e, k) ==
  /\ EnvAt(e, k, "provision", "running") \/ EnvAt(e, k, "provision", "built")
  /\ SettleProvisioning(e, "ERROR")
  /\ EnvFinish(e, k)
  /\ UNCHANGED <<app, appThread, run, trail, infra, data, base>>

\* run_environment_teardown: the claim is checked, then the apps whose stack may
\* exist are listed.
TeardownLoad(e, k) ==
  /\ EnvAt(e, k, "teardown", "spawned")
  /\ envThread' = [envThread EXCEPT ![e][k] =
       IF env[e].status = "TEARING_DOWN"
       THEN [@ EXCEPT !.pc = "apps", !.todo = {a \in AppsOf(e) : app[a].mayInfra}]
       ELSE NoEnvThread]
  /\ UNCHANGED <<app, env, appThread, run, freeSlots, trail, infra, data, base>>

TeardownAppInfra(e, k, a) ==
  /\ EnvAt(e, k, "teardown", "apps")
  /\ a \in envThread[e][k].todo
  /\ infra' = [infra EXCEPT ![a] = FALSE]
  /\ envThread' = [envThread EXCEPT ![e][k].todo = @ \ {a}]
  /\ UNCHANGED <<app, env, appThread, run, freeSlots, trail, data, base>>

\* Sandbox: list every app, to purge each and then delete exactly these.
\* Customer: the base infrastructure comes next.
TeardownAppsDone(e, k) ==
  /\ EnvAt(e, k, "teardown", "apps")
  /\ envThread[e][k].todo = {}
  /\ envThread' = [envThread EXCEPT ![e][k] =
       IF e \in SandboxEnvs
       THEN [@ EXCEPT !.pc = "purge", !.todo = AppsOf(e), !.victims = AppsOf(e)]
       ELSE [@ EXCEPT !.pc = "base"]]
  /\ UNCHANGED <<app, env, appThread, run, freeSlots, trail, infra, data, base>>

TeardownPurgeApp(e, k, a) ==
  /\ EnvAt(e, k, "teardown", "purge")
  /\ a \in envThread[e][k].todo
  /\ data' = [data EXCEPT ![a] = {}]
  /\ envThread' = [envThread EXCEPT ![e][k].todo = @ \ {a}]
  /\ UNCHANGED <<app, env, appThread, run, freeSlots, trail, infra, base>>

TeardownPurgeDone(e, k) ==
  /\ EnvAt(e, k, "teardown", "purge")
  /\ envThread[e][k].todo = {}
  /\ EnvGoTo(e, k, "delete")
  /\ UNCHANGED <<app, env, appThread, run, freeSlots, trail, infra, data, base>>

TeardownBase(e, k) ==
  /\ EnvAt(e, k, "teardown", "base")
  /\ base' = [base EXCEPT ![e] = FALSE]
  /\ EnvGoTo(e, k, "delete")
  /\ UNCHANGED <<app, env, appThread, run, freeSlots, trail, infra, data>>

\* One transaction deletes the apps and the environment.  The App foreign key is
\* PROTECT: a sandbox app that is not on the list keeps everything undeleted.
TeardownDeleteRecords(e, k) ==
  LET doomed == IF e \in SandboxEnvs THEN envThread[e][k].victims ELSE AppsOf(e)
  IN /\ EnvAt(e, k, "teardown", "delete")
     /\ Exists(e)
     /\ AppsOf(e) \subseteq doomed
     /\ DeleteRows(doomed)
     /\ env' = [env EXCEPT ![e] = [status |-> "DELETED", run |-> NoRun]]
     /\ EnvFinish(e, k)
     /\ UNCHANGED <<appThread, run, infra, data, base>>

\* A failing step: the row is saved as ERROR whatever its status is by now.
\* Until it failed the step may have purged part of one app, or deleted the base.
TeardownFails(e, k) ==
  LET t == envThread[e][k]
  IN /\ t.kind = "teardown" /\ t.pc # "spawned"
     /\ IF Exists(e) THEN env' = [env EXCEPT ![e].status = "ERROR"] ELSE UNCHANGED env
     /\ \/ UNCHANGED <<data, base>>
        \/ /\ t.pc = "purge"
           /\ \E a \in t.todo : \E left \in PurgeFailureLeaves(a) :
                data' = [data EXCEPT ![a] = left]
           /\ UNCHANGED base
        \/ /\ t.pc = "base"
           /\ base' = [base EXCEPT ![e] = FALSE]
           /\ UNCHANGED data
     /\ EnvFinish(e, k)
     /\ UNCHANGED <<app, appThread, run, trail, infra>>

\* An error outside the handled part of run_provisioning or run_environment_teardown.
EnvThreadDies(e, k) ==
  /\ envThread[e][k].kind # "none"
  /\ EnvFinish(e, k)
  /\ UNCHANGED <<app, env, appThread, run, trail, infra, data, base>>

-----------------------------------------------------------------------------
EnvThreadStep(e, k) ==
  \/ ProvisionLoad(e, k) \/ ProvisionCreatesBase(e, k)
  \/ ProvisionSucceeds(e, k) \/ ProvisionFails(e, k)
  \/ TeardownLoad(e, k) \/ TeardownAppsDone(e, k) \/ TeardownPurgeDone(e, k)
  \/ TeardownBase(e, k) \/ TeardownDeleteRecords(e, k) \/ TeardownFails(e, k)
  \/ EnvThreadDies(e, k)
  \/ \E a \in Apps : TeardownAppInfra(e, k, a) \/ TeardownPurgeApp(e, k, a)

EnvAdmission(e) == EnvironmentRetry(e) \/ RedeployEnvironment(e) \/ QueueTeardown(e)

-----------------------------------------------------------------------------
(* Worker runs and their heartbeats (job_worker), the stale-job reaper's   *)
(* two tiers (stale_job_reaper), and the staff recovery of unsettled app   *)
(* jobs (fleet_service).                                                   *)

\* Bug: an abandoned teardown is never reaped.
ReapableProvisioningOnly(e) == env[e].status = "PROVISIONING"

\* REAPABLE_ENVIRONMENT_STATUSES.
ReapableEnvironment(e) == env[e].status \in {"PROVISIONING", "TEARING_DOWN"}

-----------------------------------------------------------------------------
(* Worker runs *)

\* start_worker: a new run id; the process's semaphore starts full.  The first
\* thing the loop does is to write the heartbeat row.  Run ids are never reused; an
\* identity no executing row refers to any more stands for the next new one.
Unreferenced(r) ==
  /\ \A a \in Apps : app[a].run = r => app[a].job \notin EXECUTING_JOB_STATUSES
  /\ \A e \in Envs : env[e].run = r => ~ReapableEnvironment(e)

StartWorker(r) ==
  /\ ~Alive(r)
  /\ run[r] # "none" => Unreferenced(r)
  /\ run' = [run EXCEPT ![r] = "fresh"]
  /\ freeSlots' = [freeSlots EXCEPT ![r] = CdkSlots]
  /\ UNCHANGED <<app, env, appThread, envThread, trail, infra, data, base>>

BeatWorkerRun(r) ==
  /\ run[r] = "late"
  /\ run' = [run EXCEPT ![r] = "fresh"]
  /\ UNCHANGED <<app, env, appThread, envThread, freeSlots, trail, infra, data, base>>

\* The heartbeat grows older than HUMR_DEAD_WORKER_TIMEOUT_MINUTES.
HeartbeatExpires(r) ==
  /\ \/ run[r] = "crashed" /\ run' = [run EXCEPT ![r] = "expired"]
     \/ /\ "stalled_beat" \in Disturbances
        /\ run[r] = "fresh" /\ run' = [run EXCEPT ![r] = "late"]
  /\ UNCHANGED <<app, env, appThread, envThread, freeSlots, trail, infra, data, base>>

\* The process dies (a CP deployment or a crash) and its daemon threads with it.
WorkerDies(r) ==
  /\ Alive(r)
  /\ run' = [run EXCEPT ![r] = IF @ = "fresh" THEN "crashed" ELSE "expired"]
  /\ appThread' = [a \in Apps |-> [n \in Attempts |->
       IF appThread[a][n].run = r THEN NoThread ELSE appThread[a][n]]]
  /\ envThread' = [e \in Envs |-> [k \in EnvThreads |->
       IF envThread[e][k].run = r THEN NoEnvThread ELSE envThread[e][k]]]
  /\ freeSlots' = [freeSlots EXCEPT ![r] = CdkSlots]
  /\ UNCHANGED <<app, env, trail, infra, data, base>>

-----------------------------------------------------------------------------
(* The reaper, run by an unscoped worker.                                  *)

ReaperRuns == \E r \in Runs : Alive(r) /\ LabelOf[r] = Unscoped

ClaimedByDeadRun(claimedBy) == claimedBy # NoRun /\ HeartbeatExpired(claimedBy)

StaleApps == {a \in Apps : app[a].job \in EXECUTING_JOB_STATUSES /\ ClaimedByDeadRun(app[a].run)}

StaleEnvironments == {e \in Envs : ReapableEnvironment(e) /\ ClaimedByDeadRun(env[e].run)}

EnvironmentsToError(S) ==
  env' = [e \in Envs |-> IF e \in S THEN [env[e] EXCEPT !.status = "ERROR"] ELSE env[e]]

\* Dead-worker tier: every executing row whose claiming run stopped beating.
ReapDeadWorkerApps ==
  /\ ReaperRuns /\ StaleApps # {}
  /\ SettleFailureOfAll(StaleApps)
  /\ UNCHANGED <<env, appThread, envThread, run, freeSlots, infra, data, base>>

ReapDeadWorkerEnvironments ==
  /\ ReaperRuns /\ StaleEnvironments # {}
  /\ EnvironmentsToError(StaleEnvironments)
  /\ UNCHANGED <<app, appThread, envThread, run, freeSlots, trail, infra, data, base>>

\* No-progress tier: a row nobody touched for long.  No thread works for it any
\* more, or one does and is slow.
MayBeSlow == "no_progress" \in Disturbances

WorksFor(a, n) == appThread[a][n].kind # "none" /\ appThread[a][n].pc # "record"

ReapUntouchedApp(a) ==
  /\ ReaperRuns
  /\ app[a].job \in EXECUTING_JOB_STATUSES
  /\ MayBeSlow \/ ~\E n \in Attempts : WorksFor(a, n)
  /\ SettleFailureOfAll({a})
  /\ UNCHANGED <<env, appThread, envThread, run, freeSlots, infra, data, base>>

ReapUntouchedEnvironment(e) ==
  /\ ReaperRuns
  /\ ReapableEnvironment(e)
  /\ MayBeSlow \/ ~EnvThreadAlive(e)
  /\ EnvironmentsToError({e})
  /\ UNCHANGED <<app, appThread, envThread, run, freeSlots, trail, infra, data, base>>

\* Dead run rows are deleted; SET_NULL detaches the rows that point at them.  The
\* identity stands for a new run from then on.
PruneWorkerRun(r) ==
  /\ ReaperRuns
  /\ run[r] = "expired"
  /\ run' = [run EXCEPT ![r] = "none"]
  /\ app' = [a \in Apps |-> IF app[a].run = r THEN [app[a] EXCEPT !.run = NoRun] ELSE app[a]]
  /\ env' = [e \in Envs |-> IF env[e].run = r THEN [env[e] EXCEPT !.run = NoRun] ELSE env[e]]
  /\ UNCHANGED <<appThread, envThread, freeSlots, trail, infra, data, base>>

-----------------------------------------------------------------------------
\* fail_unsettled_deployments: every app not IDLE, in one transaction.
UnsettledApps == {a \in Apps : Present(a) /\ app[a].job # "IDLE"}

FailUnsettledDeployments ==
  /\ "recovery" \in Disturbances
  /\ UnsettledApps # {}
  /\ SettleFailureOfAll(UnsettledApps)
  /\ UNCHANGED <<env, appThread, envThread, run, freeSlots, infra, data, base>>

-----------------------------------------------------------------------------
WorkerStep(r) ==
  \/ StartWorker(r) \/ BeatWorkerRun(r) \/ HeartbeatExpires(r) \/ WorkerDies(r)
  \/ PruneWorkerRun(r)
  \/ \E a \in Apps : ClaimDeploy(r, a) \/ ClaimRemoval(r, a)
  \/ \E e \in Envs : ClaimProvisioning(r, e) \/ ClaimEnvironmentTeardown(r, e)

ReaperStep ==
  \/ ReapDeadWorkerApps \/ ReapDeadWorkerEnvironments
  \/ \E a \in Apps : ReapUntouchedApp(a)
  \/ \E e \in Envs : ReapUntouchedEnvironment(e)

-----------------------------------------------------------------------------

Init ==
  /\ app = [a \in Apps |-> NewApp]
  \* A customer environment is created PENDING by the setup form; the sandbox
  \* environment is created READY over a base shared by all organizations.
  /\ env = [e \in Envs |-> [status |-> IF e \in SandboxEnvs THEN "READY" ELSE "PENDING",
                            run |-> NoRun]]
  /\ appThread = [a \in Apps |-> [n \in Attempts |-> NoThread]]
  /\ envThread = [e \in Envs |-> [k \in EnvThreads |-> NoEnvThread]]
  /\ run = [r \in Runs |-> "none"]
  /\ freeSlots = [r \in Runs |-> CdkSlots]
  /\ trail = [a \in Apps |-> [n \in Attempts |-> <<>>]]
  /\ infra = [a \in Apps |-> FALSE]
  /\ data = [a \in Apps |-> {}]
  /\ base = [e \in Envs |-> e \in SandboxEnvs]

Next ==
  \/ \E a \in Apps : AppAdmission(a)
  \/ \E e \in Envs : EnvAdmission(e)
  \/ \E r \in Runs : WorkerStep(r)
  \/ \E a \in Apps, n \in Attempts : AppThreadStep(a, n)
  \/ \E e \in Envs, k \in EnvThreads : EnvThreadStep(e, k)
  \/ ReaperStep
  \/ FailUnsettledDeployments

Spec == Init /\ [][Next]_vars

-----------------------------------------------------------------------------
\* Every variable has its type, through every interleaving: in particular no row
\* takes a status, and no record an event, that the models do not define.
TypeOK ==
  /\ app \in [Apps -> AppRow]
  /\ env \in [Envs -> EnvRow]
  /\ appThread \in [Apps -> [Attempts -> AppThread]]
  /\ envThread \in [Envs -> [EnvThreads -> EnvThread]]
  /\ run \in [Runs -> RunState]
  /\ freeSlots \in [Runs -> Nat]
  /\ trail \in [Apps -> [Attempts -> Seq(EventType)]]
  /\ infra \in [Apps -> BOOLEAN]
  /\ data \in [Apps -> SUBSET {"files", "secrets"}]
  /\ base \in [Envs -> BOOLEAN]

-----------------------------------------------------------------------------
(* Safety *)

TeardownStatuses == {"TEARDOWN_PENDING", "TEARING_DOWN"}

\* An environment that is queued for teardown or being torn down owns all its
\* apps: no deploy or removal is queued or executing on any of them, in whatever
\* order admissions, claims, reaps and late threads come (queue_teardown: "only
\* after all environment-owned work has settled").
TeardownOwnsEnvironment ==
  \A e \in Envs : env[e].status \in TeardownStatuses =>
    \A a \in AppsOf(e) : app[a].job = "IDLE"

\* At most one thread works for an app, it works for the row's current attempt,
\* and the row says so: an attempt is never taken from under a thread at work.
OneThreadPerApp ==
  \A a \in Apps, n \in Attempts : WorksFor(a, n) =>
    /\ app[a].att = n
    /\ app[a].job = IF appThread[a][n].kind = "deploy" THEN "DEPLOYING" ELSE "REMOVING"

\* No stack outlives its row, and a row whose stack may exist says so: removal and
\* environment teardown, which consult may_have_infra, leave nothing running.
NoOrphanInfra == \A a \in Apps : infra[a] => Present(a) /\ app[a].mayInfra

\* The files and secrets of an app that was removed, or that went with its sandbox
\* environment, are gone before its row is: a successor under the same slug
\* inherits nothing (purge_app_namespace_data).
NoInheritedData ==
  \A a \in Apps : app[a].job = "DELETED" /\ EnvOf[a] \in SandboxEnvs => data[a] = {}

\* A READY environment has its base infrastructure, through failed teardowns,
\* retries, crashes and superseded provisioning results.
ReadyHasBase == \A e \in Envs : env[e].status = "READY" => base[e]

\* An attempt is concluded at most once in the audit trail: it never both fails and
\* succeeds, and is never failed twice (DeploymentRecord: "a settle event when it
\* concludes").
SettledAtMostOnce ==
  \A a \in Apps, n \in Attempts : \A i, j \in DOMAIN trail[a][n] :
    trail[a][n][i] \in SettleEvents /\ trail[a][n][j] \in SettleEvents => i = j

\* A worker's semaphore is short exactly by the deployments and provisionings its
\* process runs: no path through a claim, a thread or a crash leaks a slot or
\* returns one twice.
Deploying(r) ==
  {i \in Apps \X Attempts :
     appThread[i[1]][i[2]].kind = "deploy" /\ appThread[i[1]][i[2]].run = r}
Provisioning(r) ==
  {i \in Envs \X EnvThreads :
     envThread[i[1]][i[2]].kind = "provision" /\ envThread[i[1]][i[2]].run = r}
SlotsConserved ==
  \A r \in Runs : freeSlots[r] + Cardinality(Deploying(r)) + Cardinality(Provisioning(r)) = CdkSlots

Opened(a, n, ev) == trail[a][n] # <<>> /\ Head(trail[a][n]) = ev

\* An app once queued for removal is never deployed again: every later attempt is
\* another removal, whether the first failed, was reaped or lost its worker
\* (_require_no_failed_removal).
RemovalIsFinal ==
  \A a \in Apps, m, n \in Attempts :
    m < n /\ Opened(a, m, "REMOVAL_STARTED") => ~Opened(a, n, "DEPLOY_STARTED")

\* What the rows say of AWS is true, through failures, reaps and crashes: no
\* stack without a row that owns up to it, no READY environment without its
\* base, and nothing left of a sandbox app for the next one of its slug.
RowsTellTheInfra == NoOrphanInfra /\ ReadyHasBase /\ NoInheritedData

\* An attempt has one thread at most, which leaves one result at most and one
\* slot free when it is over, and after a removal there is no deploy.
AttemptsAreSound ==
  OneThreadPerApp /\ SettledAtMostOnce /\ RemovalIsFinal /\ SlotsConserved

\* The job system implements exclusive ownership of each app's infrastructure.
Ownership == INSTANCE InfraOwnership WITH
  busy <- {a \in Apps : Present(a) /\ app[a].job # "IDLE"},
  closing <- {e \in Envs : env[e].status \in TeardownStatuses},
  stack <- infra,
  gone <- {a \in Apps : app[a].job = "DELETED"}
\* Under one owner at a time: an app's attempt and its environment's teardown exclude
\* each other, only the owner changes the stack, and no app with a stack is
\* forgotten, whatever worker, thread or reaper does it.
OwnershipSpec == Ownership!Spec

-----------------------------------------------------------------------------
(* Liveness.  A worker process is restarted when it is gone, beats and polls *)
(* forever while it lives, and reaps on the first pass of its loop; job      *)
(* threads come to an end.  A process may die at any point, again and again, *)
(* hence strong fairness for what a worker does between two crashes.  What   *)
(* users and staff do is not fair.                                           *)

Fairness ==
  /\ WF_vars(\E r \in Runs : StartWorker(r))
  /\ WF_vars(\E r \in Runs : HeartbeatExpires(r))
  /\ SF_vars(\E r \in Runs, a \in Apps : ClaimDeploy(r, a) \/ ClaimRemoval(r, a))
  /\ SF_vars(ReapDeadWorkerApps \/ \E a \in Apps : ReapUntouchedApp(a))
  /\ SF_vars(ReapDeadWorkerEnvironments \/ \E e \in Envs : ReapUntouchedEnvironment(e))
  /\ WF_vars(\E a \in Apps, n \in Attempts : AppThreadStep(a, n))
  /\ WF_vars(\E e \in Envs, k \in EnvThreads : EnvThreadStep(e, k))

FairSpec == Spec /\ Fairness

\* No job stays in an executing status for ever, whatever crashes: its thread
\* settles it or the reaper does, so the app and the environment accept work again.
ExecutingSettles ==
  /\ \A a \in Apps : app[a].job \in EXECUTING_JOB_STATUSES ~> app[a].job \notin EXECUTING_JOB_STATUSES
  /\ \A e \in Envs :
       env[e].status \in {"PROVISIONING", "TEARING_DOWN"}
         ~> env[e].status \notin {"PROVISIONING", "TEARING_DOWN"}

\* In an environment that stays READY, every queued job is claimed.
QueuedJobsRun ==
  \A a \in Apps :
    <>[]EnvReady(a) =>
      /\ app[a].job = "DEPLOY_PENDING" ~> app[a].job # "DEPLOY_PENDING"
      /\ app[a].job = "REMOVAL_PENDING" ~> app[a].job # "REMOVAL_PENDING"
=============================================================================
