-------------------------- MODULE JobSystem_proofs --------------------------
(***************************************************************************)
(* Theorems about JobSystem, for any apps, environments, worker runs,      *)
(* labels, bounds and disturbances.                                        *)
(***************************************************************************)
EXTENDS JobSystem, FiniteSetTheorems, TLAPS

-----------------------------------------------------------------------------
(* Rows and threads keep their types. *)

\* A failed attempt's row is a row (settle_failure).
LEMMA FailedRowType ==
  ASSUME NEW row \in AppRow, NEW job
  PROVE  FailedRow(row, job) \in AppRow
BY DEF FailedRow, LastAttemptErrorByJobStatus, AppRow, JobStatus

\* and nobody is left working on it.
LEMMA FailedRowIdle ==
  ASSUME NEW row \in AppRow, NEW job
  PROVE  FailedRow(row, job).job = "IDLE"
BY DEF FailedRow, AppRow

\* The event of an abandoned attempt is an event, or none (FAILURE_EVENT_BY_JOB_STATUS).
LEMMA FailureEventType ==
  ASSUME NEW job \in JobStatus
  PROVE  FailureEventByJobStatus(job) \in EventType \cup {"none"}
BY DEF FailureEventByJobStatus, REMOVAL_JOB_STATUSES, JobStatus, EventType

\* Every abandoned attempt, one that is not idle, has a failure event.
LEMMA FailureEventDefined ==
  ASSUME NEW job \in JobStatus \ {"IDLE"}
  PROVE  FailureEventByJobStatus(job) \in EventType
BY DEF FailureEventByJobStatus, REMOVAL_JOB_STATUSES, JobStatus, EventType

\* Inserting a record keeps the trail a trail.
LEMMA RecordedType ==
  ASSUME trail \in [Apps -> [Attempts -> Seq(EventType)]],
         NEW a \in Apps, NEW n, NEW ev \in EventType \cup {"none"}
  PROVE  Recorded(a, n, ev) \in [Apps -> [Attempts -> Seq(EventType)]]
<1>1. CASE ev = "none"
  BY <1>1 DEF Recorded
<1>2. CASE ev # "none"
  <2>1. ev \in EventType
    BY <1>2
  <2>2. CASE n \in Attempts
    <3>1. Append(trail[a][n], ev) \in Seq(EventType)
      BY <2>1, <2>2
    <3>2. QED  BY <1>2, <2>2, <3>1 DEF Recorded
  <2>3. CASE n \notin Attempts
    <3>1. [trail[a] EXCEPT ![n] = Append(@, ev)] = trail[a]
      BY <2>3
    <3>2. QED  BY <1>2, <3>1 DEF Recorded
  <2>4. QED  BY <2>2, <2>3
<1>3. QED  BY <1>1, <1>2

\* An idle thread slot is a thread.
LEMMA NoThreadType == NoThread \in AppThread
BY BoundsAssumption DEF NoThread, AppThread, JobStatus

\* A thread that ends leaves the threads and the slots typed.
LEMMA FinishType ==
  ASSUME TypeOK, NEW a \in Apps, NEW n \in Attempts, Finish(a, n)
  PROVE  /\ appThread' \in [Apps -> [Attempts -> AppThread]]
         /\ freeSlots' \in [Runs -> Nat]
<1>1. NoThread \in AppThread
  BY NoThreadType
<1>2. appThread' \in [Apps -> [Attempts -> AppThread]]
  BY <1>1 DEF Finish, TypeOK
<1>3. freeSlots' \in [Runs -> Nat]
  <2>1. ASSUME NEW r PROVE [freeSlots EXCEPT ![r] = @ + 1] \in [Runs -> Nat]
    <3>1. CASE r \in Runs
      BY <3>1 DEF TypeOK
    <3>2. CASE r \notin Runs
      BY <3>2 DEF TypeOK
    <3>3. QED  BY <3>1, <3>2
  <2>2. QED  BY <2>1 DEF Finish, TypeOK
<1>4. QED  BY <1>2, <1>3

\* The initial state is typed.
LEMMA InitType == Init => TypeOK
<1> SUFFICES ASSUME Init PROVE TypeOK
  OBVIOUS
<1>2. app \in [Apps -> AppRow]
  BY RunsAssumption, BoundsAssumption DEF Init, NewApp, AppRow, JobStatus
<1>3. env \in [Envs -> EnvRow]
  BY DEF Init, EnvRow, EnvStatus
<1>4. appThread \in [Apps -> [Attempts -> AppThread]]
  BY BoundsAssumption DEF Init, NoThread, AppThread, JobStatus
<1>5. envThread \in [Envs -> [EnvThreads -> EnvThread]]
  BY DEF Init, NoEnvThread, EnvThread
<1>6. run \in [Runs -> RunState] /\ freeSlots \in [Runs -> Nat]
  BY BoundsAssumption DEF Init, RunState
<1>7. trail \in [Apps -> [Attempts -> Seq(EventType)]]
  BY DEF Init
<1>8. infra \in [Apps -> BOOLEAN] /\ data \in [Apps -> SUBSET {"files", "secrets"}]
  BY DEF Init
<1>9. base \in [Envs -> BOOLEAN]
  BY DEF Init
<1>10. QED
  BY <1>2, <1>3, <1>4, <1>5, <1>6, <1>7, <1>8, <1>9 DEF TypeOK

\* The row of a freshly opened attempt is a row (_open_attempt).
LEMMA OpenedRowType ==
  ASSUME NEW row \in AppRow, row.att < MaxAttempts, NEW job \in JobStatus
  PROVE  [row EXCEPT !.job = job, !.att = @ + 1, !.err = "NONE"] \in AppRow
<1>1. row.att + 1 \in 0..MaxAttempts
  BY BoundsAssumption DEF AppRow
<1>2. QED  BY <1>1 DEF AppRow

\* Opening an attempt keeps rows and trail typed (_open_attempt).
LEMMA OpenAttemptType ==
  ASSUME TypeOK, NEW a \in Apps, NEW l \in Labels, NEW job \in JobStatus,
         NEW ev \in EventType, OpenAttempt(a, [app[a] EXCEPT !.label = l], job, ev)
  PROVE  /\ app' \in [Apps -> AppRow]
         /\ trail' \in [Apps -> [Attempts -> Seq(EventType)]]
<1> DEFINE row == [app[a] EXCEPT !.label = l]
<1>1. app[a] \in AppRow
  BY DEF TypeOK
<1>2. row \in AppRow /\ row.att \in 0..MaxAttempts
  BY <1>1 DEF AppRow
<1>3. row.att < MaxAttempts
  BY DEF OpenAttempt
<1>4. [row EXCEPT !.job = job, !.att = @ + 1, !.err = "NONE"] \in AppRow
  BY <1>2, <1>3, OpenedRowType
<1>5. app' \in [Apps -> AppRow]
  BY <1>4 DEF OpenAttempt, TypeOK
<1>6. row.att + 1 \in Attempts
  BY <1>2, <1>3, BoundsAssumption DEF Attempts
<1>7. Append(trail[a][row.att + 1], ev) \in Seq(EventType)
  BY <1>6 DEF TypeOK
<1>8. trail' \in [Apps -> [Attempts -> Seq(EventType)]]
  BY <1>6, <1>7 DEF OpenAttempt, TypeOK
<1>9. QED  BY <1>5, <1>8

\* Queueing keeps every type.
LEMMA AdmissionType ==
  ASSUME TypeOK, NEW a \in Apps, AppAdmission(a)
  PROVE  TypeOK'
<1>1. UNCHANGED <<env, appThread, envThread, run, freeSlots, infra, data, base>>
  BY DEF AppAdmission, DeployFromTemplate, QueueDeploy, QueueRemoval, NoThreadStep
<1>2. PICK l \in Labels, job \in JobStatus, ev \in EventType :
        OpenAttempt(a, [app[a] EXCEPT !.label = l], job, ev)
  <2>1. app[a].label \in Labels /\ [app[a] EXCEPT !.label = app[a].label] = app[a]
    BY DEF TypeOK, AppRow
  <2>2. CASE DeployFromTemplate(a)
    BY <2>2 DEF DeployFromTemplate, JobStatus, EventType
  <2>3. CASE QueueDeploy(a)
    BY <2>1, <2>3 DEF QueueDeploy, JobStatus, EventType
  <2>4. CASE QueueRemoval(a)
    BY <2>1, <2>4, RunsAssumption DEF QueueRemoval, JobStatus, EventType
  <2>5. QED  BY <2>2, <2>3, <2>4 DEF AppAdmission
<1>3. QED  BY <1>1, <1>2, OpenAttemptType DEF TypeOK

\* Claiming keeps every type.
LEMMA ClaimType ==
  ASSUME TypeOK, NEW r \in Runs, NEW a \in Apps, ClaimDeploy(r, a) \/ ClaimRemoval(r, a)
  PROVE  TypeOK'
<1>1. Spawned("deploy", r) \in AppThread /\ Spawned("removal", r) \in AppThread
  BY NoThreadType DEF Spawned, AppThread
<1>2. \A t \in AppThread : \A n : [appThread EXCEPT ![a][n] = t] \in [Apps -> [Attempts -> AppThread]]
  <2> SUFFICES ASSUME NEW t \in AppThread, NEW n
               PROVE  [appThread EXCEPT ![a][n] = t] \in [Apps -> [Attempts -> AppThread]]
    OBVIOUS
  <2>1. CASE n \in Attempts
    BY <2>1 DEF TypeOK
  <2>2. CASE n \notin Attempts
    BY <2>2 DEF TypeOK
  <2>3. QED  BY <2>1, <2>2
<1>3. CASE ClaimDeploy(r, a)
  <2>1. appThread' \in [Apps -> [Attempts -> AppThread]]
    BY <1>1, <1>2, <1>3 DEF ClaimDeploy
  <2>2. app' \in [Apps -> AppRow]
    <3>1. app[a] \in AppRow
      BY DEF TypeOK
    <3>2. [app[a] EXCEPT !.job = "DEPLOYING", !.mayInfra = TRUE, !.run = r] \in AppRow
      BY <3>1 DEF AppRow, JobStatus
    <3>3. app' = [app EXCEPT ![a] = [app[a] EXCEPT !.job = "DEPLOYING", !.mayInfra = TRUE, !.run = r]]
      BY <1>3, <3>1 DEF ClaimDeploy, TypeOK
    <3>4. QED  BY <3>2, <3>3 DEF TypeOK
  <2>3. freeSlots' \in [Runs -> Nat]
    BY <1>3 DEF ClaimDeploy, TypeOK
  <2>4. QED  BY <1>3, <2>1, <2>2, <2>3 DEF ClaimDeploy, TypeOK
<1>4. CASE ClaimRemoval(r, a)
  <2>1. appThread' \in [Apps -> [Attempts -> AppThread]]
    BY <1>1, <1>2, <1>4 DEF ClaimRemoval
  <2>2. app' \in [Apps -> AppRow]
    <3>1. app[a] \in AppRow
      BY DEF TypeOK
    <3>2. [app[a] EXCEPT !.job = "REMOVING", !.run = r] \in AppRow
      BY <3>1 DEF AppRow, JobStatus
    <3>3. app' = [app EXCEPT ![a] = [app[a] EXCEPT !.job = "REMOVING", !.run = r]]
      BY <1>4, <3>1 DEF ClaimRemoval, TypeOK
    <3>4. QED  BY <3>2, <3>3 DEF TypeOK
  <2>3. QED  BY <1>4, <2>1, <2>2 DEF ClaimRemoval, TypeOK
<1>5. QED  BY <1>3, <1>4

-----------------------------------------------------------------------------
(* The steps of app threads. *)

\* Moving a thread on keeps it a thread.
LEMMA GoToType ==
  ASSUME TypeOK, NEW a \in Apps, NEW n \in Attempts,
         NEW pc \in {"running", "refused", "created", "torn", "teardown", "purge", "delete", "failed"},
         GoTo(a, n, pc)
  PROVE  appThread' \in [Apps -> [Attempts -> AppThread]]
<1>1. appThread[a][n] \in AppThread
  BY DEF TypeOK
<1>2. [appThread[a][n] EXCEPT !.pc = pc] \in AppThread
  BY <1>1 DEF AppThread
<1>3. QED  BY <1>2 DEF GoTo, TypeOK

\* So does going on to record an event.
LEMMA GoRecordType ==
  ASSUME TypeOK, NEW a \in Apps, NEW n \in Attempts,
         NEW ev \in EventType \cup {"none"}, GoRecord(a, n, ev)
  PROVE  appThread' \in [Apps -> [Attempts -> AppThread]]
<1>1. appThread[a][n] \in AppThread
  BY DEF TypeOK
<1>2. [appThread[a][n] EXCEPT !.pc = "record", !.ev = ev] \in AppThread
  BY <1>1 DEF AppThread
<1>3. appThread' = [appThread EXCEPT ![a][n] = [appThread[a][n] EXCEPT !.pc = "record", !.ev = ev]]
  BY <1>1 DEF GoRecord, TypeOK
<1>4. QED  BY <1>2, <1>3 DEF TypeOK

\* And loading the App into it.
LEMMA LoadedType ==
  ASSUME TypeOK, NEW a \in Apps, NEW n \in Attempts, Present(a),
         NEW pc \in {"running", "refused", "teardown", "purge"}, Loaded(a, n, pc)
  PROVE  appThread' \in [Apps -> [Attempts -> AppThread]]
<1> DEFINE t == [appThread[a][n] EXCEPT !.pc = pc, !.job = app[a].job, !.att = app[a].att]
<1>1. appThread[a][n] \in AppThread /\ app[a] \in AppRow
  BY DEF TypeOK
<1>2. app[a].job \in JobStatus /\ app[a].att \in 0..MaxAttempts
  BY <1>1 DEF Present, AppRow
<1>3. t \in AppThread
  BY <1>1, <1>2 DEF AppThread
<1>4. appThread' = [appThread EXCEPT ![a][n] = t]
  BY <1>1 DEF Loaded, TypeOK
<1>5. QED  BY <1>3, <1>4 DEF TypeOK

\* Settling a row as failed or deployed keeps the rows typed.
LEMMA SettledRowsType ==
  ASSUME TypeOK, NEW a \in Apps, NEW job,
         app' = [app EXCEPT ![a] = FailedRow(@, job)] \/ app' = [app EXCEPT ![a] = DeployedRow(@)]
  PROVE  app' \in [Apps -> AppRow]
<1>1. app[a] \in AppRow
  BY DEF TypeOK
<1>2. FailedRow(app[a], job) \in AppRow
  BY <1>1, FailedRowType
<1>3. DeployedRow(app[a]) \in AppRow
  BY <1>1 DEF DeployedRow, AppRow, JobStatus
<1>4. QED  BY <1>2, <1>3 DEF TypeOK

\* A deleted row is a row without a trail.
LEMMA DeletedRowsType ==
  ASSUME TypeOK, NEW S \in SUBSET Apps, DeleteRows(S)
  PROVE  /\ app' \in [Apps -> AppRow]
         /\ trail' \in [Apps -> [Attempts -> Seq(EventType)]]
<1>1. [NewApp EXCEPT !.job = "DELETED"] \in AppRow
  <2>1. NewApp \in AppRow
    BY RunsAssumption, BoundsAssumption DEF NewApp, AppRow
  <2>2. QED  BY <2>1 DEF AppRow
<1>2. app' \in [Apps -> AppRow]
  BY <1>1 DEF DeleteRows, TypeOK
<1>3. trail' \in [Apps -> [Attempts -> Seq(EventType)]]
  BY DEF DeleteRows, TypeOK
<1>4. QED  BY <1>2, <1>3

\* Every step of an app thread keeps every type.
LEMMA AppThreadStepType ==
  ASSUME TypeOK, NEW a \in Apps, NEW n \in Attempts, AppThreadStep(a, n)
  PROVE  TypeOK'
<1>1. appThread[a][n] \in AppThread /\ app[a] \in AppRow
  BY DEF TypeOK
<1>2. FailureEventByJobStatus(appThread[a][n].job) \in EventType \cup {"none"}
  BY <1>1, FailureEventType DEF AppThread
<1>3. CASE DeployLoad(a, n)
  BY <1>3, LoadedType DEF DeployLoad, TypeOK
<1>4. CASE DeployCreatesInfra(a, n)
  BY <1>4, GoToType DEF DeployCreatesInfra, TypeOK
<1>5. CASE DeploySettleSuccess(a, n)
  BY <1>5, GoRecordType, SettledRowsType DEF DeploySettleSuccess, EventType, TypeOK
<1>6. CASE DeploySettleFailure(a, n)
  BY <1>2, <1>6, GoRecordType, SettledRowsType DEF DeploySettleFailure, TypeOK
<1>7. CASE DeployThreadDies(a, n)
  BY <1>7, FinishType DEF DeployThreadDies, TypeOK
<1>8. CASE DeployRecordFails(a, n)
  BY <1>8, FinishType, SettledRowsType DEF DeployRecordFails, TypeOK
<1>9. CASE WriteRecord(a, n)
  <2>1. trail' \in [Apps -> [Attempts -> Seq(EventType)]]
    BY <1>1, <1>9, RecordedType DEF WriteRecord, AppThread, TypeOK
  <2>2. QED  BY <1>9, <2>1, FinishType DEF WriteRecord, TypeOK
<1>10. CASE RemovalLoad(a, n)
  <2>1. CASE Present(a)
    BY <1>10, <2>1, LoadedType DEF RemovalLoad, TypeOK
  <2>2. CASE ~Present(a)
    BY <1>10, <2>2, FinishType DEF RemovalLoad, TypeOK
  <2>3. QED  BY <2>1, <2>2
<1>11. CASE RemovalTeardown(a, n)
  BY <1>11, GoToType DEF RemovalTeardown, TypeOK
<1>12. CASE RemovalClearsOutputs(a, n)
  <2>1. [app[a] EXCEPT !.live = "NOT_DEPLOYED", !.mayInfra = FALSE] \in AppRow
    BY <1>1 DEF AppRow
  <2>2. app' = [app EXCEPT ![a] = [app[a] EXCEPT !.live = "NOT_DEPLOYED", !.mayInfra = FALSE]]
    BY <1>1, <1>12 DEF RemovalClearsOutputs, TypeOK
  <2>3. QED  BY <1>12, <2>1, <2>2, GoToType DEF RemovalClearsOutputs, TypeOK
<1>13. CASE RemovalPurge(a, n)
  BY <1>13, GoToType DEF RemovalPurge, TypeOK
<1>14. CASE RemovalPurgeFails(a, n)
  BY <1>14, GoToType DEF RemovalPurgeFails, PurgeFailureLeaves, TypeOK
<1>15. CASE RemovalDelete(a, n)
  BY <1>15, DeletedRowsType, FinishType DEF RemovalDelete, TypeOK
<1>16. CASE RemovalSettleFailure(a, n)
  BY <1>2, <1>16, GoRecordType, SettledRowsType DEF RemovalSettleFailure, TypeOK
<1>17. CASE RemovalRaises(a, n)
  <2>1. CASE app[a].job = "REMOVING"
    <3> DEFINE t == [appThread[a][n] EXCEPT !.pc = "record", !.job = "REMOVING",
                                            !.att = app[a].att, !.ev = "REMOVAL_FAILED"]
    <3>1. t \in AppThread
      BY <1>1 DEF AppThread, AppRow, JobStatus, EventType
    <3>2. appThread' = [appThread EXCEPT ![a][n] = t]
      <4>1. appThread' = [appThread EXCEPT ![a][n].pc = "record", ![a][n].job = "REMOVING",
                            ![a][n].att = app[a].att, ![a][n].ev = "REMOVAL_FAILED"]
        BY <1>17, <2>1 DEF RemovalRaises
      <4>2. QED  BY <1>1, <4>1 DEF TypeOK
    <3>3. QED  BY <1>17, <2>1, <3>1, <3>2, SettledRowsType DEF RemovalRaises, TypeOK
  <2>2. CASE app[a].job # "REMOVING"
    BY <1>17, <2>2, FinishType DEF RemovalRaises, TypeOK
  <2>3. QED  BY <2>1, <2>2
<1>18. QED
  BY <1>3, <1>4, <1>5, <1>6, <1>7, <1>8, <1>9, <1>10, <1>11, <1>12, <1>13, <1>14,
     <1>15, <1>16, <1>17 DEF AppThreadStep

-----------------------------------------------------------------------------
(* Environments, workers and the reaper. *)

\* Setting an environment's status keeps the environments typed.
LEMMA StatusType ==
  ASSUME TypeOK, NEW e, NEW st \in EnvStatus, env' = [env EXCEPT ![e].status = st]
  PROVE  env' \in [Envs -> EnvRow]
<1>1. CASE e \in Envs
  <2>1. [env[e] EXCEPT !.status = st] \in EnvRow
    BY <1>1 DEF TypeOK, EnvRow
  <2>2. QED  BY <1>1, <2>1 DEF TypeOK
<1>2. CASE e \notin Envs
  BY <1>2 DEF TypeOK
<1>3. QED  BY <1>1, <1>2

\* Admitting a retry, a redeploy or a teardown keeps every type.
LEMMA EnvAdmissionType ==
  ASSUME TypeOK, NEW e \in Envs, EnvAdmission(e)
  PROVE  TypeOK'
<1>1. UNCHANGED <<app, appThread, envThread, run, freeSlots, trail, infra, data, base>>
  BY DEF EnvAdmission, EnvironmentRetry, RedeployEnvironment, QueueTeardown, NoJobStep
<1>2. PICK st \in EnvStatus : env' = [env EXCEPT ![e].status = st]
  BY DEF EnvAdmission, EnvironmentRetry, RedeployEnvironment, QueueTeardown,
         TransitionStatus, EnvStatus
<1>3. QED  BY <1>1, <1>2, StatusType DEF TypeOK

\* An environment's idle thread slot is a thread.
LEMMA NoEnvThreadType == NoEnvThread \in EnvThread
BY DEF NoEnvThread, EnvThread

\* Claiming an environment keeps every type.
LEMMA EnvClaimType ==
  ASSUME TypeOK, NEW r \in Runs, NEW e \in Envs,
         ClaimProvisioning(r, e) \/ ClaimEnvironmentTeardown(r, e)
  PROVE  TypeOK'
<1>1. PICK from, to \in EnvStatus, kind \in {"provision", "teardown"} : Claim(r, e, from, to, kind)
  BY DEF ClaimProvisioning, ClaimEnvironmentTeardown, EnvStatus
<1>2. [status |-> to, run |-> r] \in EnvRow
  BY DEF EnvRow
<1>3. env' \in [Envs -> EnvRow]
  BY <1>1, <1>2 DEF Claim, TypeOK
<1>4. [NoEnvThread EXCEPT !.kind = kind, !.pc = "spawned", !.run = r] \in EnvThread
  BY NoEnvThreadType DEF EnvThread
<1>5. envThread' \in [Envs -> [EnvThreads -> EnvThread]]
  BY <1>1, <1>4 DEF Claim, TypeOK
<1>6. freeSlots' \in [Runs -> Nat]
  <2>1. CASE ClaimProvisioning(r, e)
    <3>1. freeSlots[r] - 1 \in Nat
      BY <2>1 DEF ClaimProvisioning, TypeOK
    <3>2. QED  BY <2>1, <3>1 DEF ClaimProvisioning, TypeOK
  <2>2. CASE ClaimEnvironmentTeardown(r, e)
    BY <2>2 DEF ClaimEnvironmentTeardown, TypeOK
  <2>3. QED  BY <2>1, <2>2
<1>7. UNCHANGED <<app, appThread, run, trail, infra, data, base>>
  BY DEF ClaimProvisioning, ClaimEnvironmentTeardown
<1>8. QED  BY <1>3, <1>5, <1>6, <1>7 DEF TypeOK

\* An environment's thread that ends or moves on leaves threads and slots typed.
LEMMA EnvFinishType ==
  ASSUME TypeOK, NEW e \in Envs, NEW k \in EnvThreads, EnvFinish(e, k)
  PROVE  /\ envThread' \in [Envs -> [EnvThreads -> EnvThread]]
         /\ freeSlots' \in [Runs -> Nat]
<1>1. envThread' \in [Envs -> [EnvThreads -> EnvThread]]
  BY NoEnvThreadType DEF EnvFinish, TypeOK
<1>2. freeSlots' \in [Runs -> Nat]
  <2>1. ASSUME NEW r PROVE [freeSlots EXCEPT ![r] = @ + 1] \in [Runs -> Nat]
    <3>1. CASE r \in Runs
      BY <3>1 DEF TypeOK
    <3>2. CASE r \notin Runs
      BY <3>2 DEF TypeOK
    <3>3. QED  BY <3>1, <3>2
  <2>2. QED  BY <2>1 DEF EnvFinish, TypeOK
<1>3. QED  BY <1>1, <1>2

\* Moving an environment's thread on keeps it a thread.
LEMMA EnvGoToType ==
  ASSUME TypeOK, NEW e \in Envs, NEW k \in EnvThreads,
         NEW pc \in {"running", "built", "delete"}, EnvGoTo(e, k, pc)
  PROVE  envThread' \in [Envs -> [EnvThreads -> EnvThread]]
<1>1. envThread[e][k] \in EnvThread
  BY DEF TypeOK
<1>2. [envThread[e][k] EXCEPT !.pc = pc] \in EnvThread
  BY <1>1 DEF EnvThread
<1>3. QED  BY <1>2 DEF EnvGoTo, TypeOK

\* Settling a provisioning keeps the environments typed.
LEMMA SettleProvisioningType ==
  ASSUME TypeOK, NEW e \in Envs, NEW st \in {"READY", "ERROR"}, SettleProvisioning(e, st)
  PROVE  env' \in [Envs -> EnvRow]
<1>1. CASE env[e].status = "PROVISIONING"
  BY <1>1, StatusType DEF SettleProvisioning, EnvStatus
<1>2. CASE env[e].status # "PROVISIONING"
  BY <1>2 DEF SettleProvisioning, TypeOK
<1>3. QED  BY <1>1, <1>2

\* Every step of an environment's thread keeps every type.
LEMMA EnvThreadStepType ==
  ASSUME TypeOK, NEW e \in Envs, NEW k \in EnvThreads, EnvThreadStep(e, k)
  PROVE  TypeOK'
<1>1. envThread[e][k] \in EnvThread /\ env[e] \in EnvRow
  BY DEF TypeOK
<1>2. CASE ProvisionLoad(e, k)
  BY <1>2, EnvGoToType, EnvFinishType DEF ProvisionLoad, TypeOK
<1>3. CASE ProvisionCreatesBase(e, k)
  BY <1>3, EnvGoToType DEF ProvisionCreatesBase, TypeOK
<1>4. CASE ProvisionSucceeds(e, k)
  BY <1>4, SettleProvisioningType, EnvFinishType DEF ProvisionSucceeds, TypeOK
<1>5. CASE ProvisionFails(e, k)
  BY <1>5, SettleProvisioningType, EnvFinishType DEF ProvisionFails, TypeOK
<1>6. CASE TeardownLoad(e, k)
  <2>1. [envThread[e][k] EXCEPT !.pc = "apps", !.todo = {a \in AppsOf(e) : app[a].mayInfra}]
          \in EnvThread
    BY <1>1 DEF EnvThread, AppsOf
  <2>2. envThread' \in [Envs -> [EnvThreads -> EnvThread]]
    BY <1>6, <2>1, NoEnvThreadType DEF TeardownLoad, TypeOK
  <2>3. QED  BY <1>6, <2>2 DEF TeardownLoad, TypeOK
<1>7. CASE TeardownAppsDone(e, k)
  <2>1. [envThread[e][k] EXCEPT !.pc = "purge", !.todo = AppsOf(e), !.victims = AppsOf(e)]
          \in EnvThread
    BY <1>1 DEF EnvThread, AppsOf
  <2>2. [envThread[e][k] EXCEPT !.pc = "base"] \in EnvThread
    BY <1>1 DEF EnvThread
  <2>3. envThread' \in [Envs -> [EnvThreads -> EnvThread]]
    BY <1>7, <2>1, <2>2 DEF TeardownAppsDone, TypeOK
  <2>4. QED  BY <1>7, <2>3 DEF TeardownAppsDone, TypeOK
<1>8. CASE TeardownPurgeDone(e, k)
  BY <1>8, EnvGoToType DEF TeardownPurgeDone, TypeOK
<1>9. CASE TeardownBase(e, k)
  BY <1>9, EnvGoToType DEF TeardownBase, TypeOK
<1>10. CASE TeardownDeleteRecords(e, k)
  <2>1. PICK S \in SUBSET Apps : DeleteRows(S)
    BY <1>1, <1>10 DEF TeardownDeleteRecords, EnvThread, AppsOf
  <2>2. [status |-> "DELETED", run |-> NoRun] \in EnvRow
    BY DEF EnvRow
  <2>3. env' \in [Envs -> EnvRow]
    BY <1>10, <2>2 DEF TeardownDeleteRecords, TypeOK
  <2>4. QED
    BY <1>10, <2>1, <2>3, DeletedRowsType, EnvFinishType DEF TeardownDeleteRecords, TypeOK
<1>11. CASE TeardownFails(e, k)
  <2>1. env' \in [Envs -> EnvRow]
    BY <1>11, StatusType DEF TeardownFails, EnvStatus, TypeOK
  <2>2. data' \in [Apps -> SUBSET {"files", "secrets"}]
    <3>1. CASE UNCHANGED data
      BY <3>1 DEF TypeOK
    <3>2. CASE \E a \in envThread[e][k].todo : \E left \in PurgeFailureLeaves(a) :
                 data' = [data EXCEPT ![a] = left]
      <4>1. PICK a \in Apps : \E left \in PurgeFailureLeaves(a) : data' = [data EXCEPT ![a] = left]
        BY <1>1, <3>2 DEF EnvThread
      <4>2. QED  BY <4>1 DEF PurgeFailureLeaves, TypeOK
    <3>3. QED  BY <1>11, <3>1, <3>2 DEF TeardownFails
  <2>3. base' \in [Envs -> BOOLEAN]
    BY <1>11 DEF TeardownFails, TypeOK
  <2>4. QED  BY <1>11, <2>1, <2>2, <2>3, EnvFinishType DEF TeardownFails, TypeOK
<1>12. CASE EnvThreadDies(e, k)
  BY <1>12, EnvFinishType DEF EnvThreadDies, TypeOK
<1>13. ASSUME NEW a \in Apps, TeardownAppInfra(e, k, a) \/ TeardownPurgeApp(e, k, a)
       PROVE  TypeOK'
  <2>1. [envThread[e][k] EXCEPT !.todo = @ \ {a}] \in EnvThread
    BY <1>1 DEF EnvThread
  <2>2. envThread' \in [Envs -> [EnvThreads -> EnvThread]]
    <3>1. envThread' = [envThread EXCEPT ![e][k].todo = @ \ {a}]
      BY <1>13 DEF TeardownAppInfra, TeardownPurgeApp
    <3>2. envThread' = [envThread EXCEPT ![e][k] = [envThread[e][k] EXCEPT !.todo = @ \ {a}]]
      BY <1>1, <3>1 DEF TypeOK
    <3>3. QED  BY <2>1, <3>2 DEF TypeOK
  <2>3. QED  BY <1>13, <2>2 DEF TeardownAppInfra, TeardownPurgeApp, TypeOK
<1>14. QED
  BY <1>2, <1>3, <1>4, <1>5, <1>6, <1>7, <1>8, <1>9, <1>10, <1>11, <1>12, <1>13 DEF EnvThreadStep

\* The reaper's settlement of a set of abandoned attempts keeps rows and trail typed.
LEMMA SettleFailureOfAllType ==
  ASSUME TypeOK, NEW S \in SUBSET Apps,
         \A a \in S : app[a].job \in JobStatus \ {"IDLE"},
         SettleFailureOfAll(S)
  PROVE  /\ app' \in [Apps -> AppRow]
         /\ trail' \in [Apps -> [Attempts -> Seq(EventType)]]
<1>1. \A a \in Apps : FailedRow(app[a], app[a].job) \in AppRow
  BY FailedRowType DEF TypeOK
<1>2. app' \in [Apps -> AppRow]
  BY <1>1 DEF SettleFailureOfAll, TypeOK
<1>3. \A a \in S, n \in Attempts :
        Append(trail[a][n], FailureEventByJobStatus(app[a].job)) \in Seq(EventType)
  BY FailureEventDefined DEF TypeOK
<1>4. trail' \in [Apps -> [Attempts -> Seq(EventType)]]
  BY <1>3 DEF SettleFailureOfAll, TypeOK
<1>5. QED  BY <1>2, <1>4

\* Every step of a worker keeps every type.
LEMMA WorkerStepType ==
  ASSUME TypeOK, NEW r \in Runs, WorkerStep(r)
  PROVE  TypeOK'
<1>1. CASE StartWorker(r)
  BY <1>1, BoundsAssumption DEF StartWorker, RunState, TypeOK
<1>2. CASE BeatWorkerRun(r)
  BY <1>2 DEF BeatWorkerRun, RunState, TypeOK
<1>3. CASE HeartbeatExpires(r)
  BY <1>3 DEF HeartbeatExpires, RunState, TypeOK
<1>4. CASE WorkerDies(r)
  <2>1. run' \in [Runs -> RunState] /\ freeSlots' \in [Runs -> Nat]
    BY <1>4, BoundsAssumption DEF WorkerDies, RunState, TypeOK
  <2>2. appThread' \in [Apps -> [Attempts -> AppThread]]
    BY <1>4, NoThreadType DEF WorkerDies, TypeOK
  <2>3. envThread' \in [Envs -> [EnvThreads -> EnvThread]]
    BY <1>4, NoEnvThreadType DEF WorkerDies, TypeOK
  <2>4. QED  BY <1>4, <2>1, <2>2, <2>3 DEF WorkerDies, TypeOK
<1>5. CASE PruneWorkerRun(r)
  <2>1. ASSUME NEW a \in Apps PROVE [app[a] EXCEPT !.run = NoRun] \in AppRow
    <3>1. app[a] \in AppRow
      BY DEF TypeOK
    <3>2. QED  BY <3>1 DEF AppRow
  <2>2. \A e \in Envs : [env[e] EXCEPT !.run = NoRun] \in EnvRow
    BY DEF EnvRow, TypeOK
  <2>3. app' \in [Apps -> AppRow] /\ env' \in [Envs -> EnvRow]
    BY <1>5, <2>1, <2>2 DEF PruneWorkerRun, TypeOK
  <2>4. QED  BY <1>5, <2>3 DEF PruneWorkerRun, RunState, TypeOK
<1>6. QED
  BY <1>1, <1>2, <1>3, <1>4, <1>5, ClaimType, EnvClaimType DEF WorkerStep

\* Every step of the reaper keeps every type.
LEMMA ReaperStepType ==
  ASSUME TypeOK, ReaperStep
  PROVE  TypeOK'
<1>1. \A S \in SUBSET Envs : EnvironmentsToError(S) => env' \in [Envs -> EnvRow]
  <2>1. \A e \in Envs : [env[e] EXCEPT !.status = "ERROR"] \in EnvRow
    BY DEF EnvRow, EnvStatus, TypeOK
  <2>2. QED  BY <2>1 DEF EnvironmentsToError, TypeOK
<1>2. CASE ReapDeadWorkerApps
  <2>1. StaleApps \in SUBSET Apps /\ \A a \in StaleApps : app[a].job \in JobStatus \ {"IDLE"}
    BY DEF StaleApps, EXECUTING_JOB_STATUSES, JobStatus
  <2>2. QED  BY <1>2, <2>1, SettleFailureOfAllType DEF ReapDeadWorkerApps, TypeOK
<1>3. CASE ReapDeadWorkerEnvironments
  BY <1>1, <1>3 DEF ReapDeadWorkerEnvironments, StaleEnvironments, TypeOK
<1>4. ASSUME NEW a \in Apps, ReapUntouchedApp(a) PROVE TypeOK'
  <2>1. app[a].job \in JobStatus \ {"IDLE"}
    BY <1>4 DEF ReapUntouchedApp, EXECUTING_JOB_STATUSES, JobStatus
  <2>2. QED  BY <1>4, <2>1, SettleFailureOfAllType DEF ReapUntouchedApp, TypeOK
<1>5. ASSUME NEW e \in Envs, ReapUntouchedEnvironment(e) PROVE TypeOK'
  BY <1>1, <1>5 DEF ReapUntouchedEnvironment, TypeOK
<1>6. QED  BY <1>2, <1>3, <1>4, <1>5 DEF ReaperStep

\* The staff recovery keeps every type.
LEMMA RecoveryType ==
  ASSUME TypeOK, FailUnsettledDeployments
  PROVE  TypeOK'
<1>1. UnsettledApps \in SUBSET Apps /\ \A a \in UnsettledApps : app[a].job \in JobStatus \ {"IDLE"}
  BY DEF UnsettledApps, Present
<1>2. QED  BY <1>1, SettleFailureOfAllType DEF FailUnsettledDeployments, TypeOK

\* Every step keeps every type.
LEMMA NextType == TypeOK /\ [Next]_vars => TypeOK'
<1> SUFFICES ASSUME TypeOK, [Next]_vars PROVE TypeOK'
  OBVIOUS
<1>1. CASE UNCHANGED vars
  BY <1>1 DEF vars, TypeOK
<1>2. CASE Next
  BY <1>2, AdmissionType, EnvAdmissionType, WorkerStepType, AppThreadStepType,
     EnvThreadStepType, ReaperStepType, RecoveryType DEF Next
<1>3. QED  BY <1>1, <1>2

\* Rows, threads, records and worker runs keep the types of the models: in particular
\* every attempt that the reaper or staff settle has a failure event.
THEOREM TypeCorrect == Spec => []TypeOK
BY InitType, NextType, PTL DEF Spec

-----------------------------------------------------------------------------
(* Environment teardown excludes app jobs. *)

\* An app becomes busy, or an environment owned by a teardown, in few steps.  Every
\* other step keeps the exclusion.
NoNewOwner ==
  /\ \A a \in Apps : Present(a)' /\ app'[a].job # "IDLE" => Present(a) /\ app[a].job # "IDLE"
  /\ \A e \in Envs : env'[e].status \in TeardownStatuses => env[e].status \in TeardownStatuses

\* A step that makes nobody an owner preserves the exclusion.
LEMMA NoNewOwnerPreserves ==
  ASSUME TeardownOwnsEnvironment, NoNewOwner
  PROVE  TeardownOwnsEnvironment'
BY DEF TeardownOwnsEnvironment, NoNewOwner, AppsOf

\* queue_deploy, queue_removal and deploy_from_template look at the environment
\* under its lock.
LEMMA AdmissionExcludesTeardown ==
  ASSUME TypeOK, TeardownOwnsEnvironment, NEW a \in Apps, AppAdmission(a)
  PROVE  TeardownOwnsEnvironment'
<1>1. env[EnvOf[a]].status = "READY" /\ UNCHANGED env
  BY DEF AppAdmission, DeployFromTemplate, QueueDeploy, QueueRemoval, LockAppForAdmission, EnvReady
<1>2. \A b \in Apps \ {a} : app'[b] = app[b]
  BY DEF AppAdmission, DeployFromTemplate, QueueDeploy, QueueRemoval, OpenAttempt, TypeOK
<1>3. QED
  BY <1>1, <1>2 DEF TeardownOwnsEnvironment, TeardownStatuses, AppsOf, Present

\* queue_teardown looks at every app under the environment's lock; a retry or a
\* redeploy does not make a teardown.
LEMMA EnvAdmissionExcludesJobs ==
  ASSUME TypeOK, TeardownOwnsEnvironment, NEW e \in Envs, EnvAdmission(e)
  PROVE  TeardownOwnsEnvironment'
<1>1. UNCHANGED app
  BY DEF EnvAdmission, EnvironmentRetry, RedeployEnvironment, QueueTeardown, NoJobStep
<1>2. \A f \in Envs \ {e} : env'[f] = env[f]
  BY DEF EnvAdmission, EnvironmentRetry, RedeployEnvironment, QueueTeardown, TransitionStatus, TypeOK
<1>3. CASE QueueTeardown(e)
  BY <1>1, <1>2, <1>3 DEF QueueTeardown, TeardownOwnsEnvironment, AppsOf, Present
<1>4. CASE EnvironmentRetry(e) \/ RedeployEnvironment(e)
  <2>1. env'[e].status = "PENDING"
    BY <1>4 DEF EnvironmentRetry, RedeployEnvironment, TransitionStatus, TypeOK, EnvRow
  <2>2. QED
    BY <1>1, <1>2, <2>1 DEF TeardownOwnsEnvironment, TeardownStatuses, AppsOf, Present
<1>5. QED  BY <1>3, <1>4 DEF EnvAdmission

\* No step of an app's thread makes the app busy again, and none touches an environment.
LEMMA AppThreadNoNewOwner ==
  ASSUME TypeOK, NEW a \in Apps, NEW n \in Attempts, AppThreadStep(a, n)
  PROVE  NoNewOwner
<1>1. UNCHANGED env
  BY DEF AppThreadStep, DeployLoad, DeployCreatesInfra, DeploySettleSuccess,
     DeploySettleFailure, DeployThreadDies, DeployRecordFails, WriteRecord, RemovalLoad,
     RemovalTeardown, RemovalClearsOutputs, RemovalPurge, RemovalPurgeFails, RemovalDelete,
     RemovalSettleFailure, RemovalRaises
<1>2. \A b \in Apps : app'[b].job \in {app[b].job, "IDLE", "DELETED"}
  <2>1. app[a] \in AppRow
    BY DEF TypeOK
  <2>2. \A job : FailedRow(app[a], job).job = "IDLE" /\ DeployedRow(app[a]).job = "IDLE"
    BY <2>1 DEF FailedRow, DeployedRow, AppRow
  <2>3. CASE DeploySettleSuccess(a, n)
    BY <2>2, <2>3 DEF DeploySettleSuccess, TypeOK
  <2>4. CASE DeploySettleFailure(a, n)
    BY <2>2, <2>4 DEF DeploySettleFailure, TypeOK
  <2>5. CASE DeployRecordFails(a, n)
    BY <2>2, <2>5 DEF DeployRecordFails, TypeOK
  <2>6. CASE RemovalClearsOutputs(a, n)
    BY <2>1, <2>6 DEF RemovalClearsOutputs, TypeOK, AppRow
  <2>7. CASE RemovalDelete(a, n)
    BY <2>7 DEF RemovalDelete, DeleteRows, NewApp, TypeOK
  <2>8. CASE RemovalSettleFailure(a, n)
    BY <2>2, <2>8 DEF RemovalSettleFailure, TypeOK
  <2>9. CASE RemovalRaises(a, n)
    <3>1. CASE app[a].job = "REMOVING"
      <4>1. app' = [app EXCEPT ![a] = FailedRow(@, "REMOVING")]
        BY <2>9, <3>1 DEF RemovalRaises
      <4>2. QED  BY <2>2, <4>1 DEF TypeOK
    <3>2. CASE app[a].job # "REMOVING"
      BY <2>9, <3>2 DEF RemovalRaises
    <3>3. QED  BY <3>1, <3>2
  <2>10. CASE UNCHANGED app
    BY <2>10
  <2>11. QED
    BY <2>3, <2>4, <2>5, <2>6, <2>7, <2>8, <2>9, <2>10
       DEF AppThreadStep, DeployLoad, DeployCreatesInfra, DeployThreadDies, WriteRecord,
           RemovalLoad, RemovalTeardown, RemovalPurge, RemovalPurgeFails
<1>3. QED  BY <1>1, <1>2 DEF NoNewOwner, Present, JobStatus

\* No step of an environment's thread starts a teardown or makes an app busy.
LEMMA EnvThreadNoNewOwner ==
  ASSUME TypeOK, NEW e \in Envs, NEW k \in EnvThreads, EnvThreadStep(e, k)
  PROVE  NoNewOwner
<1>1. \A b \in Apps : app'[b].job \in {app[b].job, "DELETED"}
  <2>1. CASE TeardownDeleteRecords(e, k)
    BY <2>1 DEF TeardownDeleteRecords, DeleteRows, NewApp, TypeOK
  <2>2. CASE UNCHANGED app
    BY <2>2
  <2>3. QED
    BY <2>1, <2>2 DEF EnvThreadStep, ProvisionLoad, ProvisionCreatesBase, ProvisionSucceeds,
       ProvisionFails, TeardownLoad, TeardownAppsDone, TeardownPurgeDone, TeardownBase,
       TeardownFails, EnvThreadDies, TeardownAppInfra, TeardownPurgeApp
<1>2. \A f \in Envs : env'[f].status \in {env[f].status, "READY", "ERROR", "DELETED"}
  <2>1. env[e] \in EnvRow
    BY DEF TypeOK
  <2>2. CASE ProvisionSucceeds(e, k) \/ ProvisionFails(e, k)
    <3>1. PICK st \in {"READY", "ERROR"} : SettleProvisioning(e, st)
      BY <2>2 DEF ProvisionSucceeds, ProvisionFails
    <3>2. CASE env' = [env EXCEPT ![e].status = st]
      BY <2>1, <3>2 DEF EnvRow, TypeOK
    <3>3. QED  BY <3>1, <3>2 DEF SettleProvisioning
  <2>3. CASE TeardownDeleteRecords(e, k)
    BY <2>1, <2>3 DEF TeardownDeleteRecords, TypeOK
  <2>4. CASE TeardownFails(e, k)
    BY <2>1, <2>4 DEF TeardownFails, EnvRow, TypeOK
  <2>5. CASE UNCHANGED env
    BY <2>5
  <2>6. QED
    BY <2>2, <2>3, <2>4, <2>5 DEF EnvThreadStep, ProvisionLoad, ProvisionCreatesBase,
       TeardownLoad, TeardownAppsDone, TeardownPurgeDone, TeardownBase, EnvThreadDies,
       TeardownAppInfra, TeardownPurgeApp
<1>3. QED  BY <1>1, <1>2 DEF NoNewOwner, Present, JobStatus, TeardownStatuses

\* A claim takes what is already busy, or already owned by a teardown.
LEMMA WorkerNoNewOwner ==
  ASSUME TypeOK, NEW r \in Runs, WorkerStep(r)
  PROVE  NoNewOwner
<1>1. ASSUME NEW a \in Apps, ClaimDeploy(r, a) \/ ClaimRemoval(r, a) PROVE NoNewOwner
  <2>1. app[a].job \in JobStatus \ {"IDLE"} /\ UNCHANGED env
    BY <1>1 DEF ClaimDeploy, ClaimRemoval, JobStatus
  <2>2. \A b \in Apps \ {a} : app'[b] = app[b]
    BY <1>1 DEF ClaimDeploy, ClaimRemoval, TypeOK
  <2>3. QED  BY <2>1, <2>2 DEF NoNewOwner, Present
<1>2. ASSUME NEW e \in Envs, ClaimProvisioning(r, e) PROVE NoNewOwner
  <2>1. UNCHANGED app /\ env' = [env EXCEPT ![e] = [status |-> "PROVISIONING", run |-> r]]
    BY <1>2 DEF ClaimProvisioning, Claim
  <2>2. QED  BY <2>1 DEF NoNewOwner, TeardownStatuses, Present, TypeOK
<1>3. ASSUME NEW e \in Envs, ClaimEnvironmentTeardown(r, e) PROVE NoNewOwner
  <2>1. /\ UNCHANGED app
        /\ env[e].status = "TEARDOWN_PENDING"
        /\ env' = [env EXCEPT ![e] = [status |-> "TEARING_DOWN", run |-> r]]
    BY <1>3 DEF ClaimEnvironmentTeardown, Claim
  <2>2. QED  BY <2>1 DEF NoNewOwner, TeardownStatuses, Present, TypeOK
<1>4. CASE PruneWorkerRun(r)
  <2>1. \A b \in Apps : app'[b].job = app[b].job
    BY <1>4 DEF PruneWorkerRun, TypeOK, AppRow
  <2>2. \A e \in Envs : env'[e].status = env[e].status
    BY <1>4 DEF PruneWorkerRun, TypeOK, EnvRow
  <2>3. QED  BY <2>1, <2>2 DEF NoNewOwner, Present
<1>5. CASE StartWorker(r) \/ BeatWorkerRun(r) \/ HeartbeatExpires(r) \/ WorkerDies(r)
  BY <1>5 DEF StartWorker, BeatWorkerRun, HeartbeatExpires, WorkerDies, NoNewOwner, Present
<1>6. QED  BY <1>1, <1>2, <1>3, <1>4, <1>5 DEF WorkerStep

\* The reaper and the staff recovery only conclude.
LEMMA SettlersNoNewOwner ==
  ASSUME TypeOK, ReaperStep \/ FailUnsettledDeployments
  PROVE  NoNewOwner
<1>1. ASSUME NEW S \in SUBSET Apps, SettleFailureOfAll(S), UNCHANGED env PROVE NoNewOwner
  <2>1. ASSUME NEW b \in Apps PROVE app'[b].job \in {app[b].job, "IDLE"}
    <3>1. app[b] \in AppRow
      BY DEF TypeOK
    <3>2. app'[b] = IF b \in S THEN FailedRow(app[b], app[b].job) ELSE app[b]
      BY <1>1 DEF SettleFailureOfAll
    <3>3. QED  BY <3>1, <3>2, FailedRowIdle
  <2>2. QED  BY <1>1, <2>1 DEF NoNewOwner, Present, JobStatus
<1>2. ASSUME NEW S \in SUBSET Envs, EnvironmentsToError(S), UNCHANGED app PROVE NoNewOwner
  <2>1. \A e \in Envs : env'[e].status \in {env[e].status, "ERROR"}
    BY <1>2 DEF EnvironmentsToError, TypeOK, EnvRow
  <2>2. QED  BY <1>2, <2>1 DEF NoNewOwner, Present, TeardownStatuses
<1>3. CASE ReapDeadWorkerApps
  BY <1>1, <1>3 DEF ReapDeadWorkerApps, StaleApps
<1>4. CASE ReapDeadWorkerEnvironments
  BY <1>2, <1>4 DEF ReapDeadWorkerEnvironments, StaleEnvironments
<1>5. ASSUME NEW a \in Apps, ReapUntouchedApp(a) PROVE NoNewOwner
  BY <1>1, <1>5 DEF ReapUntouchedApp
<1>6. ASSUME NEW e \in Envs, ReapUntouchedEnvironment(e) PROVE NoNewOwner
  BY <1>2, <1>6 DEF ReapUntouchedEnvironment
<1>7. CASE FailUnsettledDeployments
  BY <1>1, <1>7 DEF FailUnsettledDeployments, UnsettledApps
<1>8. QED  BY <1>3, <1>4, <1>5, <1>6, <1>7 DEF ReaperStep

\* With the types, the exclusion is inductive.
LEMMA ExclusionStep ==
  ASSUME TypeOK, TeardownOwnsEnvironment, [Next]_vars
  PROVE  TeardownOwnsEnvironment'
<1>1. CASE UNCHANGED vars
  BY <1>1 DEF vars, TeardownOwnsEnvironment, AppsOf, Present
<1>2. CASE Next
  BY <1>2, AdmissionExcludesTeardown, EnvAdmissionExcludesJobs, NoNewOwnerPreserves,
     AppThreadNoNewOwner, EnvThreadNoNewOwner, WorkerNoNewOwner, SettlersNoNewOwner DEF Next
<1>3. QED  BY <1>1, <1>2

\* An environment queued for teardown or being torn down owns its apps, whatever the
\* timeouts, crashes, stalled workers and staff do: no job is queued or executing on
\* any of them.  TypeOK makes the exclusion inductive.
THEOREM TeardownExcludesJobs == Spec => []TeardownOwnsEnvironment
<1>1. Init => TeardownOwnsEnvironment
  BY DEF Init, TeardownOwnsEnvironment, TeardownStatuses
<1>2. TypeOK /\ TeardownOwnsEnvironment /\ [Next]_vars => TeardownOwnsEnvironment'
  BY ExclusionStep
<1>3. QED  BY <1>1, <1>2, TypeCorrect, PTL DEF Spec

-----------------------------------------------------------------------------
(* Threads stay in their workers. *)

\* A thread stays in its worker.
Stays(t, u) == u.kind # "none" => t.kind = u.kind /\ u.run = t.run

\* No step of an app's thread moves a thread to another worker, or a worker.
LEMMA AppThreadStays ==
  ASSUME TypeOK, NEW a \in Apps, NEW n \in Attempts, AppThreadStep(a, n)
  PROVE  /\ run' = run /\ envThread' = envThread
         /\ \A b \in Apps, m \in Attempts : Stays(appThread[b][m], appThread'[b][m])
<1>1. run' = run /\ envThread' = envThread
  BY DEF AppThreadStep, DeployLoad, DeployCreatesInfra, DeploySettleSuccess,
     DeploySettleFailure, DeployThreadDies, DeployRecordFails, WriteRecord, RemovalLoad,
     RemovalTeardown, RemovalClearsOutputs, RemovalPurge, RemovalPurgeFails, RemovalDelete,
     RemovalSettleFailure, RemovalRaises
<1>2. appThread \in [Apps -> [Attempts -> AppThread]] /\ appThread[a][n] \in AppThread
  BY DEF TypeOK
<1>3. ASSUME Finish(a, n)
      PROVE  \A b \in Apps, m \in Attempts : Stays(appThread[b][m], appThread'[b][m])
  BY <1>2, <1>3 DEF Finish, Stays, NoThread
<1>4. ASSUME NEW pc, GoTo(a, n, pc)
      PROVE  \A b \in Apps, m \in Attempts : Stays(appThread[b][m], appThread'[b][m])
  <2>1. appThread' = [appThread EXCEPT ![a][n] = [appThread[a][n] EXCEPT !.pc = pc]]
    BY <1>2, <1>4 DEF GoTo
  <2>2. QED  BY <1>2, <2>1 DEF Stays, AppThread
<1>5. ASSUME NEW ev, GoRecord(a, n, ev)
      PROVE  \A b \in Apps, m \in Attempts : Stays(appThread[b][m], appThread'[b][m])
  <2>1. appThread' = [appThread EXCEPT ![a][n] = [appThread[a][n] EXCEPT !.pc = "record", !.ev = ev]]
    BY <1>2, <1>5 DEF GoRecord
  <2>2. QED  BY <1>2, <2>1 DEF Stays, AppThread
<1>6. ASSUME NEW pc, Loaded(a, n, pc)
      PROVE  \A b \in Apps, m \in Attempts : Stays(appThread[b][m], appThread'[b][m])
  <2>1. appThread' = [appThread EXCEPT ![a][n] =
                        [appThread[a][n] EXCEPT !.pc = pc, !.job = app[a].job, !.att = app[a].att]]
    BY <1>2, <1>6 DEF Loaded
  <2>2. QED  BY <1>2, <2>1 DEF Stays, AppThread
<1>7. ASSUME RemovalRaises(a, n)
      PROVE  \A b \in Apps, m \in Attempts : Stays(appThread[b][m], appThread'[b][m])
  <2>1. CASE app[a].job = "REMOVING"
    <3> DEFINE t == [appThread[a][n] EXCEPT !.pc = "record", !.job = "REMOVING",
                                            !.att = app[a].att, !.ev = "REMOVAL_FAILED"]
    <3>1. appThread' = [appThread EXCEPT ![a][n] = t]
      <4>1. appThread' = [appThread EXCEPT ![a][n].pc = "record", ![a][n].job = "REMOVING",
                            ![a][n].att = app[a].att, ![a][n].ev = "REMOVAL_FAILED"]
        BY <1>7, <2>1 DEF RemovalRaises
      <4>2. QED  BY <1>2, <4>1
    <3>2. QED  BY <1>2, <3>1 DEF Stays, AppThread
  <2>2. CASE app[a].job # "REMOVING"
    BY <1>3, <1>7, <2>2 DEF RemovalRaises
  <2>3. QED  BY <2>1, <2>2
<1>8. \A b \in Apps, m \in Attempts : Stays(appThread[b][m], appThread'[b][m])
  BY <1>3, <1>4, <1>5, <1>6, <1>7 DEF AppThreadStep, DeployLoad, DeployCreatesInfra, DeploySettleSuccess,
     DeploySettleFailure, DeployThreadDies, DeployRecordFails, WriteRecord, RemovalLoad,
     RemovalTeardown, RemovalClearsOutputs, RemovalPurge, RemovalPurgeFails, RemovalDelete,
     RemovalSettleFailure
<1>9. QED  BY <1>1, <1>8

\* Nor does a step of an environment's thread.
LEMMA EnvThreadStays ==
  ASSUME TypeOK, NEW e \in Envs, NEW k \in EnvThreads, EnvThreadStep(e, k)
  PROVE  /\ run' = run /\ appThread' = appThread
         /\ \A f \in Envs, j \in EnvThreads : Stays(envThread[f][j], envThread'[f][j])
<1>1. run' = run /\ appThread' = appThread
  BY DEF EnvThreadStep, ProvisionLoad, ProvisionCreatesBase, ProvisionSucceeds, ProvisionFails,
     TeardownLoad, TeardownAppsDone, TeardownPurgeDone, TeardownBase, TeardownDeleteRecords,
     TeardownFails, EnvThreadDies, TeardownAppInfra, TeardownPurgeApp
<1>2. envThread \in [Envs -> [EnvThreads -> EnvThread]] /\ envThread[e][k] \in EnvThread
  BY DEF TypeOK
<1>3. ASSUME EnvFinish(e, k)
      PROVE  \A f \in Envs, j \in EnvThreads : Stays(envThread[f][j], envThread'[f][j])
  BY <1>2, <1>3 DEF EnvFinish, Stays, NoEnvThread
<1>4. ASSUME NEW u, envThread' = [envThread EXCEPT ![e][k] = u], Stays(envThread[e][k], u)
      PROVE  \A f \in Envs, j \in EnvThreads : Stays(envThread[f][j], envThread'[f][j])
  <2>1. envThread'[e][k] = u
    BY <1>2, <1>4
  <2>2. \A f \in Envs, j \in EnvThreads : f # e \/ j # k => envThread'[f][j] = envThread[f][j]
    BY <1>2, <1>4
  <2>3. QED  BY <1>4, <2>1, <2>2 DEF Stays
<1>5. ASSUME NEW pc, EnvGoTo(e, k, pc)
      PROVE  \A f \in Envs, j \in EnvThreads : Stays(envThread[f][j], envThread'[f][j])
  <2>1. envThread' = [envThread EXCEPT ![e][k] = [envThread[e][k] EXCEPT !.pc = pc]]
    BY <1>2, <1>5 DEF EnvGoTo
  <2>2. QED  BY <1>2, <1>4, <2>1 DEF Stays, EnvThread
<1>6. ASSUME TeardownLoad(e, k) \/ TeardownAppsDone(e, k)
      PROVE  \A f \in Envs, j \in EnvThreads : Stays(envThread[f][j], envThread'[f][j])
  <2> DEFINE t == envThread[e][k]
             u == envThread'[e][k]
  <2>1. \A f \in Envs, j \in EnvThreads : f # e \/ j # k => envThread'[f][j] = envThread[f][j]
    BY <1>2, <1>6 DEF TeardownLoad, TeardownAppsDone
  <2>2. u = NoEnvThread \/ (u.kind = t.kind /\ u.run = t.run)
    <3>1. CASE TeardownLoad(e, k)
      <4>1. u = IF env[e].status = "TEARING_DOWN"
                THEN [t EXCEPT !.pc = "apps", !.todo = {a \in AppsOf(e) : app[a].mayInfra}]
                ELSE NoEnvThread
        BY <1>2, <3>1 DEF TeardownLoad
      <4>2. QED  BY <1>2, <4>1 DEF EnvThread
    <3>2. CASE TeardownAppsDone(e, k)
      <4>1. u = IF e \in SandboxEnvs
                THEN [t EXCEPT !.pc = "purge", !.todo = AppsOf(e), !.victims = AppsOf(e)]
                ELSE [t EXCEPT !.pc = "base"]
        BY <1>2, <3>2 DEF TeardownAppsDone
      <4>2. QED  BY <1>2, <4>1 DEF EnvThread
    <3>3. QED  BY <1>6, <3>1, <3>2
  <2>3. Stays(t, u)
    BY <2>2 DEF Stays, NoEnvThread
  <2>4. QED  BY <2>1, <2>3 DEF Stays
<1>7. ASSUME NEW a \in Apps, TeardownAppInfra(e, k, a) \/ TeardownPurgeApp(e, k, a)
      PROVE  \A f \in Envs, j \in EnvThreads : Stays(envThread[f][j], envThread'[f][j])
  <2>1. envThread' = [envThread EXCEPT ![e][k] = [envThread[e][k] EXCEPT !.todo = envThread[e][k].todo \ {a}]]
    BY <1>2, <1>7 DEF TeardownAppInfra, TeardownPurgeApp
  <2>2. QED  BY <1>2, <1>4, <2>1 DEF Stays, EnvThread
<1>8. \A f \in Envs, j \in EnvThreads : Stays(envThread[f][j], envThread'[f][j])
  BY <1>3, <1>5, <1>6, <1>7 DEF EnvThreadStep, ProvisionLoad, ProvisionCreatesBase, ProvisionSucceeds,
     ProvisionFails, TeardownPurgeDone, TeardownBase, TeardownDeleteRecords, TeardownFails, EnvThreadDies
<1>9. QED  BY <1>1, <1>8

-----------------------------------------------------------------------------
(* Slots, whatever happens to rows and workers. *)

\* A thread lives in a live worker and was claimed for an attempt that is not
\* waiting for a claim any more.
ThreadsAreClaims ==
  /\ \A a \in Apps : Present(a) => app[a].att \in Attempts
  /\ \A a \in Apps, n \in Attempts : appThread[a][n].kind # "none" =>
       /\ appThread[a][n].run \in Runs /\ Alive(appThread[a][n].run)
       /\ app[a].job # "NO_ROW"
       /\ Present(a) => n <= app[a].att
       /\ app[a].job \in {"DEPLOY_PENDING", "REMOVAL_PENDING"} => n # app[a].att
  /\ \A e \in Envs, k \in EnvThreads : envThread[e][k].kind # "none" =>
       envThread[e][k].run \in Runs /\ Alive(envThread[e][k].run)

SlotsOf(r) ==
  /\ IsFiniteSet(Deploying(r)) /\ IsFiniteSet(Provisioning(r))
  /\ freeSlots[r] + Cardinality(Deploying(r)) + Cardinality(Provisioning(r)) = CdkSlots

SlotsIInv == TypeOK /\ ThreadsAreClaims /\ \A r \in Runs : SlotsOf(r)

\* What a thread holds of a kind of job.
SameHold(t, u, kind) == (t.kind = kind <=> u.kind = kind) /\ (u.kind = kind => u.run = t.run)

\* A run's slots add up after a step that moves none of its threads.
LEMMA SlotsKept ==
  ASSUME NEW r \in Runs, SlotsOf(r), freeSlots'[r] = freeSlots[r],
         \A a \in Apps, n \in Attempts : SameHold(appThread[a][n], appThread'[a][n], "deploy"),
         \A e \in Envs, k \in EnvThreads : SameHold(envThread[e][k], envThread'[e][k], "provision")
  PROVE  SlotsOf(r)'
<1>1. Deploying(r)' = Deploying(r)
  BY DEF Deploying, SameHold
<1>2. Provisioning(r)' = Provisioning(r)
  BY DEF Provisioning, SameHold
<1>3. QED  BY <1>1, <1>2 DEF SlotsOf

\* One thread takes a slot of run r for its deployment, or returns it.
LEMMA DeploySlotMoves ==
  ASSUME TypeOK, NEW r \in Runs, SlotsOf(r), NEW a \in Apps, NEW n \in Attempts,
         envThread' = envThread,
         \A b \in Apps, m \in Attempts : b # a \/ m # n => appThread'[b][m] = appThread[b][m],
         \/ /\ appThread[a][n].kind # "deploy"
            /\ appThread'[a][n].kind = "deploy" /\ appThread'[a][n].run = r
            /\ freeSlots'[r] = freeSlots[r] - 1
         \/ /\ appThread[a][n].kind = "deploy" /\ appThread[a][n].run = r
            /\ appThread'[a][n].kind # "deploy"
            /\ freeSlots'[r] = freeSlots[r] + 1
  PROVE  SlotsOf(r)'
<1> DEFINE D == Deploying(r)
           i == <<a, n>>
<1>1. Provisioning(r)' = Provisioning(r)
  BY DEF Provisioning
<1>2. IsFiniteSet(D) /\ Cardinality(D) \in Nat /\ Cardinality(Provisioning(r)) \in Nat
      /\ freeSlots[r] \in Nat /\ CdkSlots \in Nat
  BY FS_CardinalityType, BoundsAssumption DEF SlotsOf, TypeOK
<1>3. ASSUME appThread[a][n].kind # "deploy", appThread'[a][n].kind = "deploy",
             appThread'[a][n].run = r, freeSlots'[r] = freeSlots[r] - 1
      PROVE  SlotsOf(r)'
  <2>1. D' = D \cup {i} /\ i \notin D
    BY <1>3 DEF Deploying
  <2>2. IsFiniteSet(D') /\ Cardinality(D') = Cardinality(D) + 1
    BY <1>2, <2>1, FS_AddElement
  <2> HIDE DEF D
  <2>3. QED  BY <1>1, <1>2, <1>3, <2>2 DEF SlotsOf, D
<1>4. ASSUME appThread[a][n].kind = "deploy", appThread[a][n].run = r,
             appThread'[a][n].kind # "deploy", freeSlots'[r] = freeSlots[r] + 1
      PROVE  SlotsOf(r)'
  <2>1. D' = D \ {i} /\ i \in D
    BY <1>4 DEF Deploying
  <2>2. IsFiniteSet(D') /\ Cardinality(D') = Cardinality(D) - 1
    BY <1>2, <2>1, FS_RemoveElement
  <2> HIDE DEF D
  <2>3. QED  BY <1>1, <1>2, <1>4, <2>2 DEF SlotsOf, D
<1>5. QED  BY <1>3, <1>4

\* The same for a provisioning.
LEMMA ProvisionSlotMoves ==
  ASSUME TypeOK, NEW r \in Runs, SlotsOf(r), NEW e \in Envs, NEW k \in EnvThreads,
         appThread' = appThread,
         \A f \in Envs, j \in EnvThreads : f # e \/ j # k => envThread'[f][j] = envThread[f][j],
         \/ /\ envThread[e][k].kind # "provision"
            /\ envThread'[e][k].kind = "provision" /\ envThread'[e][k].run = r
            /\ freeSlots'[r] = freeSlots[r] - 1
         \/ /\ envThread[e][k].kind = "provision" /\ envThread[e][k].run = r
            /\ envThread'[e][k].kind # "provision"
            /\ freeSlots'[r] = freeSlots[r] + 1
  PROVE  SlotsOf(r)'
<1> DEFINE P == Provisioning(r)
           i == <<e, k>>
<1>1. Deploying(r)' = Deploying(r)
  BY DEF Deploying
<1>2. IsFiniteSet(P) /\ Cardinality(P) \in Nat /\ Cardinality(Deploying(r)) \in Nat
      /\ freeSlots[r] \in Nat /\ CdkSlots \in Nat
  BY FS_CardinalityType, BoundsAssumption DEF SlotsOf, TypeOK
<1>3. ASSUME envThread[e][k].kind # "provision", envThread'[e][k].kind = "provision",
             envThread'[e][k].run = r, freeSlots'[r] = freeSlots[r] - 1
      PROVE  SlotsOf(r)'
  <2>1. P' = P \cup {i} /\ i \notin P
    BY <1>3 DEF Provisioning
  <2>2. IsFiniteSet(P') /\ Cardinality(P') = Cardinality(P) + 1
    BY <1>2, <2>1, FS_AddElement
  <2> HIDE DEF P
  <2>3. QED  BY <1>1, <1>2, <1>3, <2>2 DEF SlotsOf, P
<1>4. ASSUME envThread[e][k].kind = "provision", envThread[e][k].run = r,
             envThread'[e][k].kind # "provision", freeSlots'[r] = freeSlots[r] + 1
      PROVE  SlotsOf(r)'
  <2>1. P' = P \ {i} /\ i \in P
    BY <1>4 DEF Provisioning
  <2>2. IsFiniteSet(P') /\ Cardinality(P') = Cardinality(P) - 1
    BY <1>2, <2>1, FS_RemoveElement
  <2> HIDE DEF P
  <2>3. QED  BY <1>1, <1>2, <1>4, <2>2 DEF SlotsOf, P
<1>5. QED  BY <1>3, <1>4

\* A thread's step either ends it, with its slot, or keeps its kind and worker.
LEMMA AppThreadHolds ==
  ASSUME TypeOK, NEW a \in Apps, NEW n \in Attempts, AppThreadStep(a, n)
  PROVE  /\ envThread' = envThread
         /\ \A b \in Apps, m \in Attempts : b # a \/ m # n => appThread'[b][m] = appThread[b][m]
         /\ \/ Finish(a, n)
            \/ /\ freeSlots' = freeSlots
               /\ appThread'[a][n].kind = appThread[a][n].kind
               /\ appThread'[a][n].run = appThread[a][n].run
<1>1. envThread' = envThread
  BY AppThreadStays
<1>2. appThread \in [Apps -> [Attempts -> AppThread]] /\ appThread[a][n] \in AppThread
  BY DEF TypeOK
<1> DEFINE Others == \A b \in Apps, m \in Attempts : b # a \/ m # n => appThread'[b][m] = appThread[b][m]
<1>3. ASSUME NEW t, appThread' = [appThread EXCEPT ![a][n] = t] PROVE Others
  BY <1>2, <1>3
<1> DEFINE Same == /\ appThread'[a][n].kind = appThread[a][n].kind
                   /\ appThread'[a][n].run = appThread[a][n].run
<1>4. ASSUME NEW pc, GoTo(a, n, pc) PROVE Same /\ Others
  <2>1. appThread' = [appThread EXCEPT ![a][n] = [appThread[a][n] EXCEPT !.pc = pc]]
    BY <1>2, <1>4 DEF GoTo
  <2>2. QED  BY <1>2, <1>3, <2>1 DEF AppThread
<1>5. ASSUME NEW ev, GoRecord(a, n, ev) PROVE Same /\ Others
  <2>1. appThread' = [appThread EXCEPT ![a][n] = [appThread[a][n] EXCEPT !.pc = "record", !.ev = ev]]
    BY <1>2, <1>5 DEF GoRecord
  <2>2. QED  BY <1>2, <1>3, <2>1 DEF AppThread
<1>6. ASSUME NEW pc, Loaded(a, n, pc) PROVE Same /\ Others
  <2>1. appThread' = [appThread EXCEPT ![a][n] =
                        [appThread[a][n] EXCEPT !.pc = pc, !.job = app[a].job, !.att = app[a].att]]
    BY <1>2, <1>6 DEF Loaded
  <2>2. QED  BY <1>2, <1>3, <2>1 DEF AppThread
<1>7. ASSUME Finish(a, n) PROVE Others
  BY <1>3, <1>7 DEF Finish
<1> DEFINE Goal == Others /\ (Finish(a, n) \/ (freeSlots' = freeSlots /\ Same))
<1>8. ASSUME RemovalRaises(a, n) PROVE Goal
  <2>1. CASE app[a].job = "REMOVING"
    <3> DEFINE t == [appThread[a][n] EXCEPT !.pc = "record", !.job = "REMOVING",
                                            !.att = app[a].att, !.ev = "REMOVAL_FAILED"]
    <3>1. appThread' = [appThread EXCEPT ![a][n] = t]
      <4>1. appThread' = [appThread EXCEPT ![a][n].pc = "record", ![a][n].job = "REMOVING",
                            ![a][n].att = app[a].att, ![a][n].ev = "REMOVAL_FAILED"]
        BY <1>8, <2>1 DEF RemovalRaises
      <4>2. QED  BY <1>2, <4>1
    <3>2. Same
      BY <1>2, <3>1 DEF AppThread
    <3>3. Others
      BY <1>3, <3>1
    <3>4. QED  BY <1>8, <2>1, <3>2, <3>3 DEF RemovalRaises
  <2>2. CASE app[a].job # "REMOVING"
    BY <1>7, <1>8, <2>2 DEF RemovalRaises
  <2>3. QED  BY <2>1, <2>2
<1> HIDE DEF Same, Others
<1>9. Goal
  <2>1. CASE RemovalRaises(a, n)
    BY <1>8, <2>1
  <2>2. CASE RemovalLoad(a, n)
    BY <1>6, <1>7, <2>2 DEF RemovalLoad
  <2>3. CASE DeployThreadDies(a, n) \/ DeployRecordFails(a, n) \/ WriteRecord(a, n) \/ RemovalDelete(a, n)
    BY <1>7, <2>3 DEF DeployThreadDies, DeployRecordFails, WriteRecord, RemovalDelete
  <2>4. CASE DeployLoad(a, n)
    BY <1>6, <2>4 DEF DeployLoad
  <2>5. CASE DeploySettleSuccess(a, n) \/ DeploySettleFailure(a, n) \/ RemovalSettleFailure(a, n)
    BY <1>5, <2>5 DEF DeploySettleSuccess, DeploySettleFailure, RemovalSettleFailure
  <2>6. CASE \/ DeployCreatesInfra(a, n) \/ RemovalTeardown(a, n) \/ RemovalClearsOutputs(a, n)
             \/ RemovalPurge(a, n) \/ RemovalPurgeFails(a, n)
    BY <1>4, <2>6 DEF DeployCreatesInfra, RemovalTeardown, RemovalClearsOutputs, RemovalPurge,
       RemovalPurgeFails
  <2>7. QED  BY <2>1, <2>2, <2>3, <2>4, <2>5, <2>6 DEF AppThreadStep
<1>10. QED  BY <1>1, <1>9 DEF Same, Others

\* The same for an environment's thread.
LEMMA EnvThreadHolds ==
  ASSUME TypeOK, NEW e \in Envs, NEW k \in EnvThreads, EnvThreadStep(e, k)
  PROVE  /\ appThread' = appThread
         /\ \A f \in Envs, j \in EnvThreads : f # e \/ j # k => envThread'[f][j] = envThread[f][j]
         /\ \/ EnvFinish(e, k)
            \/ /\ freeSlots' = freeSlots
               /\ SameHold(envThread[e][k], envThread'[e][k], "provision")
<1>1. appThread' = appThread /\ Stays(envThread[e][k], envThread'[e][k])
  BY EnvThreadStays
<1>2. envThread \in [Envs -> [EnvThreads -> EnvThread]] /\ envThread[e][k] \in EnvThread
  BY DEF TypeOK
<1>3. \A f \in Envs, j \in EnvThreads : f # e \/ j # k => envThread'[f][j] = envThread[f][j]
  BY <1>2 DEF EnvThreadStep, ProvisionLoad, ProvisionCreatesBase, ProvisionSucceeds, ProvisionFails,
     TeardownLoad, TeardownAppsDone, TeardownPurgeDone, TeardownBase, TeardownDeleteRecords,
     TeardownFails, EnvThreadDies, TeardownAppInfra, TeardownPurgeApp, EnvGoTo, EnvFinish
<1>4. ASSUME NEW pc, EnvGoTo(e, k, pc) PROVE SameHold(envThread[e][k], envThread'[e][k], "provision")
  <2>1. envThread'[e][k] = [envThread[e][k] EXCEPT !.pc = pc]
    BY <1>2, <1>4 DEF EnvGoTo
  <2>2. QED  BY <1>2, <2>1 DEF EnvThread, SameHold
<1>5. ASSUME envThread[e][k].kind = "teardown"
      PROVE  SameHold(envThread[e][k], envThread'[e][k], "provision")
  BY <1>1, <1>5 DEF Stays, SameHold
<1>6. EnvFinish(e, k) \/ (freeSlots' = freeSlots /\ SameHold(envThread[e][k], envThread'[e][k], "provision"))
  <2>1. CASE ProvisionLoad(e, k)
    BY <1>4, <2>1 DEF ProvisionLoad
  <2>2. CASE ProvisionCreatesBase(e, k)
    BY <1>4, <2>2 DEF ProvisionCreatesBase
  <2>3. CASE \/ ProvisionSucceeds(e, k) \/ ProvisionFails(e, k) \/ TeardownDeleteRecords(e, k)
             \/ TeardownFails(e, k) \/ EnvThreadDies(e, k)
    BY <2>3 DEF ProvisionSucceeds, ProvisionFails, TeardownDeleteRecords, TeardownFails, EnvThreadDies
  <2>4. CASE \/ TeardownLoad(e, k) \/ TeardownAppsDone(e, k) \/ TeardownPurgeDone(e, k)
             \/ TeardownBase(e, k) \/ \E a \in Apps : TeardownAppInfra(e, k, a) \/ TeardownPurgeApp(e, k, a)
    BY <1>5, <2>4 DEF TeardownLoad, TeardownAppsDone, TeardownPurgeDone, TeardownBase,
       TeardownAppInfra, TeardownPurgeApp, EnvAt
  <2>5. QED  BY <2>1, <2>2, <2>3, <2>4 DEF EnvThreadStep
<1>7. QED  BY <1>1, <1>3, <1>6

\* What becomes of a row that a thread was claimed for: it settles, or is deleted.
RowConcludes(a) ==
  /\ app'[a].att = app[a].att
  /\ app'[a].job = app[a].job \/ (Present(a) /\ app'[a].job = "IDLE")
RowsGoOn == \A a \in Apps : RowConcludes(a) \/ app'[a].job = "DELETED"

\* A thread's step concludes rows, or deletes its own.
LEMMA ThreadStepKeepsRows ==
  ASSUME TypeOK, NEW a \in Apps, NEW n \in Attempts, AppThreadStep(a, n)
  PROVE  RemovalDelete(a, n) \/ \A b \in Apps : RowConcludes(b)
<1> DEFINE Settle == \A b \in Apps : RowConcludes(b)
<1>1. app[a] \in AppRow /\ app \in [Apps -> AppRow]
  BY DEF TypeOK
<1>2. \A job : FailedRow(app[a], job).job = "IDLE" /\ FailedRow(app[a], job).att = app[a].att
  BY <1>1 DEF FailedRow, AppRow
<1>3. DeployedRow(app[a]).job = "IDLE" /\ DeployedRow(app[a]).att = app[a].att
  BY <1>1 DEF DeployedRow, AppRow
<1>4. ASSUME NEW next, app' = [app EXCEPT ![a] = next], Present(a), next.job = "IDLE", next.att = app[a].att
      PROVE  Settle
  BY <1>1, <1>4 DEF RowConcludes, Present
<1>5. CASE DeploySettleSuccess(a, n)
  BY <1>3, <1>4, <1>5 DEF DeploySettleSuccess
<1>6. CASE DeploySettleFailure(a, n)
  BY <1>2, <1>4, <1>6 DEF DeploySettleFailure
<1>7. CASE DeployRecordFails(a, n)
  BY <1>2, <1>4, <1>7 DEF DeployRecordFails
<1>8. CASE RemovalSettleFailure(a, n)
  BY <1>2, <1>4, <1>8 DEF RemovalSettleFailure
<1>9. CASE RemovalRaises(a, n)
  <2>1. CASE app[a].job = "REMOVING"
    <3>1. app' = [app EXCEPT ![a] = FailedRow(app[a], "REMOVING")] /\ Present(a)
      BY <1>9, <2>1 DEF RemovalRaises, Present, JobStatus
    <3>2. QED  BY <1>2, <1>4, <3>1
  <2>2. CASE app[a].job # "REMOVING"
    BY <1>9, <2>2 DEF RemovalRaises, RowConcludes
  <2>3. QED  BY <2>1, <2>2
<1>10. CASE RemovalClearsOutputs(a, n)
  <2>1. app' = [app EXCEPT ![a] = [app[a] EXCEPT !.live = "NOT_DEPLOYED", !.mayInfra = FALSE]]
    BY <1>1, <1>10 DEF RemovalClearsOutputs
  <2>2. app'[a].job = app[a].job /\ app'[a].att = app[a].att /\ \A b \in Apps \ {a} : app'[b] = app[b]
    BY <1>1, <2>1 DEF AppRow
  <2>3. QED  BY <2>2 DEF RowConcludes
<1>11. CASE UNCHANGED app
  BY <1>11 DEF RowConcludes
<1>12. QED
  BY <1>5, <1>6, <1>7, <1>8, <1>9, <1>10, <1>11 DEF AppThreadStep, DeployLoad,
     DeployCreatesInfra, DeployThreadDies, WriteRecord, RemovalLoad, RemovalTeardown, RemovalPurge,
     RemovalPurgeFails

\* Settling a set of apps concludes their rows.
LEMMA SettlersKeepRows ==
  ASSUME TypeOK, NEW S \in SUBSET Apps, \A a \in S : Present(a), SettleFailureOfAll(S)
  PROVE  \A a \in Apps : RowConcludes(a)
<1>1. \A a \in Apps : app'[a] = IF a \in S THEN FailedRow(app[a], app[a].job) ELSE app[a]
  BY DEF SettleFailureOfAll
<1>2. \A a \in Apps : FailedRow(app[a], app[a].job).job = "IDLE" /\ FailedRow(app[a], app[a].job).att = app[a].att
  BY DEF FailedRow, AppRow, TypeOK
<1>3. QED  BY <1>1, <1>2 DEF RowConcludes

\* The claims stay claims while rows go on, threads stay, and workers live.
LEMMA ClaimsKept ==
  ASSUME TypeOK, ThreadsAreClaims, RowsGoOn, \A r \in Runs : Alive(r) => Alive(r)',
         \A a \in Apps, n \in Attempts : Stays(appThread[a][n], appThread'[a][n]),
         \A e \in Envs, k \in EnvThreads : Stays(envThread[e][k], envThread'[e][k])
  PROVE  ThreadsAreClaims'
<1>1. ASSUME NEW a \in Apps, NEW n \in Attempts, appThread'[a][n].kind # "none"
      PROVE  /\ appThread'[a][n].run \in Runs /\ Alive(appThread[a][n].run)'
             /\ app'[a].job # "NO_ROW"
             /\ Present(a)' => n <= app'[a].att
             /\ app'[a].job \in {"DEPLOY_PENDING", "REMOVAL_PENDING"} => n # app'[a].att
  <2>1. appThread[a][n].kind # "none" /\ appThread'[a][n].run = appThread[a][n].run
    BY <1>1 DEF Stays
  <2>2. /\ appThread[a][n].run \in Runs /\ Alive(appThread[a][n].run)
        /\ app[a].job # "NO_ROW"
        /\ Present(a) => n <= app[a].att
        /\ app[a].job \in {"DEPLOY_PENDING", "REMOVAL_PENDING"} => n # app[a].att
    BY <2>1 DEF ThreadsAreClaims
  <2>3. appThread'[a][n].run \in Runs /\ Alive(appThread[a][n].run)'
    <3>1. \A r \in Runs : run[r] \in {"fresh", "late"} => run'[r] \in {"fresh", "late"}
      BY DEF Alive
    <3>2. QED  BY <2>1, <2>2, <3>1 DEF Alive
  <2>4. QED  BY <2>2, <2>3 DEF RowsGoOn, RowConcludes, Present, JobStatus
<1>2. ASSUME NEW e \in Envs, NEW k \in EnvThreads, envThread'[e][k].kind # "none"
      PROVE  envThread'[e][k].run \in Runs /\ Alive(envThread[e][k].run)'
  <2>1. envThread[e][k].kind # "none" /\ envThread'[e][k].run = envThread[e][k].run
    BY <1>2 DEF Stays
  <2>2. envThread[e][k].run \in Runs /\ Alive(envThread[e][k].run)
    BY <2>1 DEF ThreadsAreClaims
  <2>3. \A r \in Runs : run[r] \in {"fresh", "late"} => run'[r] \in {"fresh", "late"}
    BY DEF Alive
  <2>4. QED  BY <2>1, <2>2, <2>3 DEF Alive
<1>3. \A a \in Apps : Present(a)' => app'[a].att \in Attempts
  BY DEF ThreadsAreClaims, RowsGoOn, RowConcludes, Present, JobStatus
<1>4. QED  BY <1>1, <1>2, <1>3 DEF ThreadsAreClaims

\* No thread of a run holds a slot: its semaphore is full.
LEMMA NoThreadsNoSlots ==
  ASSUME NEW r \in Runs, freeSlots[r] = CdkSlots,
         \A a \in Apps, n \in Attempts : appThread[a][n].kind # "none" => appThread[a][n].run # r,
         \A e \in Envs, k \in EnvThreads : envThread[e][k].kind # "none" => envThread[e][k].run # r
  PROVE  SlotsOf(r)
<1>1. Deploying(r) = {} /\ Provisioning(r) = {}
  BY DEF Deploying, Provisioning
<1>2. IsFiniteSet({}) /\ Cardinality({}) = 0
  BY FS_EmptySet
<1>3. QED  BY <1>1, <1>2, BoundsAssumption DEF SlotsOf

\* At the start no thread runs and every semaphore is full.
LEMMA SlotsInit == Init => SlotsIInv
<1> SUFFICES ASSUME Init PROVE SlotsIInv
  OBVIOUS
<1>1. \A a \in Apps, n \in Attempts : appThread[a][n].kind = "none"
  BY DEF Init, NoThread
<1>2. \A e \in Envs, k \in EnvThreads : envThread[e][k].kind = "none"
  BY DEF Init, NoEnvThread
<1>3. \A r \in Runs : freeSlots[r] = CdkSlots
  BY DEF Init
<1>4. \A r \in Runs : SlotsOf(r)
  BY <1>1, <1>2, <1>3, NoThreadsNoSlots
<1>5. ThreadsAreClaims
  BY <1>1, <1>2 DEF ThreadsAreClaims, Init, NewApp, Present, JobStatus
<1>6. QED  BY <1>4, <1>5, InitType DEF SlotsIInv

\* A step that moves no thread and no semaphore.
LEMMA NoThreadMoves ==
  ASSUME SlotsIInv, RowsGoOn, UNCHANGED <<appThread, envThread, run, freeSlots>>
  PROVE  ThreadsAreClaims' /\ \A r \in Runs : SlotsOf(r)'
<1>1. ThreadsAreClaims'
  BY ClaimsKept DEF SlotsIInv, Stays, Alive
<1>2. \A r \in Runs : SlotsOf(r)'
  BY SlotsKept DEF SlotsIInv, SameHold
<1>3. QED  BY <1>1, <1>2

\* A step of an app's thread returns its slot exactly when a deployment ends.
LEMMA AppThreadSlots ==
  ASSUME SlotsIInv, NEW a \in Apps, NEW n \in Attempts, AppThreadStep(a, n)
  PROVE  ThreadsAreClaims' /\ \A r \in Runs : SlotsOf(r)'
<1>1. TypeOK /\ ThreadsAreClaims /\ \A r \in Runs : SlotsOf(r)
  BY DEF SlotsIInv
<1>2. /\ run' = run /\ envThread' = envThread
      /\ \A b \in Apps, m \in Attempts : Stays(appThread[b][m], appThread'[b][m])
  BY <1>1, AppThreadStays
<1>3. RowsGoOn
  <2>1. CASE RemovalDelete(a, n)
    BY <2>1 DEF RemovalDelete, DeleteRows, NewApp, RowsGoOn, RowConcludes
  <2>2. QED  BY <1>1, <2>1, ThreadStepKeepsRows DEF RowsGoOn
<1>4. ThreadsAreClaims'
  BY <1>1, <1>2, <1>3, ClaimsKept DEF Stays, Alive
<1>5. \A b \in Apps, m \in Attempts : b # a \/ m # n => appThread'[b][m] = appThread[b][m]
  BY <1>1, AppThreadHolds
<1>6. CASE Finish(a, n)
  <2>1. appThread'[a][n].kind # "deploy"
    BY <1>1, <1>6 DEF Finish, NoThread, TypeOK
  <2>2. CASE appThread[a][n].kind = "deploy"
    <3>1. PICK r \in Runs : appThread[a][n].run = r
      BY <1>1, <2>2 DEF ThreadsAreClaims
    <3>2. freeSlots' = [freeSlots EXCEPT ![r] = freeSlots[r] + 1]
      BY <3>1, <1>6, <2>2 DEF Finish
    <3>3. ASSUME NEW s \in Runs, s # r PROVE SlotsOf(s)'
      <4>1. freeSlots'[s] = freeSlots[s]
        BY <1>1, <3>2, <3>3 DEF TypeOK
      <4>2. Deploying(s)' = Deploying(s)
        BY <1>5, <2>1, <3>1, <3>3 DEF Deploying
      <4>3. Provisioning(s)' = Provisioning(s)
        BY <1>2 DEF Provisioning
      <4>4. QED  BY <1>1, <4>1, <4>2, <4>3 DEF SlotsOf
    <3>4. SlotsOf(r)'
      <4>1. freeSlots'[r] = freeSlots[r] + 1
        BY <1>1, <3>2 DEF TypeOK
      <4>2. QED  BY <1>1, <1>2, <1>5, <2>1, <2>2, <3>1, <4>1, DeploySlotMoves
    <3>5. QED  BY <1>4, <3>3, <3>4
  <2>3. CASE appThread[a][n].kind # "deploy"
    <3>1. freeSlots' = freeSlots
      BY <1>6, <2>3 DEF Finish
    <3>2. \A b \in Apps, m \in Attempts : SameHold(appThread[b][m], appThread'[b][m], "deploy")
      BY <1>5, <2>1, <2>3 DEF SameHold
    <3>3. \A e \in Envs, k \in EnvThreads : SameHold(envThread[e][k], envThread'[e][k], "provision")
      BY <1>2 DEF SameHold
    <3>4. QED  BY <1>1, <1>4, <3>1, <3>2, <3>3, SlotsKept
  <2>4. QED  BY <2>2, <2>3
<1>7. CASE /\ freeSlots' = freeSlots
           /\ appThread'[a][n].kind = appThread[a][n].kind
           /\ appThread'[a][n].run = appThread[a][n].run
  <2>1. \A b \in Apps, m \in Attempts : SameHold(appThread[b][m], appThread'[b][m], "deploy")
    BY <1>5, <1>7 DEF SameHold
  <2>2. \A e \in Envs, k \in EnvThreads : SameHold(envThread[e][k], envThread'[e][k], "provision")
    BY <1>2 DEF SameHold
  <2>3. QED  BY <1>1, <1>4, <1>7, <2>1, <2>2, SlotsKept
<1>8. QED  BY <1>1, <1>6, <1>7, AppThreadHolds

\* An environment's thread leaves the app rows alone, until it deletes them.
LEMMA EnvStepKeepsRows ==
  ASSUME TypeOK, NEW e \in Envs, NEW k \in EnvThreads, EnvThreadStep(e, k)
  PROVE  TeardownDeleteRecords(e, k) \/ app' = app
BY DEF EnvThreadStep, ProvisionLoad, ProvisionCreatesBase, ProvisionSucceeds,
   ProvisionFails, TeardownLoad, TeardownAppsDone, TeardownPurgeDone, TeardownBase, TeardownFails,
   EnvThreadDies, TeardownAppInfra, TeardownPurgeApp

\* A step of an environment's thread returns its slot exactly when a provisioning ends.
LEMMA EnvThreadSlots ==
  ASSUME SlotsIInv, NEW e \in Envs, NEW k \in EnvThreads, EnvThreadStep(e, k)
  PROVE  ThreadsAreClaims' /\ \A r \in Runs : SlotsOf(r)'
<1>1. TypeOK /\ ThreadsAreClaims /\ \A r \in Runs : SlotsOf(r)
  BY DEF SlotsIInv
<1>2. /\ run' = run /\ appThread' = appThread
      /\ \A f \in Envs, j \in EnvThreads : Stays(envThread[f][j], envThread'[f][j])
  BY <1>1, EnvThreadStays
<1>3. RowsGoOn
  <2>1. CASE TeardownDeleteRecords(e, k)
    BY <2>1 DEF TeardownDeleteRecords, DeleteRows, NewApp, RowsGoOn, RowConcludes
  <2>2. QED  BY <1>1, <2>1, EnvStepKeepsRows DEF RowsGoOn, RowConcludes
<1>4. ThreadsAreClaims'
  BY <1>1, <1>2, <1>3, ClaimsKept DEF Stays, Alive
<1>5. \A f \in Envs, j \in EnvThreads : f # e \/ j # k => envThread'[f][j] = envThread[f][j]
  BY <1>1, EnvThreadHolds
<1>6. \A a \in Apps, n \in Attempts : SameHold(appThread[a][n], appThread'[a][n], "deploy")
  BY <1>2 DEF SameHold
<1>7. CASE EnvFinish(e, k)
  <2>1. envThread'[e][k].kind # "provision"
    BY <1>1, <1>7 DEF EnvFinish, NoEnvThread, TypeOK
  <2>2. CASE envThread[e][k].kind = "provision"
    <3>1. PICK r \in Runs : envThread[e][k].run = r
      BY <1>1, <2>2 DEF ThreadsAreClaims
    <3>2. freeSlots' = [freeSlots EXCEPT ![r] = freeSlots[r] + 1]
      BY <3>1, <1>7, <2>2 DEF EnvFinish
    <3>3. ASSUME NEW s \in Runs, s # r PROVE SlotsOf(s)'
      <4>1. freeSlots'[s] = freeSlots[s]
        BY <1>1, <3>2, <3>3 DEF TypeOK
      <4>2. Provisioning(s)' = Provisioning(s)
        BY <1>5, <2>1, <3>1, <3>3 DEF Provisioning
      <4>3. Deploying(s)' = Deploying(s)
        BY <1>2 DEF Deploying
      <4>4. QED  BY <1>1, <4>1, <4>2, <4>3 DEF SlotsOf
    <3>4. SlotsOf(r)'
      <4>1. freeSlots'[r] = freeSlots[r] + 1
        BY <1>1, <3>2 DEF TypeOK
      <4>2. QED  BY <1>1, <1>2, <1>5, <2>1, <2>2, <3>1, <4>1, ProvisionSlotMoves
    <3>5. QED  BY <1>4, <3>3, <3>4
  <2>3. CASE envThread[e][k].kind # "provision"
    <3>1. freeSlots' = freeSlots
      BY <1>7, <2>3 DEF EnvFinish
    <3>2. \A f \in Envs, j \in EnvThreads : SameHold(envThread[f][j], envThread'[f][j], "provision")
      BY <1>5, <2>1, <2>3 DEF SameHold
    <3>3. QED  BY <1>1, <1>4, <1>6, <3>1, <3>2, SlotsKept
  <2>4. QED  BY <2>2, <2>3
<1>8. CASE freeSlots' = freeSlots /\ SameHold(envThread[e][k], envThread'[e][k], "provision")
  <2>1. \A f \in Envs, j \in EnvThreads : SameHold(envThread[f][j], envThread'[f][j], "provision")
    BY <1>5, <1>8 DEF SameHold
  <2>2. QED  BY <1>1, <1>4, <1>6, <1>8, <2>1, SlotsKept
<1>9. QED  BY <1>1, <1>7, <1>8, EnvThreadHolds

\* A new attempt has no thread yet, and its app's other threads are of older ones.
LEMMA OpenAttemptSlots ==
  ASSUME SlotsIInv, NEW a \in Apps, NEW row \in AppRow, row.att = app[a].att,
         app[a].job \in {"NO_ROW", "IDLE"}, NEW job \in JobStatus, NEW ev,
         OpenAttempt(a, row, job, ev), NoThreadStep
  PROVE  ThreadsAreClaims' /\ \A r \in Runs : SlotsOf(r)'
<1>1. TypeOK /\ ThreadsAreClaims
  BY DEF SlotsIInv
<1>2. appThread' = appThread /\ envThread' = envThread /\ run' = run /\ freeSlots' = freeSlots
  BY DEF NoThreadStep
<1>3. \A r \in Runs : SlotsOf(r)'
  BY <1>2, SlotsKept DEF SlotsIInv, SameHold
<1>4. /\ app' = [app EXCEPT ![a] = [row EXCEPT !.job = job, !.att = row.att + 1, !.err = "NONE"]]
      /\ app[a] \in AppRow /\ app \in [Apps -> AppRow]
  BY <1>1 DEF OpenAttempt, TypeOK
<1>5. app'[a].job = job /\ app'[a].att = app[a].att + 1 /\ \A b \in Apps \ {a} : app'[b] = app[b]
  BY <1>4 DEF AppRow
<1>6. ASSUME NEW b \in Apps, NEW n \in Attempts, appThread'[b][n].kind # "none"
      PROVE  /\ appThread'[b][n].run \in Runs /\ Alive(appThread[b][n].run)'
             /\ app'[b].job # "NO_ROW"
             /\ Present(b)' => n <= app'[b].att
             /\ app'[b].job \in {"DEPLOY_PENDING", "REMOVAL_PENDING"} => n # app'[b].att
  <2>1. /\ appThread[b][n].run \in Runs /\ Alive(appThread[b][n].run)
        /\ app[b].job # "NO_ROW"
        /\ Present(b) => n <= app[b].att
        /\ app[b].job \in {"DEPLOY_PENDING", "REMOVAL_PENDING"} => n # app[b].att
    BY <1>1, <1>2, <1>6 DEF ThreadsAreClaims
  <2>2. CASE b # a
    BY <1>2, <1>5, <2>1, <2>2 DEF Present, Alive
  <2>3. CASE b = a
    <3>1. n <= app[a].att /\ app[a].att \in Nat /\ n \in Nat
      BY <1>4, <2>1, <2>3, BoundsAssumption DEF Present, JobStatus, AppRow, Attempts
    <3>2. n <= app'[a].att /\ n # app'[a].att
      BY <1>5, <3>1
    <3>3. app'[a].job # "NO_ROW"
      BY <1>5 DEF JobStatus
    <3>4. QED  BY <1>2, <2>1, <2>3, <3>2, <3>3 DEF Alive
  <2>4. QED  BY <2>2, <2>3
<1>7. \A e \in Envs, k \in EnvThreads : envThread'[e][k].kind # "none" =>
        envThread'[e][k].run \in Runs /\ Alive(envThread[e][k].run)'
  BY <1>1, <1>2 DEF ThreadsAreClaims, Alive
<1>8. \A b \in Apps : Present(b)' => app'[b].att \in Attempts
  <2>1. app'[a].att \in Attempts
    BY <1>4, <1>5, BoundsAssumption DEF AppRow, Attempts, OpenAttempt
  <2>2. QED  BY <1>1, <1>5, <2>1 DEF ThreadsAreClaims, Present
<1>9. QED  BY <1>3, <1>6, <1>7, <1>8 DEF ThreadsAreClaims

\* Admissions open attempts that no thread was claimed for.
LEMMA AdmissionSlots ==
  ASSUME SlotsIInv, NEW a \in Apps, AppAdmission(a)
  PROVE  ThreadsAreClaims' /\ \A r \in Runs : SlotsOf(r)'
<1>1. app[a] \in AppRow
  BY DEF SlotsIInv, TypeOK
<1>2. \A l \in Labels : [app[a] EXCEPT !.label = l] \in AppRow /\ [app[a] EXCEPT !.label = l].att = app[a].att
  BY <1>1 DEF AppRow
<1>3. CASE DeployFromTemplate(a)
  <2>1. PICK l \in Labels : OpenAttempt(a, [app[a] EXCEPT !.label = l], "DEPLOY_PENDING", "DEPLOY_STARTED")
    BY <1>3 DEF DeployFromTemplate
  <2>2. NoThreadStep /\ app[a].job = "NO_ROW"
    BY <1>3 DEF DeployFromTemplate
  <2>3. "DEPLOY_PENDING" \in JobStatus
    BY DEF JobStatus
  <2>4. QED  BY <1>2, <2>1, <2>2, <2>3, OpenAttemptSlots
<1>4. CASE QueueDeploy(a)
  <2>1. "DEPLOY_PENDING" \in JobStatus
    BY DEF JobStatus
  <2>2. QED  BY <1>1, <1>4, <2>1, OpenAttemptSlots DEF QueueDeploy, RequireIdle
<1>5. CASE QueueRemoval(a)
  <2>1. PICK l \in {app[a].label, Unscoped} :
          OpenAttempt(a, [app[a] EXCEPT !.label = l], "REMOVAL_PENDING", "REMOVAL_STARTED")
    BY <1>5 DEF QueueRemoval
  <2>2. NoThreadStep /\ app[a].job = "IDLE" /\ l \in Labels
    BY <1>1, <1>5, RunsAssumption DEF QueueRemoval, RequireIdle, AppRow
  <2>3. "REMOVAL_PENDING" \in JobStatus
    BY DEF JobStatus
  <2>4. QED  BY <1>2, <2>1, <2>2, <2>3, OpenAttemptSlots
<1>6. QED  BY <1>3, <1>4, <1>5 DEF AppAdmission

\* A claimed attempt was waiting, so it had no thread; the new one is of run r.
LEMMA AppClaimSlots ==
  ASSUME SlotsIInv, NEW r \in Runs, NEW a \in Apps, ClaimDeploy(r, a) \/ ClaimRemoval(r, a)
  PROVE  ThreadsAreClaims' /\ \A s \in Runs : SlotsOf(s)'
<1> DEFINE n == app[a].att
<1>1. TypeOK /\ ThreadsAreClaims /\ \A s \in Runs : SlotsOf(s)
  BY DEF SlotsIInv
<1>2. /\ Alive(r) /\ run' = run /\ envThread' = envThread
      /\ app[a].job \in {"DEPLOY_PENDING", "REMOVAL_PENDING"}
      /\ app'[a].job \in {"DEPLOYING", "REMOVING"} /\ app'[a].att = app[a].att
      /\ \A b \in Apps \ {a} : app'[b] = app[b]
      /\ n \in Attempts
  BY <1>1 DEF ClaimDeploy, ClaimRemoval, TypeOK, AppRow, ThreadsAreClaims, Present, JobStatus
<1>3. PICK t \in {Spawned("deploy", r), Spawned("removal", r)} :
        /\ appThread' = [appThread EXCEPT ![a][n] = t]
        /\ t.kind = "deploy" => freeSlots' = [freeSlots EXCEPT ![r] = freeSlots[r] - 1]
        /\ t.kind # "deploy" => freeSlots' = freeSlots
  BY DEF ClaimDeploy, ClaimRemoval, Spawned, NoThread
<1>4. t.run = r /\ t.kind \in {"deploy", "removal"}
  BY <1>3 DEF Spawned, NoThread
<1>5. \A b \in Apps, m \in Attempts : b # a \/ m # n => appThread'[b][m] = appThread[b][m]
  BY <1>1, <1>3 DEF TypeOK
<1>6. appThread'[a][n] = t /\ appThread[a][n].kind = "none"
  BY <1>1, <1>2, <1>3 DEF TypeOK, ThreadsAreClaims
<1>7. ASSUME NEW b \in Apps, NEW m \in Attempts, appThread'[b][m].kind # "none"
      PROVE  /\ appThread'[b][m].run \in Runs /\ Alive(appThread[b][m].run)'
             /\ app'[b].job # "NO_ROW"
             /\ Present(b)' => m <= app'[b].att
             /\ app'[b].job \in {"DEPLOY_PENDING", "REMOVAL_PENDING"} => m # app'[b].att
  <2>1. CASE b = a /\ m = n
    <3>1. n <= n
      BY <1>2, BoundsAssumption DEF Attempts
    <3>2. QED  BY <1>2, <1>4, <1>6, <2>1, <3>1 DEF Alive, Present
  <2>2. CASE b = a /\ m # n
    BY <1>1, <1>2, <1>5, <1>7, <2>2 DEF ThreadsAreClaims, Alive, Present, JobStatus
  <2>3. CASE b # a
    BY <1>1, <1>2, <1>5, <1>7, <2>3 DEF ThreadsAreClaims, Alive, Present
  <2>4. QED  BY <2>1, <2>2, <2>3
<1>8. ThreadsAreClaims'
  <2>1. \A b \in Apps : Present(b)' => app'[b].att \in Attempts
    BY <1>1, <1>2 DEF ThreadsAreClaims, Present
  <2>2. QED  BY <1>1, <1>2, <1>7, <2>1 DEF ThreadsAreClaims, Alive
<1>9. \A e \in Envs, k \in EnvThreads : SameHold(envThread[e][k], envThread'[e][k], "provision")
  BY <1>2 DEF SameHold
<1>10. CASE t.kind # "deploy"
  <2>1. \A b \in Apps, m \in Attempts : SameHold(appThread[b][m], appThread'[b][m], "deploy")
    BY <1>5, <1>6, <1>10 DEF SameHold
  <2>2. QED  BY <1>1, <1>3, <1>8, <1>9, <1>10, <2>1, SlotsKept
<1>11. CASE t.kind = "deploy"
  <2>1. ASSUME NEW s \in Runs, s # r PROVE SlotsOf(s)'
    <3>1. freeSlots'[s] = freeSlots[s]
      BY <1>1, <1>3, <1>11, <2>1 DEF TypeOK
    <3>2. Deploying(s)' = Deploying(s)
      BY <1>4, <1>5, <1>6, <2>1 DEF Deploying
    <3>3. Provisioning(s)' = Provisioning(s)
      BY <1>2 DEF Provisioning
    <3>4. QED  BY <1>1, <3>1, <3>2, <3>3 DEF SlotsOf
  <2>2. SlotsOf(r)'
    <3>1. freeSlots'[r] = freeSlots[r] - 1
      BY <1>1, <1>3, <1>11 DEF TypeOK
    <3>2. appThread[a][n].kind # "deploy" /\ appThread'[a][n].kind = "deploy" /\ appThread'[a][n].run = r
      BY <1>4, <1>6, <1>11
    <3> HIDE DEF n
    <3>3. QED  BY <1>1, <1>2, <1>5, <3>1, <3>2, DeploySlotMoves
  <2>3. QED  BY <1>8, <2>1, <2>2
<1>12. QED  BY <1>10, <1>11

\* A claimed environment gets a thread of run r where there was none.
LEMMA EnvClaimSlots ==
  ASSUME SlotsIInv, NEW r \in Runs, NEW e \in Envs,
         ClaimProvisioning(r, e) \/ ClaimEnvironmentTeardown(r, e)
  PROVE  ThreadsAreClaims' /\ \A s \in Runs : SlotsOf(s)'
<1>1. TypeOK /\ ThreadsAreClaims /\ \A s \in Runs : SlotsOf(s)
  BY DEF SlotsIInv
<1>2. Alive(r) /\ run' = run /\ appThread' = appThread /\ app' = app
  BY DEF ClaimProvisioning, ClaimEnvironmentTeardown, Claim
<1>3. PICK kind \in {"provision", "teardown"}, k \in EnvThreads :
        /\ envThread[e][k] = NoEnvThread
        /\ envThread' = [envThread EXCEPT ![e][k] =
                           [NoEnvThread EXCEPT !.kind = kind, !.pc = "spawned", !.run = r]]
        /\ kind = "provision" => freeSlots' = [freeSlots EXCEPT ![r] = freeSlots[r] - 1]
        /\ kind = "teardown" => freeSlots' = freeSlots
  <2>1. CASE ClaimProvisioning(r, e)
    BY <2>1 DEF ClaimProvisioning, Claim
  <2>2. CASE ClaimEnvironmentTeardown(r, e)
    BY <2>2 DEF ClaimEnvironmentTeardown, Claim
  <2>3. QED  BY <2>1, <2>2
<1>4. \A f \in Envs, j \in EnvThreads : f # e \/ j # k => envThread'[f][j] = envThread[f][j]
  BY <1>1, <1>3 DEF TypeOK
<1>5. envThread'[e][k].kind = kind /\ envThread'[e][k].run = r /\ envThread[e][k].kind = "none"
  BY <1>1, <1>3 DEF TypeOK, NoEnvThread
<1>6. ThreadsAreClaims'
  <2>1. \A f \in Envs, j \in EnvThreads : envThread'[f][j].kind # "none" =>
          envThread'[f][j].run \in Runs /\ Alive(envThread[f][j].run)'
    BY <1>1, <1>2, <1>4, <1>5 DEF ThreadsAreClaims, Alive
  <2>2. QED  BY <1>1, <1>2, <2>1 DEF ThreadsAreClaims, Alive, Present
<1>7. \A a \in Apps, n \in Attempts : SameHold(appThread[a][n], appThread'[a][n], "deploy")
  BY <1>2 DEF SameHold
<1>8. CASE kind = "teardown"
  <2>1. \A f \in Envs, j \in EnvThreads : SameHold(envThread[f][j], envThread'[f][j], "provision")
    BY <1>4, <1>5, <1>8 DEF SameHold
  <2>2. QED  BY <1>1, <1>3, <1>6, <1>7, <1>8, <2>1, SlotsKept
<1>9. CASE kind = "provision"
  <2>1. ASSUME NEW s \in Runs, s # r PROVE SlotsOf(s)'
    <3>1. freeSlots'[s] = freeSlots[s]
      BY <1>1, <1>3, <1>9, <2>1 DEF TypeOK
    <3>2. Provisioning(s)' = Provisioning(s)
      BY <1>4, <1>5, <2>1 DEF Provisioning
    <3>3. Deploying(s)' = Deploying(s)
      BY <1>2 DEF Deploying
    <3>4. QED  BY <1>1, <3>1, <3>2, <3>3 DEF SlotsOf
  <2>2. freeSlots'[r] = freeSlots[r] - 1
    BY <1>1, <1>3, <1>9 DEF TypeOK
  <2>3. SlotsOf(r)'
    BY <1>1, <1>2, <1>4, <1>5, <1>9, <2>2, ProvisionSlotMoves
  <2>4. QED  BY <1>6, <2>1, <2>3
<1>10. QED  BY <1>8, <1>9

\* A worker starts without threads, and when it dies all its threads do.
LEMMA WorkerSlots ==
  ASSUME SlotsIInv, NEW r \in Runs, WorkerStep(r)
  PROVE  ThreadsAreClaims' /\ \A s \in Runs : SlotsOf(s)'
<1>1. TypeOK /\ ThreadsAreClaims /\ \A s \in Runs : SlotsOf(s)
  BY DEF SlotsIInv
<1>2. CASE StartWorker(r)
  <2>1. /\ ~Alive(r) /\ freeSlots' = [freeSlots EXCEPT ![r] = CdkSlots]
        /\ run' = [run EXCEPT ![r] = "fresh"]
        /\ UNCHANGED <<app, appThread, envThread>>
    BY <1>2 DEF StartWorker
  <2>2. \A s \in Runs : Alive(s) => Alive(s)'
    BY <1>1, <2>1 DEF Alive, TypeOK
  <2>3. ThreadsAreClaims'
    BY <1>1, <2>1, <2>2, ClaimsKept DEF RowsGoOn, RowConcludes, Stays
  <2>4. \A a \in Apps, n \in Attempts : appThread'[a][n].kind # "none" => appThread'[a][n].run # r
    BY <1>1, <2>1 DEF ThreadsAreClaims
  <2>5. \A e \in Envs, k \in EnvThreads : envThread'[e][k].kind # "none" => envThread'[e][k].run # r
    BY <1>1, <2>1 DEF ThreadsAreClaims
  <2>6. freeSlots'[r] = CdkSlots
    BY <1>1, <2>1 DEF TypeOK
  <2>7. SlotsOf(r)'
    <3>1. Deploying(r)' = {} /\ Provisioning(r)' = {}
      BY <2>4, <2>5 DEF Deploying, Provisioning
    <3>2. QED  BY <2>6, <3>1, FS_EmptySet, BoundsAssumption DEF SlotsOf
  <2>8. \A s \in Runs \ {r} : freeSlots'[s] = freeSlots[s]
    BY <1>1, <2>1 DEF TypeOK
  <2>9. \A s \in Runs \ {r} : SlotsOf(s)'
    BY <1>1, <2>1, <2>8, SlotsKept DEF SameHold
  <2>10. QED  BY <2>3, <2>7, <2>9
<1>3. CASE BeatWorkerRun(r) \/ HeartbeatExpires(r)
  <2>1. UNCHANGED <<app, appThread, envThread, freeSlots>> /\ \A s \in Runs : Alive(s) => Alive(s)'
    BY <1>1, <1>3 DEF BeatWorkerRun, HeartbeatExpires, Alive, TypeOK
  <2>2. ThreadsAreClaims'
    BY <1>1, <2>1, ClaimsKept DEF RowsGoOn, RowConcludes, Stays
  <2>3. QED  BY <1>1, <2>1, <2>2, SlotsKept DEF SameHold
<1>4. CASE WorkerDies(r)
  <2>1. /\ freeSlots' = [freeSlots EXCEPT ![r] = CdkSlots] /\ app' = app
        /\ \A s \in Runs \ {r} : run'[s] = run[s]
    BY <1>1, <1>4 DEF WorkerDies, TypeOK
  <2>2. \A a \in Apps, n \in Attempts : appThread'[a][n] =
          IF appThread[a][n].run = r THEN NoThread ELSE appThread[a][n]
    BY <1>4 DEF WorkerDies
  <2>3. \A e \in Envs, k \in EnvThreads : envThread'[e][k] =
          IF envThread[e][k].run = r THEN NoEnvThread ELSE envThread[e][k]
    BY <1>4 DEF WorkerDies
  <2>4. NoThread.kind = "none" /\ NoEnvThread.kind = "none"
    BY DEF NoThread, NoEnvThread
  <2>5. ThreadsAreClaims'
    BY <1>1, <2>1, <2>2, <2>3, <2>4 DEF ThreadsAreClaims, Alive, Present
  <2>6. freeSlots'[r] = CdkSlots /\ \A s \in Runs \ {r} : freeSlots'[s] = freeSlots[s]
    BY <1>1, <2>1 DEF TypeOK
  <2>7. SlotsOf(r)'
    <3>1. Deploying(r)' = {} /\ Provisioning(r)' = {}
      BY <2>2, <2>3, <2>4 DEF Deploying, Provisioning
    <3>2. QED  BY <2>6, <3>1, FS_EmptySet, BoundsAssumption DEF SlotsOf
  <2>8. ASSUME NEW s \in Runs \ {r} PROVE SlotsOf(s)'
    <3>1. Deploying(s)' = Deploying(s)
      BY <2>2, <2>4 DEF Deploying
    <3>2. Provisioning(s)' = Provisioning(s)
      BY <2>3, <2>4 DEF Provisioning
    <3>3. QED  BY <1>1, <2>6, <3>1, <3>2 DEF SlotsOf
  <2>9. QED  BY <2>5, <2>7, <2>8
<1>5. CASE PruneWorkerRun(r)
  <2>1. /\ UNCHANGED <<appThread, envThread, freeSlots>>
        /\ \A s \in Runs : Alive(s) => Alive(s)'
    BY <1>1, <1>5 DEF PruneWorkerRun, Alive, TypeOK
  <2>2. \A a \in Apps : app'[a].job = app[a].job /\ app'[a].att = app[a].att
    BY <1>1, <1>5 DEF PruneWorkerRun, TypeOK, AppRow
  <2>3. ThreadsAreClaims'
    BY <1>1, <2>1, <2>2, ClaimsKept DEF RowsGoOn, RowConcludes, Stays
  <2>4. QED  BY <1>1, <2>1, <2>3, SlotsKept DEF SameHold
<1>6. ASSUME NEW a \in Apps, ClaimDeploy(r, a) \/ ClaimRemoval(r, a)
      PROVE  ThreadsAreClaims' /\ \A s \in Runs : SlotsOf(s)'
  BY <1>6, AppClaimSlots
<1>7. ASSUME NEW e \in Envs, ClaimProvisioning(r, e) \/ ClaimEnvironmentTeardown(r, e)
      PROVE  ThreadsAreClaims' /\ \A s \in Runs : SlotsOf(s)'
  BY <1>7, EnvClaimSlots
<1>8. QED  BY <1>2, <1>3, <1>4, <1>5, <1>6, <1>7 DEF WorkerStep

\* Settlers move rows, not threads.
LEMMA SettlerSlots ==
  ASSUME SlotsIInv, ReaperStep \/ FailUnsettledDeployments
  PROVE  ThreadsAreClaims' /\ \A r \in Runs : SlotsOf(r)'
<1>1. UNCHANGED <<appThread, envThread, run, freeSlots>>
  BY DEF ReaperStep, ReapDeadWorkerApps, ReapDeadWorkerEnvironments, ReapUntouchedApp,
     ReapUntouchedEnvironment, FailUnsettledDeployments
<1>2. RowsGoOn
  <2>1. ASSUME NEW S \in SUBSET Apps, \A a \in S : Present(a), SettleFailureOfAll(S) PROVE RowsGoOn
    BY <2>1, SettlersKeepRows DEF SlotsIInv, RowsGoOn
  <2>2. CASE ReapDeadWorkerApps
    <3>1. \A a \in StaleApps : Present(a)
      BY DEF StaleApps, EXECUTING_JOB_STATUSES, Present, JobStatus
    <3>2. StaleApps \subseteq Apps
      BY DEF StaleApps
    <3>3. QED  BY <2>1, <2>2, <3>1, <3>2 DEF ReapDeadWorkerApps
  <2>3. ASSUME NEW a \in Apps, ReapUntouchedApp(a) PROVE RowsGoOn
    <3>1. Present(a) /\ SettleFailureOfAll({a})
      BY <2>3 DEF ReapUntouchedApp, EXECUTING_JOB_STATUSES, Present, JobStatus
    <3>2. QED  BY <2>1, <3>1
  <2>4. CASE FailUnsettledDeployments
    <3>1. \A a \in UnsettledApps : Present(a)
      BY DEF UnsettledApps
    <3>2. UnsettledApps \subseteq Apps
      BY DEF UnsettledApps
    <3>3. QED  BY <2>1, <2>4, <3>1, <3>2 DEF FailUnsettledDeployments
  <2>5. CASE ReapDeadWorkerEnvironments \/ \E e \in Envs : ReapUntouchedEnvironment(e)
    BY <2>5 DEF ReapDeadWorkerEnvironments, ReapUntouchedEnvironment, RowsGoOn, RowConcludes
  <2>6. QED  BY <2>2, <2>3, <2>4, <2>5 DEF ReaperStep
<1>3. QED  BY <1>1, <1>2, NoThreadMoves

\* The slots of every worker add up, whatever disturbs the jobs.
THEOREM SlotsInvariant == Spec => []SlotsIInv
<1>1. SlotsIInv /\ [Next]_vars => SlotsIInv'
  <2> SUFFICES ASSUME SlotsIInv, [Next]_vars PROVE SlotsIInv'
    OBVIOUS
  <2> DEFINE Held == ThreadsAreClaims' /\ \A r \in Runs : SlotsOf(r)'
  <2>1. TypeOK'
    BY NextType DEF SlotsIInv
  <2>2. CASE UNCHANGED vars
    BY <2>1, <2>2, NoThreadMoves DEF vars, RowsGoOn, RowConcludes, SlotsIInv
  <2>3. ASSUME NEW a \in Apps, AppAdmission(a) PROVE Held
    BY <2>3, AdmissionSlots
  <2>4. ASSUME NEW e \in Envs, EnvAdmission(e) PROVE Held
    <3>1. UNCHANGED <<app, appThread, envThread, run, freeSlots>>
      BY <2>4 DEF EnvAdmission, EnvironmentRetry, RedeployEnvironment, QueueTeardown, NoJobStep
    <3>2. QED  BY <3>1, NoThreadMoves DEF RowsGoOn, RowConcludes
  <2>5. ASSUME NEW r \in Runs, WorkerStep(r) PROVE Held
    BY <2>5, WorkerSlots
  <2>6. ASSUME NEW a \in Apps, NEW n \in Attempts, AppThreadStep(a, n) PROVE Held
    BY <2>6, AppThreadSlots
  <2>7. ASSUME NEW e \in Envs, NEW k \in EnvThreads, EnvThreadStep(e, k) PROVE Held
    BY <2>7, EnvThreadSlots
  <2>8. ASSUME ReaperStep \/ FailUnsettledDeployments PROVE Held
    BY <2>8, SettlerSlots
  <2>9. CASE Next
    <3>1. Held
      BY <2>3, <2>4, <2>5, <2>6, <2>7, <2>8, <2>9 DEF Next
    <3>2. QED  BY <2>1, <3>1 DEF SlotsIInv
  <2>10. QED  BY <2>2, <2>9
<1>2. QED  BY <1>1, SlotsInit, PTL DEF Spec

\* A worker's semaphore is short exactly by the deployments and provisionings it runs,
\* whatever crashes, stalls, reaps and recoveries come.
THEOREM SlotsAreConserved == Spec => []SlotsConserved
<1>1. SlotsIInv => SlotsConserved
  BY DEF SlotsIInv, SlotsOf, SlotsConserved
<1>2. QED  BY <1>1, SlotsInvariant, PTL

-----------------------------------------------------------------------------
(* Attempts, rows and infrastructure, as long as no row is settled under a *)
(* thread at work: no live worker stalls, no live thread is reaped, staff  *)
(* recover nothing and no insert is refused.                               *)

Calm == Disturbances \subseteq {"redeploy_env"}

\* What a thread of kind k makes of the row it was claimed for.
Doing(kind) == IF kind = "deploy" THEN "DEPLOYING" ELSE "REMOVING"
Works(t) == t.kind # "none" /\ t.pc # "record"
Unsettled(log) == \A i \in DOMAIN log : log[i] \notin SettleEvents
Opens(log, ev) == log # <<>> /\ Head(log) = ev

\* The row, its records and what AWS has of the app agree.
RowOK(a, row, logs, there, left) ==
  /\ row.job \in JobStatus => row.att >= 1
  /\ row.job \notin JobStatus => row.att = 0
  /\ \A n \in Attempts : n > row.att => logs[n] = <<>>
  /\ row.job \in JobStatus \ {"IDLE"} => Unsettled(logs[row.att])
  /\ \A n \in Attempts : \A i, j \in DOMAIN logs[n] :
       logs[n][i] \in SettleEvents /\ logs[n][j] \in SettleEvents => i = j
  /\ \A n \in Attempts : Opens(logs[n], "REMOVAL_STARTED") =>
       \/ row.job \in REMOVAL_JOB_STATUSES
       \/ row.job = "IDLE" /\ row.err = "REMOVAL_FAILED"
  /\ \A m, n \in Attempts :
       m < n /\ Opens(logs[m], "REMOVAL_STARTED") => ~Opens(logs[n], "DEPLOY_STARTED")
  /\ row.job = "DEPLOYING" => row.mayInfra
  /\ there => row.job \in JobStatus /\ row.mayInfra
  /\ row.job = "DELETED" /\ EnvOf[a] \in SandboxEnvs => left = {}

\* Thread t of attempt n works for the row's current attempt, which says so and
\* points at the thread's worker; or it has still to record that it settled it.
ThreadOK(n, row, t, log, there, left) ==
  /\ t.kind = "none" => t.pc = "end"
  /\ t.kind = "deploy" => t.pc \in {"spawned", "refused", "running", "created", "record"}
  /\ t.kind = "removal" =>
       t.pc \in {"spawned", "teardown", "torn", "purge", "delete", "failed", "record"}
  /\ t.kind # "none" => row.job # "NO_ROW" /\ (row.job \in JobStatus => n <= row.att)
  /\ Works(t) =>
       /\ row.att = n /\ row.job = Doing(t.kind) /\ row.run = t.run
       /\ t.pc # "spawned" => t.att = n /\ t.job = row.job
  /\ t.pc \in {"torn", "purge", "delete", "failed"} => ~there
  /\ t.pc = "delete" => left = {}
  /\ t.pc = "record" =>
       /\ t.att = n
       /\ row.job \in JobStatus /\ row.att = n => row.job = "IDLE"
       /\ t.ev \in SettleEvents \cup {"none"}
       /\ t.ev # "none" => Unsettled(log)

AppSound(a) ==
  /\ RowOK(a, app[a], trail[a], infra[a], data[a])
  /\ \A n \in Attempts : ThreadOK(n, app[a], appThread[a][n], trail[a][n], infra[a], data[a])

\* Threads live in workers that beat.
WorkersBeat ==
  /\ \A r \in Runs : run[r] # "late"
  /\ \A a \in Apps, n \in Attempts :
       appThread[a][n].kind # "none" => run[appThread[a][n].run] = "fresh"
  /\ \A e \in Envs, k \in EnvThreads :
       envThread[e][k].kind # "none" => run[envThread[e][k].run] = "fresh"

\* Thread t of environment e is its only one and holds its claim.  A teardown has
\* found the stacks that are left, and has purged what it does not list any more.
EnvThreadOK(e, k, t) ==
  /\ t.kind = "none" => t.pc = "end"
  /\ t.kind = "provision" => t.pc \in {"spawned", "running", "built"}
  /\ t.kind = "teardown" => t.pc \in {"spawned", "apps", "purge", "base", "delete"}
  /\ t.kind # "none" =>
       /\ env[e].status = IF t.kind = "provision" THEN "PROVISIONING" ELSE "TEARING_DOWN"
       /\ env[e].run = t.run
       /\ \A j \in EnvThreads : j # k => envThread[e][j].kind = "none"
  /\ t.pc = "built" => base[e]
  /\ \A a \in t.todo \cup t.victims : EnvOf[a] = e
  /\ t.pc = "apps" => \A a \in AppsOf(e) : infra[a] => a \in t.todo
  /\ t.pc \in {"purge", "base", "delete"} => \A a \in AppsOf(e) : ~infra[a]
  /\ t.pc = "base" => e \notin SandboxEnvs
  /\ t.pc = "purge" => e \in SandboxEnvs /\ \A a \in t.victims : data[a] = {} \/ a \in t.todo
  /\ t.pc = "delete" /\ e \in SandboxEnvs => \A a \in t.victims : data[a] = {}

EnvSound(e) ==
  /\ env[e].status = "READY" => base[e]
  /\ \A k \in EnvThreads : EnvThreadOK(e, k, envThread[e][k])

JobsIInv ==
  /\ TypeOK
  /\ TeardownOwnsEnvironment
  /\ WorkersBeat
  /\ \A a \in Apps : AppSound(a)
  /\ \A e \in Envs : EnvSound(e)

\* What no step touches of an app.
Untouched(a) ==
  /\ app'[a] = app[a] /\ appThread'[a] = appThread[a] /\ trail'[a] = trail[a]
  /\ infra'[a] = infra[a] /\ data'[a] = data[a]

\* An app that a step does not touch stays sound.
LEMMA UntouchedStaysSound ==
  ASSUME NEW a \in Apps, AppSound(a), Untouched(a)
  PROVE  AppSound(a)'
BY DEF AppSound, Untouched

\* A row's attempts follow each other: the job of an attempt that is over does not
\* come back, and a row that is gone does not either.
RowMoves(row, next) ==
  /\ next.job # "NO_ROW"
  /\ next.job \in JobStatus =>
       \/ row.job # "DELETED" /\ next.att > row.att
       \/ row.job \in JobStatus /\ next.att = row.att /\ (row.job = "IDLE" => next.job = "IDLE")

\* A thread that has settled its attempt, or is none, is not disturbed when the row's
\* attempts follow each other.
LEMMA Bystander ==
  ASSUME NEW n \in Attempts, NEW row \in AppRow, NEW next \in AppRow, NEW t \in AppThread,
         NEW log, NEW there, NEW left, NEW there2, NEW left2,
         ThreadOK(n, row, t, log, there, left), ~Works(t), RowMoves(row, next)
  PROVE  ThreadOK(n, next, t, log, there2, left2)
<1>1. CASE t.kind = "none"
  BY <1>1 DEF ThreadOK, Works
<1>2. CASE t.pc = "record"
  <2>1. t.kind # "none"
    BY <1>2 DEF ThreadOK
  <2>2. row.job # "NO_ROW" /\ (row.job \in JobStatus => n <= row.att)
    BY <2>1 DEF ThreadOK
  <2>3. row.att \in Nat /\ next.att \in Nat /\ n \in Nat
    BY BoundsAssumption DEF AppRow, Attempts
  <2>4. next.job \in JobStatus => n <= next.att
    BY <2>2, <2>3 DEF RowMoves, AppRow
  <2>5. next.job \in JobStatus /\ next.att = n => next.job = "IDLE"
    BY <1>2, <2>2, <2>3 DEF RowMoves, ThreadOK, AppRow
  <2>6. QED  BY <1>2, <2>1, <2>2, <2>4, <2>5 DEF ThreadOK, Works, RowMoves
<1>3. QED  BY <1>1, <1>2 DEF Works

\* Only the thread of the current attempt works.
LEMMA OneWorks ==
  ASSUME NEW row, NEW m, NEW n, m # n, NEW t, NEW u, NEW log, NEW log2, NEW there, NEW left,
         ThreadOK(n, row, t, log, there, left), Works(t),
         ThreadOK(m, row, u, log2, there, left)
  PROVE  ~Works(u)
BY DEF ThreadOK

\* Settling the row of the attempt that executes keeps it true.
LEMMA RowSettles ==
  ASSUME NEW a \in Apps, NEW row \in AppRow, NEW logs, NEW there, NEW left,
         RowOK(a, row, logs, there, left), row.job \in EXECUTING_JOB_STATUSES,
         NEW next, next = FailedRow(row, row.job) \/ (row.job = "DEPLOYING" /\ next = DeployedRow(row))
  PROVE  RowOK(a, next, logs, there, left) /\ RowMoves(row, next)
<1>1. next.job = "IDLE" /\ next.att = row.att /\ next.mayInfra = row.mayInfra
  BY DEF FailedRow, DeployedRow, AppRow
<1>2. row.job = "REMOVING" => next.err = "REMOVAL_FAILED"
  BY DEF FailedRow, LastAttemptErrorByJobStatus, REMOVAL_JOB_STATUSES, AppRow
<1>3. row.job \in JobStatus
  BY DEF EXECUTING_JOB_STATUSES, JobStatus
<1>4. \A n \in Attempts : Opens(logs[n], "REMOVAL_STARTED") => next.err = "REMOVAL_FAILED"
  BY <1>2 DEF RowOK, EXECUTING_JOB_STATUSES, REMOVAL_JOB_STATUSES
<1>5. RowOK(a, next, logs, there, left)
  BY <1>1, <1>3, <1>4 DEF RowOK, JobStatus
<1>6. QED  BY <1>1, <1>3, <1>5 DEF RowMoves, JobStatus

\* A settle event appended to the unsettled records of an attempt is the only one, and
\* the attempt still opens with the event it opened with.
LEMMA AppendUnsettled ==
  ASSUME NEW log \in Seq(EventType), Unsettled(log), NEW ev \in SettleEvents
  PROVE  /\ \A i, j \in DOMAIN Append(log, ev) :
              Append(log, ev)[i] \in SettleEvents /\ Append(log, ev)[j] \in SettleEvents => i = j
         /\ \A s : s \notin SettleEvents /\ Opens(Append(log, ev), s) => Opens(log, s)
<1> DEFINE l == Append(log, ev)
<1>1. ev \in EventType
  BY DEF SettleEvents, EventType
<1>2. l \in Seq(EventType) /\ Len(l) = Len(log) + 1 /\ Len(log) \in Nat
  BY <1>1
<1>3. \A i \in 1..Len(log) : l[i] = log[i]
  BY <1>1
<1>4. l[Len(log) + 1] = ev
  BY <1>1
<1>5. \A i \in DOMAIN l : l[i] \in SettleEvents => i = Len(log) + 1
  BY <1>2, <1>3 DEF Unsettled
<1>6. ASSUME NEW s, s \notin SettleEvents, Opens(l, s) PROVE Opens(log, s)
  <2>1. l[1] = s
    BY <1>6 DEF Opens
  <2>2. Len(log) # 0
    BY <1>4, <1>6, <2>1
  <2>3. log[1] = s
    BY <1>2, <1>3, <2>1, <2>2
  <2>4. QED  BY <2>2, <2>3 DEF Opens
<1>7. QED  BY <1>5, <1>6

\* A record joins the trail of one attempt.
Joined(logs, n, ev) == [logs EXCEPT ![n] = Append(@, ev)]

\* Recording the result of an attempt that is not the executing one keeps the row true.
LEMMA RowRecords ==
  ASSUME NEW a \in Apps, NEW row \in AppRow, NEW logs \in [Attempts -> Seq(EventType)],
         NEW there, NEW left, NEW n \in Attempts, NEW ev \in SettleEvents,
         RowOK(a, row, logs, there, left), Unsettled(logs[n]), row.job = "IDLE" \/ row.att # n,
         row.att >= n
  PROVE  RowOK(a, row, Joined(logs, n, ev), there, left)
<1> DEFINE new == Joined(logs, n, ev)
<1>0. /\ \A i, j \in DOMAIN Append(logs[n], ev) :
           Append(logs[n], ev)[i] \in SettleEvents /\ Append(logs[n], ev)[j] \in SettleEvents => i = j
      /\ \A s : s \notin SettleEvents /\ Opens(Append(logs[n], ev), s) => Opens(logs[n], s)
  BY AppendUnsettled
<1>1. new \in [Attempts -> Seq(EventType)] /\ new[n] = Append(logs[n], ev)
  BY DEF Joined, SettleEvents, EventType
<1>2. \A m \in Attempts : m # n => new[m] = logs[m]
  BY DEF Joined
<1> HIDE DEF new
<1>3. \A m \in Attempts : \A i, j \in DOMAIN new[m] :
        new[m][i] \in SettleEvents /\ new[m][j] \in SettleEvents => i = j
  <2> SUFFICES ASSUME NEW m \in Attempts
               PROVE  \A i, j \in DOMAIN new[m] :
                        new[m][i] \in SettleEvents /\ new[m][j] \in SettleEvents => i = j
    OBVIOUS
  <2>1. CASE m = n
    BY <1>0, <1>1, <2>1
  <2>2. CASE m # n
    BY <1>2, <2>2 DEF RowOK
  <2>3. QED  BY <2>1, <2>2
<1>4. \A m \in Attempts, s \in {"REMOVAL_STARTED", "DEPLOY_STARTED"} :
        Opens(new[m], s) => Opens(logs[m], s)
  <2>1. \A s \in {"REMOVAL_STARTED", "DEPLOY_STARTED"} : s \notin SettleEvents
    BY DEF SettleEvents
  <2>2. QED  BY <1>0, <1>1, <1>2, <2>1
<1>5. \A m \in Attempts : m > row.att => new[m] = <<>>
  <2>1. row.att \in Nat /\ n \in Nat
    BY BoundsAssumption DEF AppRow, Attempts
  <2>2. \A m \in Attempts : m \in Nat /\ (m > row.att => m # n)
    BY <2>1, BoundsAssumption DEF Attempts
  <2>3. QED  BY <1>2, <2>2 DEF RowOK
<1>6. row.job \in JobStatus \ {"IDLE"} => Unsettled(new[row.att])
  <2> SUFFICES ASSUME row.job \in JobStatus \ {"IDLE"} PROVE Unsettled(new[row.att])
    OBVIOUS
  <2>1. row.att \in Attempts /\ row.att # n
    BY BoundsAssumption DEF RowOK, AppRow, Attempts
  <2>2. new[row.att] = logs[row.att]
    BY <1>2, <2>1
  <2>3. QED  BY <2>2 DEF RowOK
<1>7. \A m \in Attempts : Opens(new[m], "REMOVAL_STARTED") =>
       \/ row.job \in REMOVAL_JOB_STATUSES
       \/ row.job = "IDLE" /\ row.err = "REMOVAL_FAILED"
  BY <1>4 DEF RowOK
<1>8. \A m, k \in Attempts :
       m < k /\ Opens(new[m], "REMOVAL_STARTED") => ~Opens(new[k], "DEPLOY_STARTED")
  BY <1>4 DEF RowOK
<1>9. RowOK(a, row, new, there, left)
  BY ONLY RowOK(a, row, logs, there, left), <1>3, <1>5, <1>6, <1>7, <1>8 DEF RowOK
<1>10. QED  BY <1>9 DEF new

\* So does opening an attempt, on a row whose removal has not failed or for another removal;
LEMMA RowOpens ==
  ASSUME NEW a \in Apps, NEW row \in AppRow, NEW logs \in [Attempts -> Seq(EventType)],
         NEW there, NEW left, RowOK(a, row, logs, there, left),
         NEW old \in AppRow, old.att = row.att, old.mayInfra = row.mayInfra,
         row.job \in {"NO_ROW", "IDLE"}, row.att < MaxAttempts, NEW job, NEW ev,
         \/ /\ job = "DEPLOY_PENDING" /\ ev = "DEPLOY_STARTED"
            /\ row.job = "IDLE" => row.err # "REMOVAL_FAILED"
         \/ job = "REMOVAL_PENDING" /\ ev = "REMOVAL_STARTED" /\ row.job = "IDLE"
  PROVE  LET next == [old EXCEPT !.job = job, !.att = @ + 1, !.err = "NONE"]
         IN  RowOK(a, next, Joined(logs, row.att + 1, ev), there, left) /\ RowMoves(row, next)
<1> DEFINE next == [old EXCEPT !.job = job, !.att = @ + 1, !.err = "NONE"]
           n == row.att + 1
           new == Joined(logs, n, ev)
<1>1. row.att \in Nat /\ n \in Attempts /\ ~(n <= row.att)
  BY BoundsAssumption DEF AppRow, Attempts
<1>2. next.job = job /\ next.att = n /\ next.err = "NONE" /\ next.mayInfra = row.mayInfra
  BY DEF AppRow
<1>3. ev \in EventType /\ ev \notin SettleEvents /\ job \in JobStatus
  BY DEF EventType, SettleEvents, JobStatus
<1>4. logs[n] = <<>>
  BY <1>1 DEF RowOK
<1>5. new[n] = <<ev>> /\ \A m \in Attempts \ {n} : new[m] = logs[m]
  BY <1>1, <1>3, <1>4 DEF Joined
<1> HIDE DEF new, next
<1>6. \A m \in Attempts : m > n => new[m] = <<>>
  <2>1. \A m \in Attempts : m > n => m # n /\ m > row.att
    BY <1>1, BoundsAssumption DEF Attempts
  <2>2. QED  BY <1>5, <2>1 DEF RowOK
<1>7. Unsettled(new[n])
  BY <1>3, <1>5 DEF Unsettled
<1>8. \A m \in Attempts : \A i, j \in DOMAIN new[m] :
       new[m][i] \in SettleEvents /\ new[m][j] \in SettleEvents => i = j
  BY <1>5, <1>7 DEF RowOK, Unsettled
<1>9. job = "DEPLOY_PENDING" => \A m \in Attempts : ~Opens(new[m], "REMOVAL_STARTED")
  <2>1. job = "DEPLOY_PENDING" => \A m \in Attempts : ~Opens(logs[m], "REMOVAL_STARTED")
    BY DEF RowOK, REMOVAL_JOB_STATUSES
  <2>2. Opens(new[n], "REMOVAL_STARTED") => ev = "REMOVAL_STARTED"
    BY <1>5 DEF Opens
  <2>3. QED  BY <1>5, <2>1, <2>2
<1>10. \A m, k \in Attempts :
        m < k /\ Opens(new[m], "REMOVAL_STARTED") => ~Opens(new[k], "DEPLOY_STARTED")
  <2> SUFFICES ASSUME NEW m \in Attempts, NEW k \in Attempts, m < k,
                      Opens(new[m], "REMOVAL_STARTED"), Opens(new[k], "DEPLOY_STARTED")
               PROVE  FALSE
    OBVIOUS
  <2>1. job = "REMOVAL_PENDING"
    BY <1>9
  <2>2. ~Opens(new[n], "DEPLOY_STARTED")
    BY <1>5, <2>1 DEF Opens
  <2>3. k # n
    BY <2>2
  <2>4. new[k] # <<>>
    BY DEF Opens
  <2>5. ~(k > n)
    BY <1>6, <2>4
  <2>6. m # n
    BY <1>1, <2>3, <2>5, BoundsAssumption DEF Attempts
  <2>7. QED  BY <1>5, <2>3, <2>6 DEF RowOK
<1>11. RowOK(a, next, new, there, left)
  BY <1>1, <1>2, <1>3, <1>6, <1>7, <1>8, <1>9, <1>10 DEF RowOK, JobStatus, REMOVAL_JOB_STATUSES
<1>12. RowMoves(row, next)
  BY <1>1, <1>2, <1>3 DEF RowMoves, JobStatus
<1>13. QED  BY <1>11, <1>12 DEF new, next

\* claiming an attempt;
LEMMA RowClaims ==
  ASSUME NEW a \in Apps, NEW row \in AppRow, NEW logs, NEW there, NEW left,
         RowOK(a, row, logs, there, left), NEW r \in Runs, NEW next \in AppRow,
         \/ /\ row.job = "DEPLOY_PENDING"
            /\ next = [row EXCEPT !.job = "DEPLOYING", !.mayInfra = TRUE, !.run = r]
         \/ /\ row.job = "REMOVAL_PENDING"
            /\ next = [row EXCEPT !.job = "REMOVING", !.run = r]
  PROVE  RowOK(a, next, logs, there, left) /\ RowMoves(row, next)
<1>1. CASE row.job = "DEPLOY_PENDING"
  <2>1. next.job = "DEPLOYING" /\ next.att = row.att /\ next.mayInfra = TRUE
    BY <1>1 DEF AppRow
  <2>2. QED  BY <1>1, <2>1 DEF RowOK, RowMoves, JobStatus, REMOVAL_JOB_STATUSES
<1>2. CASE row.job = "REMOVAL_PENDING"
  <2>1. next.job = "REMOVING" /\ next.att = row.att /\ next.mayInfra = row.mayInfra
    BY <1>2 DEF AppRow
  <2>2. QED  BY <1>2, <2>1 DEF RowOK, RowMoves, JobStatus, REMOVAL_JOB_STATUSES
<1>3. QED  BY <1>1, <1>2

\* deleting a row that has no stack left nor, in the sandbox, data;
LEMMA RowGoes ==
  ASSUME NEW a \in Apps, NEW row, NEW left, EnvOf[a] \in SandboxEnvs => left = {}
  PROVE  LET next == [NewApp EXCEPT !.job = "DELETED"]
         IN  RowOK(a, next, [n \in Attempts |-> <<>>], FALSE, left) /\ RowMoves(row, next)
BY BoundsAssumption DEF NewApp, RowOK, RowMoves, JobStatus, Attempts, Opens, REMOVAL_JOB_STATUSES

\* and settling, with its record, an attempt nobody works for.
LEMMA RowReaped ==
  ASSUME NEW a \in Apps, NEW row \in AppRow, NEW logs \in [Attempts -> Seq(EventType)],
         NEW there, NEW left, RowOK(a, row, logs, there, left),
         row.job \in EXECUTING_JOB_STATUSES
  PROVE  LET next == FailedRow(row, row.job)
             new == Joined(logs, row.att, FailureEventByJobStatus(row.job))
         IN  RowOK(a, next, new, there, left) /\ RowMoves(row, next)
<1> DEFINE next == FailedRow(row, row.job)
           ev == FailureEventByJobStatus(row.job)
<1>1. RowOK(a, next, logs, there, left) /\ RowMoves(row, next)
  BY RowSettles
<1>2. next \in AppRow /\ next.job = "IDLE" /\ next.att = row.att
  BY FailedRowType DEF FailedRow, AppRow
<1>3. row.att \in Attempts /\ Unsettled(logs[row.att])
  BY BoundsAssumption DEF RowOK, AppRow, Attempts, EXECUTING_JOB_STATUSES, JobStatus
<1>4. ev \in SettleEvents
  BY DEF FailureEventByJobStatus, EXECUTING_JOB_STATUSES, REMOVAL_JOB_STATUSES, SettleEvents
<1>5. next.att >= row.att
  BY <1>2, <1>3, BoundsAssumption DEF Attempts
<1> HIDE DEF next, ev
<1>6. RowOK(a, next, Joined(logs, row.att, ev), there, left)
  BY <1>1, <1>2, <1>3, <1>4, <1>5, RowRecords
<1>7. QED  BY <1>1, <1>6 DEF next, ev

\* The thread of attempt n steps on; the others have settled, or nothing but that
\* thread and its own records change.
LEMMA ThreadStepSound ==
  ASSUME NEW a \in Apps, NEW n \in Attempts, TypeOK, TypeOK', AppSound(a),
         NEW t, appThread'[a] = [appThread[a] EXCEPT ![n] = t],
         RowOK(a, app'[a], trail'[a], infra'[a], data'[a]),
         ThreadOK(n, app'[a], t, trail'[a][n], infra'[a], data'[a]),
         \A m \in Attempts \ {n} : trail'[a][m] = trail[a][m],
         \/ Works(appThread[a][n]) /\ RowMoves(app[a], app'[a])
         \/ app'[a] = app[a] /\ infra'[a] = infra[a] /\ data'[a] = data[a]
  PROVE  AppSound(a)'
<1>1. app[a] \in AppRow /\ app'[a] \in AppRow
  BY DEF TypeOK
<1>2. \A m \in Attempts : appThread[a][m] \in AppThread
  BY DEF TypeOK
<1>3. appThread'[a][n] = t /\ \A m \in Attempts \ {n} : appThread'[a][m] = appThread[a][m]
  BY DEF TypeOK
<1>4. ASSUME NEW m \in Attempts \ {n}
      PROVE  ThreadOK(m, app'[a], appThread'[a][m], trail'[a][m], infra'[a], data'[a])
  <2>1. /\ ThreadOK(m, app[a], appThread[a][m], trail[a][m], infra[a], data[a])
        /\ ThreadOK(n, app[a], appThread[a][n], trail[a][n], infra[a], data[a])
    BY DEF AppSound
  <2>2. CASE Works(appThread[a][n]) /\ RowMoves(app[a], app'[a])
    <3>1. ~Works(appThread[a][m])
      BY <2>1, <2>2, OneWorks
    <3>2. QED  BY <1>1, <1>2, <1>3, <2>1, <2>2, <3>1, Bystander
  <2>3. CASE app'[a] = app[a] /\ infra'[a] = infra[a] /\ data'[a] = data[a]
    BY <1>3, <2>1, <2>3
  <2>4. QED  BY <2>2, <2>3
<1>5. \A m \in Attempts : ThreadOK(m, app'[a], appThread'[a][m], trail'[a][m], infra'[a], data'[a])
  BY <1>3, <1>4
<1>6. QED  BY <1>5 DEF AppSound

\* The row of a thread at work.
LEMMA WorkingRow ==
  ASSUME NEW n \in Attempts, NEW row \in AppRow, NEW t, NEW log, NEW there, NEW left,
         ThreadOK(n, row, t, log, there, left), Works(t)
  PROVE  /\ row.att = n /\ row.job = Doing(t.kind) /\ row.run = t.run
         /\ row.job \in EXECUTING_JOB_STATUSES /\ row.job \in JobStatus \ {"IDLE"}
         /\ t.pc # "spawned" => t.att = n /\ t.job = row.job
         /\ RowMoves(row, row)
BY DEF ThreadOK, Works, Doing, EXECUTING_JOB_STATUSES, JobStatus, RowMoves

\* A thread that moves on without a result.
LEMMA ThreadMovesOn ==
  ASSUME NEW n \in Attempts, NEW row \in AppRow, NEW t \in AppThread, NEW log, NEW there, NEW left,
         ThreadOK(n, row, t, log, there, left), Works(t),
         NEW next \in AppRow, next.att = row.att, next.job = row.job, next.run = row.run,
         NEW t2 \in AppThread, t2.kind = t.kind, t2.run = t.run, t2.pc # "spawned",
         t.kind = "deploy" => t2.pc \in {"refused", "running", "created"},
         t.kind = "removal" => t2.pc \in {"teardown", "torn", "purge", "delete", "failed"},
         t2.att = n, t2.job = row.job, NEW there2, NEW left2,
         t2.pc \in {"torn", "purge", "delete", "failed"} => ~there2,
         t2.pc = "delete" => left2 = {}
  PROVE  ThreadOK(n, next, t2, log, there2, left2)
<1>1. t.kind \in {"deploy", "removal"} /\ t2.pc # "record"
  BY DEF Works, AppThread
<1>2. next.job # "NO_ROW" /\ (next.job \in JobStatus => n <= next.att)
  BY <1>1 DEF ThreadOK
<1>3. QED  BY <1>1, <1>2 DEF ThreadOK, Works

\* A thread that settled the row and has yet to record it.
LEMMA ThreadSettles ==
  ASSUME NEW n \in Attempts, NEW a \in Apps, NEW row \in AppRow, NEW t \in AppThread,
         NEW logs, NEW there, NEW left,
         RowOK(a, row, logs, there, left), ThreadOK(n, row, t, logs[n], there, left), Works(t),
         NEW next \in AppRow, next.att = row.att, next.job = "IDLE",
         NEW t2 \in AppThread, t2.kind = t.kind, t2.pc = "record", t2.att = n,
         t2.ev \in SettleEvents
  PROVE  ThreadOK(n, next, t2, logs[n], there, left)
<1>1. row.att = n /\ row.job \in JobStatus \ {"IDLE"}
  BY WorkingRow
<1>2. Unsettled(logs[n])
  BY <1>1 DEF RowOK
<1>3. t2.kind \in {"deploy", "removal"}
  BY DEF Works, AppThread
<1>4. n <= next.att
  BY <1>1, BoundsAssumption DEF Attempts
<1>5. QED  BY <1>2, <1>3, <1>4 DEF ThreadOK, Works

\* A slot without a thread.
LEMMA ThreadEnds ==
  ASSUME NEW n, NEW row, NEW log, NEW there, NEW left
  PROVE  ThreadOK(n, row, NoThread, log, there, left)
BY DEF ThreadOK, NoThread, Works

\* What the app's soundness says of thread n.
LEMMA SoundParts ==
  ASSUME NEW a \in Apps, NEW n \in Attempts, TypeOK, AppSound(a)
  PROVE  /\ app[a] \in AppRow /\ appThread[a][n] \in AppThread
         /\ trail[a] \in [Attempts -> Seq(EventType)]
         /\ RowOK(a, app[a], trail[a], infra[a], data[a])
         /\ ThreadOK(n, app[a], appThread[a][n], trail[a][n], infra[a], data[a])
BY DEF TypeOK, AppSound

\* The steps of an app's thread, one lemma each.  A deployment loads its app,
LEMMA DeployLoadSound ==
  ASSUME NEW a \in Apps, NEW n \in Attempts, TypeOK, TypeOK', AppSound(a), DeployLoad(a, n)
  PROVE  AppSound(a)'
<1> DEFINE old == appThread[a][n]
           pc == IF EnvReady(a) THEN "running" ELSE "refused"
           t == [old EXCEPT !.pc = pc, !.job = app[a].job, !.att = app[a].att]
<1>1. /\ app[a] \in AppRow /\ old \in AppThread
      /\ RowOK(a, app[a], trail[a], infra[a], data[a])
      /\ ThreadOK(n, app[a], old, trail[a][n], infra[a], data[a])
  BY SoundParts
<1>2. Works(old) /\ old.kind = "deploy" /\ app[a].job \in JobStatus
  BY DEF DeployLoad, At, Works, Present
<1>3. /\ app[a].att = n /\ RowMoves(app[a], app[a])
  BY <1>1, <1>2, WorkingRow
<1>4. t \in AppThread /\ t.kind = old.kind /\ t.run = old.run /\ t.pc = pc
      /\ t.att = n /\ t.job = app[a].job
  BY <1>1, <1>2, <1>3 DEF AppThread, AppRow
<1>5. appThread'[a] = [appThread[a] EXCEPT ![n] = t]
  BY <1>1 DEF DeployLoad, Loaded, TypeOK
<1>6. app' = app /\ trail' = trail /\ infra' = infra /\ data' = data
  BY DEF DeployLoad
<1> HIDE DEF t
<1>7. ThreadOK(n, app[a], t, trail[a][n], infra[a], data[a])
  BY <1>1, <1>2, <1>4, ThreadMovesOn
<1>8. QED  BY <1>1, <1>2, <1>3, <1>5, <1>6, <1>7, ThreadStepSound

\* creates the stack of a row that says it may have one,
LEMMA DeployCreatesInfraSound ==
  ASSUME NEW a \in Apps, NEW n \in Attempts, TypeOK, TypeOK', AppSound(a), DeployCreatesInfra(a, n)
  PROVE  AppSound(a)'
<1> DEFINE old == appThread[a][n]
           t == [old EXCEPT !.pc = "created"]
<1>1. /\ app[a] \in AppRow /\ old \in AppThread
      /\ RowOK(a, app[a], trail[a], infra[a], data[a])
      /\ ThreadOK(n, app[a], old, trail[a][n], infra[a], data[a])
  BY SoundParts
<1>2. Works(old) /\ old.kind = "deploy" /\ old.pc = "running"
  BY DEF DeployCreatesInfra, At, Works
<1>3. /\ app[a].job = "DEPLOYING" /\ RowMoves(app[a], app[a]) /\ old.att = n /\ old.job = app[a].job
  BY <1>1, <1>2, WorkingRow DEF Doing
<1>4. t \in AppThread /\ t.kind = old.kind /\ t.run = old.run /\ t.pc = "created"
      /\ t.att = n /\ t.job = app[a].job
  BY <1>1, <1>2, <1>3 DEF AppThread
<1>5. appThread'[a] = [appThread[a] EXCEPT ![n] = t]
  BY <1>1 DEF DeployCreatesInfra, GoTo, TypeOK
<1>6. app' = app /\ trail' = trail
  BY DEF DeployCreatesInfra
<1> HIDE DEF t
<1>7. ThreadOK(n, app[a], t, trail[a][n], infra'[a], data'[a])
  BY <1>1, <1>2, <1>4, ThreadMovesOn
<1>8. RowOK(a, app[a], trail[a], infra'[a], data'[a])
  BY <1>1, <1>3 DEF RowOK, JobStatus
<1>9. QED  BY <1>1, <1>2, <1>3, <1>5, <1>6, <1>7, <1>8, ThreadStepSound

\* Saving a settled row, by the thread at work.
LEMMA SettlesSound ==
  ASSUME NEW a \in Apps, NEW n \in Attempts, TypeOK, TypeOK', AppSound(a),
         Works(appThread[a][n]), NEW next, app' = [app EXCEPT ![a] = next],
         \/ next = FailedRow(app[a], app[a].job)
         \/ app[a].job = "DEPLOYING" /\ next = DeployedRow(app[a]),
         NEW t \in AppThread, t.kind = appThread[a][n].kind, t.pc = "record", t.att = n,
         t.ev \in SettleEvents, appThread' = [appThread EXCEPT ![a][n] = t],
         UNCHANGED <<trail, infra, data>>
  PROVE  AppSound(a)'
<1>1. /\ app[a] \in AppRow /\ appThread[a][n] \in AppThread
      /\ RowOK(a, app[a], trail[a], infra[a], data[a])
      /\ ThreadOK(n, app[a], appThread[a][n], trail[a][n], infra[a], data[a])
  BY SoundParts
<1>2. app[a].job \in EXECUTING_JOB_STATUSES
  BY <1>1, WorkingRow
<1>3. app'[a] = next /\ next \in AppRow
  BY DEF TypeOK
<1>4. next.job = "IDLE" /\ next.att = app[a].att
  BY <1>1 DEF FailedRow, DeployedRow, AppRow
<1>5. RowOK(a, next, trail[a], infra[a], data[a]) /\ RowMoves(app[a], next)
  BY <1>1, <1>2, RowSettles
<1>6. ThreadOK(n, next, t, trail[a][n], infra[a], data[a])
  BY <1>1, <1>3, <1>4, ThreadSettles
<1>7. appThread'[a] = [appThread[a] EXCEPT ![n] = t]
  BY DEF TypeOK
<1>8. QED  BY <1>3, <1>5, <1>6, <1>7, ThreadStepSound

\* A deployment settles its row.
LEMMA DeploySettlesSound ==
  ASSUME NEW a \in Apps, NEW n \in Attempts, TypeOK, TypeOK', AppSound(a),
         DeploySettleSuccess(a, n) \/ DeploySettleFailure(a, n)
  PROVE  AppSound(a)'
<1> DEFINE old == appThread[a][n]
           good == [old EXCEPT !.pc = "record", !.ev = "DEPLOY_SUCCEEDED"]
           bad == [old EXCEPT !.pc = "record", !.ev = "DEPLOY_FAILED"]
<1>1. /\ app[a] \in AppRow /\ old \in AppThread
      /\ ThreadOK(n, app[a], old, trail[a][n], infra[a], data[a])
  BY SoundParts
<1>2. Works(old) /\ old.kind = "deploy" /\ old.pc # "spawned"
  BY DEF DeploySettleSuccess, DeploySettleFailure, At, Works
<1>3. app[a].job = "DEPLOYING" /\ old.att = n /\ old.job = "DEPLOYING"
  BY <1>1, <1>2, WorkingRow DEF Doing
<1>4. CASE DeploySettleSuccess(a, n)
  <2>1. good \in AppThread /\ good.kind = old.kind /\ good.pc = "record" /\ good.att = n
        /\ good.ev \in SettleEvents
    BY <1>1, <1>3 DEF AppThread, EventType, SettleEvents
  <2>2. appThread' = [appThread EXCEPT ![a][n] = good]
    BY <1>1, <1>4 DEF DeploySettleSuccess, GoRecord, TypeOK
  <2>3. app' = [app EXCEPT ![a] = DeployedRow(app[a])] /\ UNCHANGED <<trail, infra, data>>
    BY <1>4 DEF DeploySettleSuccess
  <2> HIDE DEF good
  <2>4. QED  BY <1>2, <1>3, <2>1, <2>2, <2>3, SettlesSound
<1>5. CASE DeploySettleFailure(a, n)
  <2>0. FailureEventByJobStatus(old.job) = "DEPLOY_FAILED"
    BY <1>3 DEF FailureEventByJobStatus, REMOVAL_JOB_STATUSES
  <2>1. bad \in AppThread /\ bad.kind = old.kind /\ bad.pc = "record" /\ bad.att = n
        /\ bad.ev \in SettleEvents
    BY <1>1, <1>3 DEF AppThread, EventType, SettleEvents
  <2>2. appThread' = [appThread EXCEPT ![a][n] = bad]
    BY <1>1, <1>5, <2>0 DEF DeploySettleFailure, GoRecord, TypeOK
  <2>3. app' = [app EXCEPT ![a] = FailedRow(app[a], app[a].job)] /\ UNCHANGED <<trail, infra, data>>
    BY <1>3, <1>5 DEF DeploySettleFailure
  <2> HIDE DEF bad
  <2>4. QED  BY <1>2, <2>1, <2>2, <2>3, SettlesSound
<1>6. QED  BY <1>4, <1>5

\* A thread may end without touching anything.
LEMMA ThreadLeaves ==
  ASSUME NEW a \in Apps, NEW n \in Attempts, TypeOK, TypeOK', AppSound(a),
         appThread' = [appThread EXCEPT ![a][n] = NoThread], UNCHANGED <<app, trail, infra, data>>
  PROVE  AppSound(a)'
<1>1. RowOK(a, app[a], trail[a], infra[a], data[a])
  BY SoundParts
<1>2. appThread'[a] = [appThread[a] EXCEPT ![n] = NoThread]
  BY DEF TypeOK
<1>3. ThreadOK(n, app[a], NoThread, trail[a][n], infra[a], data[a])
  BY ThreadEnds
<1>4. QED  BY <1>1, <1>2, <1>3, ThreadStepSound

\* A deployment's thread dies.
LEMMA DeployThreadDiesSound ==
  ASSUME NEW a \in Apps, NEW n \in Attempts, TypeOK, TypeOK', AppSound(a), DeployThreadDies(a, n)
  PROVE  AppSound(a)'
<1>1. /\ appThread' = [appThread EXCEPT ![a][n] = NoThread]
      /\ UNCHANGED <<app, trail, infra, data>>
  BY DEF DeployThreadDies, Finish
<1>2. QED  BY <1>1, ThreadLeaves

\* A thread records what it settled.
LEMMA WriteRecordSound ==
  ASSUME NEW a \in Apps, NEW n \in Attempts, TypeOK, TypeOK', AppSound(a), WriteRecord(a, n)
  PROVE  AppSound(a)'
<1> DEFINE old == appThread[a][n]
<1>1. /\ app[a] \in AppRow /\ old \in AppThread /\ trail[a] \in [Attempts -> Seq(EventType)]
      /\ RowOK(a, app[a], trail[a], infra[a], data[a])
      /\ ThreadOK(n, app[a], old, trail[a][n], infra[a], data[a])
  BY SoundParts
<1>2. old.pc = "record" /\ app[a].job \in JobStatus /\ old.kind # "none"
  BY <1>1 DEF WriteRecord, ThreadOK, Present
<1>3. /\ old.att = n /\ n <= app[a].att /\ (app[a].att = n => app[a].job = "IDLE")
      /\ old.ev \in SettleEvents \cup {"none"}
      /\ old.ev # "none" => Unsettled(trail[a][n])
  BY <1>1, <1>2 DEF ThreadOK
<1>4. /\ appThread' = [appThread EXCEPT ![a][n] = NoThread]
      /\ UNCHANGED <<app, infra, data>>
      /\ trail' = IF old.ev = "none" THEN trail ELSE [trail EXCEPT ![a][n] = Append(@, old.ev)]
  BY <1>3 DEF WriteRecord, Finish, Recorded
<1>5. CASE old.ev = "none"
  BY <1>4, <1>5, ThreadLeaves
<1>6. CASE old.ev # "none"
  <2>1. trail'[a] = Joined(trail[a], n, old.ev) /\ \A m \in Attempts \ {n} : trail'[a][m] = trail[a][m]
    BY <1>1, <1>4, <1>6 DEF Joined, TypeOK
  <2>2. app[a].att >= n
    BY <1>1, <1>3, BoundsAssumption DEF Attempts, AppRow
  <2>3. RowOK(a, app[a], trail'[a], infra[a], data[a])
    BY <1>1, <1>3, <1>6, <2>1, <2>2, RowRecords
  <2>4. appThread'[a] = [appThread[a] EXCEPT ![n] = NoThread]
    BY <1>4 DEF TypeOK
  <2>5. ThreadOK(n, app[a], NoThread, trail'[a][n], infra[a], data[a])
    BY ThreadEnds
  <2>6. app'[a] = app[a] /\ infra'[a] = infra[a] /\ data'[a] = data[a]
    BY <1>4
  <2> HIDE DEF old
  <2>7. QED  BY <2>1, <2>3, <2>4, <2>5, <2>6, ThreadStepSound
<1>7. QED  BY <1>5, <1>6

\* A removal goes from one of its phases to the next.
LEMMA RemovalMovesSound ==
  ASSUME NEW a \in Apps, NEW n \in Attempts, TypeOK, TypeOK', AppSound(a),
         \/ RemovalTeardown(a, n) \/ RemovalClearsOutputs(a, n)
         \/ RemovalPurge(a, n) \/ RemovalPurgeFails(a, n)
  PROVE  AppSound(a)'
<1> DEFINE old == appThread[a][n]
<1>1. /\ app[a] \in AppRow /\ old \in AppThread
      /\ RowOK(a, app[a], trail[a], infra[a], data[a])
      /\ ThreadOK(n, app[a], old, trail[a][n], infra[a], data[a])
  BY SoundParts
<1>2. Works(old) /\ old.kind = "removal" /\ old.pc \in {"teardown", "torn", "purge"}
  BY DEF RemovalTeardown, RemovalClearsOutputs, RemovalPurge, RemovalPurgeFails, At, Works
<1>3. /\ app[a].job = "REMOVING" /\ RowMoves(app[a], app[a]) /\ old.att = n /\ old.job = app[a].job
  BY <1>1, <1>2, WorkingRow DEF Doing
<1>4. PICK pc \in {"torn", "purge", "delete", "failed"} :
        /\ GoTo(a, n, pc)
        /\ pc = "delete" => data'[a] = {}
  BY DEF RemovalTeardown, RemovalClearsOutputs, RemovalPurge, RemovalPurgeFails, TypeOK
<1> DEFINE t == [old EXCEPT !.pc = pc]
<1>5. t \in AppThread /\ t.kind = old.kind /\ t.run = old.run /\ t.pc = pc
      /\ t.att = n /\ t.job = app[a].job
  BY <1>1, <1>3 DEF AppThread
<1>6. appThread'[a] = [appThread[a] EXCEPT ![n] = t]
  BY <1>1, <1>4 DEF GoTo, TypeOK
<1>7. trail' = trail
  BY DEF RemovalTeardown, RemovalClearsOutputs, RemovalPurge, RemovalPurgeFails
<1>8. ~infra'[a]
  <2>1. CASE RemovalTeardown(a, n)
    BY <2>1 DEF RemovalTeardown, TypeOK
  <2>2. CASE ~RemovalTeardown(a, n)
    <3>1. old.pc \in {"torn", "purge"} /\ infra' = infra
      BY <2>2 DEF RemovalClearsOutputs, RemovalPurge, RemovalPurgeFails, At
    <3>2. QED  BY <1>1, <3>1 DEF ThreadOK
  <2>3. QED  BY <2>1, <2>2
<1>9. /\ app'[a] \in AppRow /\ app'[a].att = app[a].att /\ app'[a].job = app[a].job
      /\ app'[a].run = app[a].run /\ app'[a].err = app[a].err
  <2>1. CASE RemovalClearsOutputs(a, n)
    <3>1. app'[a] = [app[a] EXCEPT !.live = "NOT_DEPLOYED", !.mayInfra = FALSE]
      BY <1>1, <2>1 DEF RemovalClearsOutputs, TypeOK, AppRow
    <3>2. QED  BY <1>1, <3>1 DEF AppRow, TypeOK
  <2>2. CASE ~RemovalClearsOutputs(a, n)
    BY <1>1, <2>2 DEF RemovalTeardown, RemovalPurge, RemovalPurgeFails
  <2>3. QED  BY <2>1, <2>2
<1>10. RowMoves(app[a], app'[a])
  BY <1>3, <1>9 DEF RowMoves
<1>11. RowOK(a, app'[a], trail[a], infra'[a], data'[a])
  BY ONLY <1>1, <1>3, <1>8, <1>9 DEF RowOK
<1> HIDE DEF t
<1>12. ThreadOK(n, app'[a], t, trail[a][n], infra'[a], data'[a])
  BY <1>1, <1>2, <1>3, <1>4, <1>5, <1>8, <1>9, ThreadMovesOn
<1>13. QED  BY <1>2, <1>6, <1>7, <1>10, <1>11, <1>12, ThreadStepSound

\* A removal finds its app, or that it is gone already.
LEMMA RemovalLoadSound ==
  ASSUME NEW a \in Apps, NEW n \in Attempts, TypeOK, TypeOK', AppSound(a), RemovalLoad(a, n)
  PROVE  AppSound(a)'
<1> DEFINE old == appThread[a][n]
           pc == IF app[a].mayInfra THEN "teardown" ELSE "purge"
           t == [old EXCEPT !.pc = pc, !.job = app[a].job, !.att = app[a].att]
<1>1. /\ app[a] \in AppRow /\ old \in AppThread
      /\ RowOK(a, app[a], trail[a], infra[a], data[a])
      /\ ThreadOK(n, app[a], old, trail[a][n], infra[a], data[a])
  BY SoundParts
<1>2. app' = app /\ trail' = trail /\ infra' = infra /\ data' = data
  BY DEF RemovalLoad
<1>3. CASE ~Present(a)
  <2>1. appThread' = [appThread EXCEPT ![a][n] = NoThread]
    BY <1>3 DEF RemovalLoad, Finish
  <2>2. QED  BY <1>2, <2>1, ThreadLeaves
<1>4. CASE Present(a)
  <2>1. Works(old) /\ old.kind = "removal" /\ app[a].job \in JobStatus
    BY <1>4 DEF RemovalLoad, At, Works, Present
  <2>2. app[a].att = n /\ RowMoves(app[a], app[a])
    BY <1>1, <2>1, WorkingRow
  <2>3. t \in AppThread /\ t.kind = old.kind /\ t.run = old.run /\ t.pc = pc
        /\ t.att = n /\ t.job = app[a].job
    BY <1>1, <2>1, <2>2 DEF AppThread, AppRow
  <2>4. appThread'[a] = [appThread[a] EXCEPT ![n] = t]
    <3>1. Loaded(a, n, pc)
      BY <1>4 DEF RemovalLoad
    <3>2. QED  BY <1>1, <3>1 DEF Loaded, TypeOK
  <2>5. pc = "purge" => ~infra[a]
    BY <1>1 DEF RowOK
  <2> HIDE DEF t
  <2>6. ThreadOK(n, app[a], t, trail[a][n], infra[a], data[a])
    BY <1>1, <2>1, <2>2, <2>3, <2>5, ThreadMovesOn
  <2>7. QED  BY <1>1, <1>2, <2>1, <2>2, <2>4, <2>6, ThreadStepSound
<1>5. QED  BY <1>3, <1>4

\* A row is deleted, once nothing is left that would outlive it.
LEMMA GoneSound ==
  ASSUME NEW a \in Apps, TypeOK, TypeOK', AppSound(a),
         app'[a] = [NewApp EXCEPT !.job = "DELETED"], trail'[a] = [n \in Attempts |-> <<>>],
         infra'[a] = FALSE, EnvOf[a] \in SandboxEnvs => data'[a] = {},
         \A n \in Attempts :
           \/ appThread'[a][n] = NoThread
           \/ appThread'[a][n] = appThread[a][n] /\ ~Works(appThread[a][n])
  PROVE  AppSound(a)'
<1>1. RowOK(a, app'[a], trail'[a], infra'[a], data'[a])
  BY RowGoes
<1>2. app'[a].job = "DELETED"
  BY DEF NewApp
<1>3. ASSUME NEW n \in Attempts
      PROVE  ThreadOK(n, app'[a], appThread'[a][n], trail'[a][n], infra'[a], data'[a])
  <2>1. CASE appThread'[a][n] = NoThread
    BY <2>1, ThreadEnds
  <2>2. CASE appThread'[a][n] = appThread[a][n] /\ ~Works(appThread[a][n])
    <3> DEFINE t == appThread[a][n]
    <3>1. ThreadOK(n, app[a], t, trail[a][n], infra[a], data[a])
      BY DEF AppSound
    <3>2. Unsettled(trail'[a][n])
      BY DEF Unsettled
    <3>3. \A job \in JobStatus : job # "DELETED"
      BY DEF JobStatus
    <3>4. t.kind = "none" \/ t.pc = "record"
      BY <2>2 DEF Works
    <3> HIDE DEF t
    <3>5. ThreadOK(n, app'[a], t, trail'[a][n], infra'[a], data'[a])
      BY <1>2, <3>1, <3>2, <3>3, <3>4 DEF ThreadOK, Works
    <3>6. QED  BY <2>2, <3>5 DEF t
  <2>3. QED  BY <2>1, <2>2
<1>4. QED  BY <1>1, <1>3 DEF AppSound

\* A removal deletes its row.
LEMMA RemovalDeleteSound ==
  ASSUME NEW a \in Apps, NEW n \in Attempts, TypeOK, TypeOK', AppSound(a), RemovalDelete(a, n)
  PROVE  AppSound(a)'
<1> DEFINE old == appThread[a][n]
<1>1. ThreadOK(n, app[a], old, trail[a][n], infra[a], data[a])
  BY SoundParts
<1>2. Works(old) /\ old.pc = "delete"
  BY DEF RemovalDelete, At, Works
<1>3. infra[a] = FALSE /\ data[a] = {}
  BY <1>1, <1>2 DEF ThreadOK, TypeOK
<1>4. app'[a] = [NewApp EXCEPT !.job = "DELETED"] /\ trail'[a] = [m \in Attempts |-> <<>>]
  BY DEF RemovalDelete, DeleteRows
<1>5. infra' = infra /\ data' = data
  BY DEF RemovalDelete
<1>6. appThread'[a][n] = NoThread /\ \A m \in Attempts \ {n} : appThread'[a][m] = appThread[a][m]
  BY DEF RemovalDelete, Finish, TypeOK
<1>7. \A m \in Attempts \ {n} : ~Works(appThread[a][m])
  <2> SUFFICES ASSUME NEW m \in Attempts \ {n} PROVE ~Works(appThread[a][m])
    OBVIOUS
  <2>1. ThreadOK(m, app[a], appThread[a][m], trail[a][m], infra[a], data[a])
    BY SoundParts
  <2>2. QED  BY <1>1, <1>2, <2>1, OneWorks
<1>8. QED  BY <1>3, <1>4, <1>5, <1>6, <1>7, GoneSound

\* A removal fails.
LEMMA RemovalSettlesSound ==
  ASSUME NEW a \in Apps, NEW n \in Attempts, Calm, TypeOK, TypeOK', AppSound(a),
         RemovalSettleFailure(a, n) \/ RemovalRaises(a, n)
  PROVE  AppSound(a)'
<1> DEFINE old == appThread[a][n]
           t == [old EXCEPT !.pc = "record", !.job = "REMOVING", !.att = n, !.ev = "REMOVAL_FAILED"]
<1>1. /\ app[a] \in AppRow /\ old \in AppThread
      /\ ThreadOK(n, app[a], old, trail[a][n], infra[a], data[a])
  BY SoundParts
<1>2. Works(old) /\ old.kind = "removal"
  BY DEF RemovalSettleFailure, RemovalRaises, At, Works, Calm
<1>3. /\ app[a].att = n /\ app[a].job = "REMOVING"
      /\ old.pc # "spawned" => old.att = n /\ old.job = "REMOVING"
  BY <1>1, <1>2, WorkingRow DEF Doing
<1>4. t \in AppThread /\ t.kind = old.kind /\ t.pc = "record" /\ t.att = n /\ t.ev \in SettleEvents
  <2>1. n \in 0..MaxAttempts
    BY <1>1, <1>3 DEF AppRow
  <2>2. QED  BY <1>1, <2>1 DEF AppThread, EventType, SettleEvents, JobStatus
<1>5. appThread' = [appThread EXCEPT ![a][n] = t]
  <2>1. CASE RemovalSettleFailure(a, n)
    <3>1. old.att = n /\ old.job = "REMOVING"
      BY <1>3, <2>1 DEF RemovalSettleFailure, At
    <3>2. FailureEventByJobStatus(old.job) = "REMOVAL_FAILED"
      BY <3>1 DEF FailureEventByJobStatus, REMOVAL_JOB_STATUSES
    <3>3. appThread' = [appThread EXCEPT ![a][n] = [old EXCEPT !.pc = "record", !.ev = "REMOVAL_FAILED"]]
      BY <1>1, <2>1, <3>2 DEF RemovalSettleFailure, GoRecord, TypeOK
    <3>4. [old EXCEPT !.pc = "record", !.ev = "REMOVAL_FAILED"] = t
      BY <1>1, <3>1 DEF AppThread
    <3>5. QED  BY <3>3, <3>4
  <2>2. CASE RemovalRaises(a, n)
    <3>1. appThread' = [appThread EXCEPT ![a][n].pc = "record", ![a][n].job = "REMOVING",
                          ![a][n].att = n, ![a][n].ev = "REMOVAL_FAILED"]
      BY <1>3, <2>2 DEF RemovalRaises
    <3>2. old = appThread[a][n] /\ appThread \in [Apps -> [Attempts -> AppThread]]
      BY DEF TypeOK
    <3>3. QED  BY ONLY a \in Apps, n \in Attempts, <3>1, <3>2 DEF AppThread
  <2>3. QED  BY <2>1, <2>2
<1>6. app' = [app EXCEPT ![a] = FailedRow(app[a], app[a].job)] /\ UNCHANGED <<trail, infra, data>>
  <2>1. CASE RemovalSettleFailure(a, n)
    BY <1>3, <2>1 DEF RemovalSettleFailure, At
  <2>2. CASE RemovalRaises(a, n)
    BY <1>3, <2>2 DEF RemovalRaises
  <2>3. QED  BY <2>1, <2>2
<1> HIDE DEF t
<1>7. QED  BY <1>2, <1>4, <1>5, <1>6, SettlesSound

\* A thread's step touches no app but its own.
LEMMA ThreadLeavesOthers ==
  ASSUME NEW a \in Apps, NEW n \in Attempts, TypeOK, AppThreadStep(a, n), NEW b \in Apps \ {a}
  PROVE  Untouched(b)
<1>1. app'[b] = app[b]
  BY DEF AppThreadStep, DeployLoad, DeployCreatesInfra, DeploySettleSuccess,
     DeploySettleFailure, DeployThreadDies, DeployRecordFails, WriteRecord, RemovalLoad,
     RemovalTeardown, RemovalClearsOutputs, RemovalPurge, RemovalPurgeFails, RemovalDelete,
     RemovalSettleFailure, RemovalRaises, DeleteRows, TypeOK
<1>2. appThread'[b] = appThread[b]
  BY DEF AppThreadStep, DeployLoad, DeployCreatesInfra, DeploySettleSuccess,
     DeploySettleFailure, DeployThreadDies, DeployRecordFails, WriteRecord, RemovalLoad,
     RemovalTeardown, RemovalClearsOutputs, RemovalPurge, RemovalPurgeFails, RemovalDelete,
     RemovalSettleFailure, RemovalRaises, Finish, GoTo, GoRecord, Loaded, TypeOK
<1>3. trail'[b] = trail[b]
  BY DEF AppThreadStep, DeployLoad, DeployCreatesInfra, DeploySettleSuccess,
     DeploySettleFailure, DeployThreadDies, DeployRecordFails, WriteRecord, RemovalLoad,
     RemovalTeardown, RemovalClearsOutputs, RemovalPurge, RemovalPurgeFails, RemovalDelete,
     RemovalSettleFailure, RemovalRaises, DeleteRows, Recorded, TypeOK
<1>4. infra'[b] = infra[b] /\ data'[b] = data[b]
  BY DEF AppThreadStep, DeployLoad, DeployCreatesInfra, DeploySettleSuccess,
     DeploySettleFailure, DeployThreadDies, DeployRecordFails, WriteRecord, RemovalLoad,
     RemovalTeardown, RemovalClearsOutputs, RemovalPurge, RemovalPurgeFails, RemovalDelete,
     RemovalSettleFailure, RemovalRaises, TypeOK
<1>5. QED  BY <1>1, <1>2, <1>3, <1>4 DEF Untouched

\* Every step of an app's thread keeps every app sound.
LEMMA AppThreadSound ==
  ASSUME Calm, TypeOK, TypeOK', \A b \in Apps : AppSound(b),
         NEW a \in Apps, NEW n \in Attempts, AppThreadStep(a, n)
  PROVE  \A b \in Apps : AppSound(b)'
<1>1. \A b \in Apps \ {a} : AppSound(b)'
  BY ThreadLeavesOthers, UntouchedStaysSound
<1>2. ~DeployRecordFails(a, n)
  BY DEF DeployRecordFails, Calm
<1>3. AppSound(a)'
  BY <1>2, DeployThreadDiesSound, DeployLoadSound, DeployCreatesInfraSound, DeploySettlesSound, WriteRecordSound,
     RemovalLoadSound, RemovalMovesSound, RemovalDeleteSound, RemovalSettlesSound DEF AppThreadStep
<1>4. QED  BY <1>1, <1>3

-----------------------------------------------------------------------------
(* The steps others take on an app. *)

\* A step under which nobody works for the app, except for a thread that is as it
\* should be.
LEMMA QuietSound ==
  ASSUME NEW a \in Apps, TypeOK, TypeOK', AppSound(a),
         RowOK(a, app'[a], trail'[a], infra'[a], data'[a]),
         RowMoves(app[a], app'[a]) \/ app'[a] = app[a],
         \A n \in Attempts :
           \/ ThreadOK(n, app'[a], appThread'[a][n], trail'[a][n], infra'[a], data'[a])
           \/ /\ appThread'[a][n] = appThread[a][n] /\ ~Works(appThread[a][n])
              /\ trail'[a][n] = trail[a][n] \/ appThread[a][n].kind = "none"
  PROVE  AppSound(a)'
<1>1. ASSUME NEW n \in Attempts,
             appThread'[a][n] = appThread[a][n], ~Works(appThread[a][n]),
             trail'[a][n] = trail[a][n] \/ appThread[a][n].kind = "none"
      PROVE  ThreadOK(n, app'[a], appThread'[a][n], trail'[a][n], infra'[a], data'[a])
  <2> DEFINE t == appThread[a][n]
  <2>1. /\ app[a] \in AppRow /\ app'[a] \in AppRow /\ t \in AppThread
        /\ ThreadOK(n, app[a], t, trail[a][n], infra[a], data[a])
    BY SoundParts DEF TypeOK
  <2>2. CASE t.kind = "none"
    <3> HIDE DEF t
    <3>1. ThreadOK(n, app'[a], t, trail'[a][n], infra'[a], data'[a])
      BY <2>1, <2>2 DEF ThreadOK, Works
    <3>2. QED  BY <1>1, <3>1 DEF t
  <2>3. CASE t.kind # "none" /\ app'[a] = app[a]
    <3>1. t.pc = "record" /\ trail'[a][n] = trail[a][n]
      BY <1>1, <2>3 DEF Works
    <3> HIDE DEF t
    <3>2. ThreadOK(n, app[a], t, trail[a][n], infra'[a], data'[a])
      BY <2>1, <3>1 DEF ThreadOK, Works
    <3>3. QED  BY <1>1, <2>3, <3>1, <3>2 DEF t
  <2>4. CASE t.kind # "none" /\ RowMoves(app[a], app'[a])
    <3>1. trail'[a][n] = trail[a][n] /\ ~Works(t)
      BY <1>1, <2>4
    <3> HIDE DEF t
    <3>2. ThreadOK(n, app'[a], t, trail[a][n], infra'[a], data'[a])
      BY <2>1, <2>4, <3>1, Bystander
    <3>3. QED  BY <1>1, <3>1, <3>2 DEF t
  <2>5. QED  BY <2>2, <2>3, <2>4
<1>2. QED  BY <1>1 DEF AppSound

\* Nobody works for a row that is not executing.
LEMMA NobodyWorks ==
  ASSUME NEW a \in Apps, TypeOK, AppSound(a), app[a].job \notin EXECUTING_JOB_STATUSES,
         NEW n \in Attempts
  PROVE  ~Works(appThread[a][n])
BY SoundParts DEF ThreadOK, Doing, EXECUTING_JOB_STATUSES

\* An attempt that is over is not after the row's current one.
LEMMA PastThread ==
  ASSUME NEW a \in Apps, TypeOK, AppSound(a), NEW n \in Attempts, appThread[a][n].kind # "none"
  PROVE  /\ app[a].job # "NO_ROW" /\ (app[a].job \in JobStatus => n <= app[a].att)
         /\ app[a].job \in JobStatus \ {"IDLE"} /\ app[a].att = n => Works(appThread[a][n])
<1>1. ThreadOK(n, app[a], appThread[a][n], trail[a][n], infra[a], data[a])
  BY SoundParts
<1>2. QED  BY <1>1 DEF ThreadOK, Works

\* Opening an attempt keeps the app sound.
LEMMA OpenAttemptSound ==
  ASSUME NEW a \in Apps, NEW l \in Labels, NEW job, NEW ev, TypeOK, TypeOK', AppSound(a),
         app[a].job \in {"NO_ROW", "IDLE"},
         \/ /\ job = "DEPLOY_PENDING" /\ ev = "DEPLOY_STARTED"
            /\ app[a].job = "IDLE" => app[a].err # "REMOVAL_FAILED"
         \/ job = "REMOVAL_PENDING" /\ ev = "REMOVAL_STARTED" /\ app[a].job = "IDLE",
         OpenAttempt(a, [app[a] EXCEPT !.label = l], job, ev),
         UNCHANGED <<appThread, infra, data>>
  PROVE  AppSound(a)'
<1> DEFINE old == [app[a] EXCEPT !.label = l]
           next == [old EXCEPT !.job = job, !.att = @ + 1, !.err = "NONE"]
           n == app[a].att + 1
<1>1. /\ app[a] \in AppRow /\ trail[a] \in [Attempts -> Seq(EventType)]
      /\ RowOK(a, app[a], trail[a], infra[a], data[a])
  BY DEF TypeOK, AppSound
<1>2. old \in AppRow /\ old.att = app[a].att /\ old.mayInfra = app[a].mayInfra
  BY <1>1 DEF AppRow
<1>3. app[a].att < MaxAttempts
  BY <1>2 DEF OpenAttempt
<1>4. n \in Attempts
  BY <1>1, <1>3, BoundsAssumption DEF AppRow, Attempts
<1>5. app'[a] = next
  BY DEF OpenAttempt, TypeOK
<1>6. trail'[a] = Joined(trail[a], n, ev)
  BY <1>2, <1>4 DEF OpenAttempt, Joined, TypeOK
<1>7. \A m \in Attempts \ {n} : trail'[a][m] = trail[a][m]
  BY <1>1, <1>6 DEF Joined
<1> HIDE DEF old
<1>8. RowOK(a, app'[a], trail'[a], infra[a], data[a]) /\ RowMoves(app[a], app'[a])
  <2>1. RowOK(a, next, Joined(trail[a], n, ev), infra[a], data[a]) /\ RowMoves(app[a], next)
    <3>1. /\ app[a].job \in {"NO_ROW", "IDLE"}
          /\ \/ /\ job = "DEPLOY_PENDING" /\ ev = "DEPLOY_STARTED"
                /\ app[a].job = "IDLE" => app[a].err # "REMOVAL_FAILED"
             \/ job = "REMOVAL_PENDING" /\ ev = "REMOVAL_STARTED" /\ app[a].job = "IDLE"
      OBVIOUS
    <3>2. QED  BY ONLY a \in Apps, <1>1, <1>2, <1>3, <3>1, RowOpens
  <2>2. QED  BY <1>5, <1>6, <2>1
<1>9. ASSUME NEW m \in Attempts
      PROVE  ~Works(appThread[a][m]) /\ (m # n \/ appThread[a][m].kind = "none")
  <2>1. app[a].job \notin EXECUTING_JOB_STATUSES
    BY DEF EXECUTING_JOB_STATUSES
  <2>2. appThread[a][m].kind # "none" => m <= app[a].att
    BY PastThread DEF JobStatus
  <2>3. app[a].att \in Nat
    BY <1>1, BoundsAssumption DEF AppRow
  <2>4. QED  BY <2>1, <2>2, <2>3, NobodyWorks
<1>10. \A m \in Attempts :
         /\ appThread'[a][m] = appThread[a][m] /\ ~Works(appThread[a][m])
         /\ trail'[a][m] = trail[a][m] \/ appThread[a][m].kind = "none"
  BY <1>7, <1>9
<1>11. infra'[a] = infra[a] /\ data'[a] = data[a]
  OBVIOUS
<1>12. QED  BY <1>8, <1>10, <1>11, QuietSound

\* Admissions keep every app sound: they open attempts on idle rows.
LEMMA AdmissionSound ==
  ASSUME TypeOK, TypeOK', \A b \in Apps : AppSound(b), NEW a \in Apps, AppAdmission(a)
  PROVE  \A b \in Apps : AppSound(b)'
<1>1. UNCHANGED <<appThread, infra, data>>
  BY DEF AppAdmission, DeployFromTemplate, QueueDeploy, QueueRemoval, NoThreadStep
<1>2. ASSUME NEW b \in Apps \ {a} PROVE AppSound(b)'
  <2>1. app'[b] = app[b] /\ trail'[b] = trail[b]
    BY DEF AppAdmission, DeployFromTemplate, QueueDeploy, QueueRemoval, OpenAttempt, TypeOK
  <2>2. QED  BY <1>1, <2>1, UntouchedStaysSound DEF Untouched
<1>3. app[a].label \in Labels /\ [app[a] EXCEPT !.label = app[a].label] = app[a]
  BY DEF TypeOK, AppRow
<1>4. CASE DeployFromTemplate(a)
  <2>1. PICK l \in Labels :
          OpenAttempt(a, [app[a] EXCEPT !.label = l], "DEPLOY_PENDING", "DEPLOY_STARTED")
    BY <1>4 DEF DeployFromTemplate
  <2>2. app[a].job = "NO_ROW" /\ AppSound(a)
    BY <1>4 DEF DeployFromTemplate
  <2>3. AppSound(a)'
    BY <1>1, <2>1, <2>2, OpenAttemptSound
  <2>4. QED  BY <1>2, <2>3
<1>5. CASE QueueDeploy(a)
  <2>1. /\ app[a].job = "IDLE" /\ app[a].err # "REMOVAL_FAILED" /\ AppSound(a)
        /\ OpenAttempt(a, [app[a] EXCEPT !.label = app[a].label], "DEPLOY_PENDING", "DEPLOY_STARTED")
    BY <1>3, <1>5 DEF QueueDeploy, RequireIdle, RequireNoFailedRemoval
  <2>2. AppSound(a)'
    BY <1>1, <1>3, <2>1, OpenAttemptSound
  <2>3. QED  BY <1>2, <2>2
<1>6. CASE QueueRemoval(a)
  <2>1. PICK l \in Labels :
          OpenAttempt(a, [app[a] EXCEPT !.label = l], "REMOVAL_PENDING", "REMOVAL_STARTED")
    BY <1>3, <1>6, RunsAssumption DEF QueueRemoval
  <2>2. app[a].job = "IDLE" /\ AppSound(a)
    BY <1>6 DEF QueueRemoval, RequireIdle
  <2>3. AppSound(a)'
    BY <1>1, <2>1, <2>2, OpenAttemptSound
  <2>4. QED  BY <1>2, <2>3
<1>7. QED  BY <1>4, <1>5, <1>6 DEF AppAdmission

\* Claiming an attempt.
LEMMA ClaimSound ==
  ASSUME TypeOK, TypeOK', \A b \in Apps : AppSound(b), NEW r \in Runs, NEW a \in Apps,
         ClaimDeploy(r, a) \/ ClaimRemoval(r, a)
  PROVE  \A b \in Apps : AppSound(b)'
<1> DEFINE kind == IF app[a].job = "DEPLOY_PENDING" THEN "deploy" ELSE "removal"
           t == Spawned(kind, r)
           n == app[a].att
<1>1. /\ app[a] \in AppRow
      /\ RowOK(a, app[a], trail[a], infra[a], data[a]) /\ AppSound(a)
  BY DEF TypeOK, AppSound
<1>2. app[a].job \in {"DEPLOY_PENDING", "REMOVAL_PENDING"} /\ app[a].job \in JobStatus
  BY DEF ClaimDeploy, ClaimRemoval, JobStatus
<1>3. n \in Attempts
  BY <1>1, <1>2, BoundsAssumption DEF RowOK, AppRow, Attempts
<1>4. /\ appThread' = [appThread EXCEPT ![a][n] = t]
      /\ UNCHANGED <<trail, infra, data>>
  BY DEF ClaimDeploy, ClaimRemoval
<1>5. \/ /\ app[a].job = "DEPLOY_PENDING"
         /\ app'[a] = [app[a] EXCEPT !.job = "DEPLOYING", !.mayInfra = TRUE, !.run = r]
      \/ /\ app[a].job = "REMOVAL_PENDING"
         /\ app'[a] = [app[a] EXCEPT !.job = "REMOVING", !.run = r]
  <2>1. CASE ClaimDeploy(r, a)
    <3>1. app' = [app EXCEPT ![a] = [app[a] EXCEPT !.job = "DEPLOYING", !.mayInfra = TRUE, !.run = r]]
      BY <1>1, <2>1 DEF ClaimDeploy, TypeOK
    <3>2. QED  BY <2>1, <3>1 DEF ClaimDeploy, TypeOK
  <2>2. CASE ClaimRemoval(r, a)
    <3>1. app' = [app EXCEPT ![a] = [app[a] EXCEPT !.job = "REMOVING", !.run = r]]
      BY <1>1, <2>2 DEF ClaimRemoval, TypeOK
    <3>2. QED  BY <2>2, <3>1 DEF ClaimRemoval, TypeOK
  <2>3. QED  BY <2>1, <2>2
<1>6. app'[a] \in AppRow
  BY DEF TypeOK
<1>7. RowOK(a, app'[a], trail'[a], infra'[a], data'[a]) /\ RowMoves(app[a], app'[a])
  BY <1>1, <1>4, <1>5, <1>6, RowClaims
<1>8. app'[a].att = n /\ app'[a].run = r /\ app'[a].job = Doing(kind)
  BY <1>1, <1>5 DEF AppRow, Doing
<1>9. t.kind = kind /\ t.pc = "spawned" /\ t.run = r
  BY DEF Spawned, NoThread
<1>10. app'[a].job \in JobStatus /\ app'[a].job # "NO_ROW" /\ n <= n /\ kind \in {"deploy", "removal"}
  BY <1>3, <1>8 DEF Doing, JobStatus, Attempts
<1> HIDE DEF t, kind
<1>11. ThreadOK(n, app'[a], t, trail'[a][n], infra'[a], data'[a])
  BY <1>8, <1>9, <1>10 DEF ThreadOK
<1>12. ASSUME NEW m \in Attempts \ {n}
       PROVE  /\ appThread'[a][m] = appThread[a][m] /\ ~Works(appThread[a][m])
              /\ trail'[a][m] = trail[a][m]
  BY <1>1, <1>2, <1>4, NobodyWorks DEF EXECUTING_JOB_STATUSES, TypeOK
<1>13. appThread'[a][n] = t
  BY <1>3, <1>4 DEF TypeOK
<1>14. AppSound(a)'
  BY <1>1, <1>7, <1>11, <1>12, <1>13, QuietSound
<1>15. ASSUME NEW b \in Apps \ {a} PROVE AppSound(b)'
  <2>1. app'[b] = app[b]
    BY DEF ClaimDeploy, ClaimRemoval, TypeOK
  <2>2. appThread'[b] = appThread[b]
    BY <1>4 DEF TypeOK
  <2>3. QED  BY <1>4, <2>1, <2>2, UntouchedStaysSound DEF Untouched
<1>16. QED  BY <1>14, <1>15

\* A worker dies, with its threads.
LEMMA WorkerDiesSound ==
  ASSUME TypeOK, TypeOK', NEW r \in Runs, WorkerDies(r), NEW a \in Apps, AppSound(a)
  PROVE  AppSound(a)'
<1>1. \A n \in Attempts : appThread'[a][n] \in {NoThread, appThread[a][n]}
  BY DEF WorkerDies
<1>2. app' = app /\ trail' = trail /\ infra' = infra /\ data' = data
  BY DEF WorkerDies
<1>3. QED  BY <1>1, <1>2, ThreadEnds DEF AppSound

\* A dead run is forgotten: nobody works in it.
LEMMA PruneSound ==
  ASSUME TypeOK, TypeOK', WorkersBeat, NEW r \in Runs, PruneWorkerRun(r), NEW a \in Apps, AppSound(a)
  PROVE  AppSound(a)'
<1>1. /\ appThread'[a] = appThread[a] /\ trail'[a] = trail[a] /\ infra'[a] = infra[a] /\ data'[a] = data[a]
      /\ app'[a] = IF app[a].run = r THEN [app[a] EXCEPT !.run = NoRun] ELSE app[a]
      /\ run[r] = "expired"
  BY DEF PruneWorkerRun
<1>2. CASE app[a].run # r
  BY <1>1, <1>2, UntouchedStaysSound DEF Untouched
<1>3. CASE app[a].run = r
  <2>1. app[a] \in AppRow /\ RowOK(a, app[a], trail[a], infra[a], data[a])
    BY DEF TypeOK, AppSound
  <2>2. /\ app'[a].job = app[a].job /\ app'[a].att = app[a].att /\ app'[a].err = app[a].err
        /\ app'[a].mayInfra = app[a].mayInfra
    BY <1>1, <1>3, <2>1 DEF AppRow
  <2>3. RowOK(a, app'[a], trail'[a], infra'[a], data'[a])
    BY <1>1, <2>1, <2>2 DEF RowOK
  <2>4. ASSUME NEW n \in Attempts
        PROVE  ThreadOK(n, app'[a], appThread'[a][n], trail'[a][n], infra'[a], data'[a])
    <3>1. ThreadOK(n, app[a], appThread[a][n], trail[a][n], infra[a], data[a])
      BY SoundParts
    <3>2. ~Works(appThread[a][n])
      BY <1>1, <1>3, <3>1 DEF ThreadOK, Works, WorkersBeat
    <3>3. QED  BY <1>1, <2>2, <3>1, <3>2 DEF ThreadOK, Works
  <2>5. QED  BY <2>3, <2>4 DEF AppSound
<1>4. QED  BY <1>2, <1>3

\* The reaper settles rows nobody works for.
LEMMA ReapedSound ==
  ASSUME TypeOK, TypeOK', NEW S \in SUBSET Apps, SettleFailureOfAll(S),
         UNCHANGED <<appThread, infra, data>>, NEW a \in Apps, AppSound(a),
         a \in S => /\ app[a].job \in EXECUTING_JOB_STATUSES
                    /\ \A n \in Attempts : ~Works(appThread[a][n])
  PROVE  AppSound(a)'
<1>1. /\ app'[a] = IF a \in S THEN FailedRow(app[a], app[a].job) ELSE app[a]
      /\ trail'[a] = [n \in Attempts |->
                        IF a \in S /\ n = app[a].att
                        THEN Append(trail[a][n], FailureEventByJobStatus(app[a].job))
                        ELSE trail[a][n]]
  BY DEF SettleFailureOfAll
<1>2. trail[a] \in [Attempts -> Seq(EventType)] /\ app[a] \in AppRow
  BY DEF TypeOK
<1>3. CASE a \notin S
  <2>1. trail'[a] = trail[a] /\ app'[a] = app[a]
    BY <1>1, <1>2, <1>3
  <2>2. QED  BY <2>1, UntouchedStaysSound DEF Untouched
<1>4. CASE a \in S
  <2>1. trail'[a] = Joined(trail[a], app[a].att, FailureEventByJobStatus(app[a].job))
    BY <1>1, <1>2, <1>4 DEF Joined
  <2>2. RowOK(a, app'[a], trail'[a], infra[a], data[a]) /\ RowMoves(app[a], app'[a])
    BY <1>1, <1>2, <1>4, <2>1, RowReaped DEF AppSound
  <2>3. ASSUME NEW n \in Attempts
        PROVE  trail'[a][n] = trail[a][n] \/ appThread[a][n].kind = "none"
    <3>1. CASE n # app[a].att
      BY <1>1, <3>1
    <3>2. CASE n = app[a].att
      BY <1>4, <3>2, PastThread DEF EXECUTING_JOB_STATUSES, JobStatus
    <3>3. QED  BY <3>1, <3>2
  <2>4. infra'[a] = infra[a] /\ data'[a] = data[a] /\ appThread'[a] = appThread[a]
    OBVIOUS
  <2>5. QED  BY <1>4, <2>2, <2>3, <2>4, QuietSound
<1>5. QED  BY <1>3, <1>4

\* Every step of the reaper keeps every app sound.
LEMMA ReaperSound ==
  ASSUME Calm, TypeOK, TypeOK', WorkersBeat, \A b \in Apps : AppSound(b), ReaperStep
  PROVE  \A b \in Apps : AppSound(b)'
<1>1. CASE ReapDeadWorkerApps
  <2>1. ASSUME NEW a \in StaleApps, NEW n \in Attempts
        PROVE  app[a].job \in EXECUTING_JOB_STATUSES /\ ~Works(appThread[a][n])
    <3>1. a \in Apps /\ app[a].job \in EXECUTING_JOB_STATUSES /\ run[app[a].run] \in {"late", "expired"}
      BY <2>1 DEF StaleApps, ClaimedByDeadRun, HeartbeatExpired
    <3>2. ThreadOK(n, app[a], appThread[a][n], trail[a][n], infra[a], data[a])
      BY <3>1, SoundParts
    <3>3. QED  BY <3>1, <3>2 DEF ThreadOK, Works, WorkersBeat
  <2>2. StaleApps \in SUBSET Apps /\ SettleFailureOfAll(StaleApps) /\ UNCHANGED <<appThread, infra, data>>
    BY <1>1 DEF ReapDeadWorkerApps, StaleApps
  <2>3. Attempts # {}
    BY BoundsAssumption DEF Attempts
  <2>4. QED  BY <2>1, <2>2, <2>3, ReapedSound
<1>2. ASSUME NEW a \in Apps, ReapUntouchedApp(a) PROVE \A b \in Apps : AppSound(b)'
  <2>1. /\ app[a].job \in EXECUTING_JOB_STATUSES
        /\ \A n \in Attempts : ~Works(appThread[a][n])
        /\ SettleFailureOfAll({a}) /\ UNCHANGED <<appThread, infra, data>>
    BY <1>2 DEF ReapUntouchedApp, MayBeSlow, WorksFor, Works, Calm
  <2>2. {a} \in SUBSET Apps /\ \A b \in {a} : b = a
    OBVIOUS
  <2>3. QED  BY <2>1, <2>2, ReapedSound
<1>3. ASSUME ReapDeadWorkerEnvironments \/ \E e \in Envs : ReapUntouchedEnvironment(e)
      PROVE  \A b \in Apps : AppSound(b)'
  BY <1>3, UntouchedStaysSound DEF ReapDeadWorkerEnvironments, ReapUntouchedEnvironment, Untouched
<1>4. QED  BY <1>1, <1>2, <1>3 DEF ReaperStep

-----------------------------------------------------------------------------
(* Environments and their threads. *)

\* What is known of environment e and its thread k.
LEMMA EnvParts ==
  ASSUME NEW e \in Envs, NEW k \in EnvThreads, TypeOK, EnvSound(e)
  PROVE  /\ env[e] \in EnvRow /\ envThread[e][k] \in EnvThread
         /\ EnvThreadOK(e, k, envThread[e][k])
BY DEF TypeOK, EnvSound

\* An environment's soundness is kept by a step that leaves it and its threads alone
\* and, while they tear it down, adds nothing to its apps.
LEMMA EnvSoundKept ==
  ASSUME NEW e \in Envs, TypeOK, EnvSound(e), env'[e] = env[e], envThread'[e] = envThread[e],
         base'[e] = base[e],
         env[e].status = "TEARING_DOWN" =>
           \A a \in Apps : EnvOf[a] = e =>
             (Present(a)' => Present(a)) /\ (infra'[a] => infra[a]) /\ data'[a] \subseteq data[a]
  PROVE  EnvSound(e)'
<1>1. ASSUME NEW k \in EnvThreads PROVE EnvThreadOK(e, k, envThread[e][k])'
  <2> DEFINE t == envThread[e][k]
  <2>1. EnvThreadOK(e, k, t)
    BY DEF EnvSound
  <2>2. t' = t
    OBVIOUS
  <2>3. CASE t.kind # "teardown"
    <3>1. t \in EnvThread
      BY DEF TypeOK
    <3> HIDE DEF t
    <3>2. EnvThreadOK(e, k, t)'
      BY <2>1, <2>2, <2>3, <3>1 DEF EnvThreadOK, EnvThread
    <3>3. QED  BY <3>2 DEF t
  <2>4. CASE t.kind = "teardown"
    <3>1. env[e].status = "TEARING_DOWN"
      BY <2>1, <2>4 DEF EnvThreadOK
    <3>2. \A a \in Apps : EnvOf[a] = e =>
            (Present(a)' => Present(a)) /\ (infra'[a] => infra[a]) /\ data'[a] \subseteq data[a]
      BY <3>1
    <3>3. AppsOf(e)' \subseteq AppsOf(e) /\ \A a \in AppsOf(e)' : infra'[a] => infra[a]
      BY <3>2 DEF AppsOf
    <3>4. t.victims \subseteq Apps
      BY DEF TypeOK, EnvThread
    <3>5. \A a \in t.victims : EnvOf[a] = e
      BY <2>1 DEF EnvThreadOK
    <3>6. \A a \in t.victims : data[a] = {} => data'[a] = {}
      BY <3>2, <3>4, <3>5
    <3> HIDE DEF t
    <3>7. EnvThreadOK(e, k, t)'
      BY <2>1, <2>2, <3>3, <3>6 DEF EnvThreadOK
    <3>8. QED  BY <3>7 DEF t
  <2>5. QED  BY <2>3, <2>4
<1>2. QED  BY <1>1 DEF EnvSound

\* An environment without threads is sound, if it is not READY without its base.
LEMMA EnvIdleSound ==
  ASSUME NEW e \in Envs, TypeOK, EnvSound(e), env'[e].status = "READY" => base'[e],
         \A k \in EnvThreads :
           \/ envThread'[e][k] = NoEnvThread
           \/ envThread'[e][k] = envThread[e][k] /\ envThread[e][k].kind = "none"
  PROVE  EnvSound(e)'
<1>1. ASSUME NEW k \in EnvThreads PROVE EnvThreadOK(e, k, envThread[e][k])'
  <2>1. EnvThreadOK(e, k, envThread[e][k])
    BY DEF EnvSound
  <2>2. CASE envThread'[e][k] = NoEnvThread
    BY <2>2 DEF EnvThreadOK, NoEnvThread
  <2>3. CASE envThread'[e][k] = envThread[e][k] /\ envThread[e][k].kind = "none"
    BY <2>1, <2>3 DEF EnvThreadOK
  <2>4. QED  BY <2>2, <2>3
<1>2. QED  BY <1>1 DEF EnvSound

\* Thread k, the only one of its environment, is as it should be.
LEMMA EnvThreadSound ==
  ASSUME NEW e \in Envs, NEW k \in EnvThreads, TypeOK, EnvSound(e),
         \A j \in EnvThreads \ {k} : envThread[e][j].kind = "none" /\ envThread'[e][j] = envThread[e][j],
         EnvThreadOK(e, k, envThread[e][k])', env'[e].status = "READY" => base'[e]
  PROVE  EnvSound(e)'
<1>1. ASSUME NEW j \in EnvThreads \ {k} PROVE EnvThreadOK(e, j, envThread[e][j])'
  <2>1. EnvThreadOK(e, j, envThread[e][j])
    BY DEF EnvSound
  <2>2. QED  BY <2>1 DEF EnvThreadOK
<1>2. QED  BY <1>1 DEF EnvSound

\* The environment of a thread.
LEMMA EnvThreadAlone ==
  ASSUME NEW e \in Envs, NEW k \in EnvThreads, TypeOK, EnvSound(e), envThread[e][k].kind # "none"
  PROVE  /\ env[e].status = IF envThread[e][k].kind = "provision" THEN "PROVISIONING" ELSE "TEARING_DOWN"
         /\ env[e].run = envThread[e][k].run
         /\ \A j \in EnvThreads \ {k} : envThread[e][j].kind = "none"
BY EnvParts DEF EnvThreadOK

\* An environment in any other status has none.
LEMMA EnvThreadless ==
  ASSUME NEW e \in Envs, TypeOK, EnvSound(e), env[e].status \notin {"PROVISIONING", "TEARING_DOWN"}
  PROVE  \A k \in EnvThreads : envThread[e][k].kind = "none"
BY EnvThreadAlone

\* The thread of an environment that is torn down finds its apps without a job.
LEMMA TeardownFindsIdle ==
  ASSUME TypeOK, TeardownOwnsEnvironment, NEW e \in Envs, env[e].status = "TEARING_DOWN",
         NEW a \in Apps, EnvOf[a] = e, AppSound(a), NEW n \in Attempts
  PROVE  ~Works(appThread[a][n]) /\ app[a].job \notin EXECUTING_JOB_STATUSES
<1>1. app[a].job \notin EXECUTING_JOB_STATUSES
  BY DEF TeardownOwnsEnvironment, TeardownStatuses, AppsOf, Present, EXECUTING_JOB_STATUSES, JobStatus
<1>2. QED  BY <1>1, NobodyWorks

\* Admission of a retry, a redeploy or a teardown.
LEMMA EnvAdmissionEnvSound ==
  ASSUME TypeOK, \A f \in Envs : EnvSound(f), NEW e \in Envs, EnvAdmission(e)
  PROVE  \A f \in Envs : EnvSound(f)'
<1>1. /\ env[e].status \in {"READY", "ERROR"}
      /\ \E st \in {"PENDING", "TEARDOWN_PENDING"} : env' = [env EXCEPT ![e].status = st]
      /\ UNCHANGED <<app, envThread, infra, data, base>>
  BY DEF EnvAdmission, EnvironmentRetry, RedeployEnvironment, QueueTeardown, TransitionStatus, NoJobStep
<1>2. ASSUME NEW f \in Envs \ {e} PROVE EnvSound(f)'
  <2>1. env'[f] = env[f]
    BY <1>1 DEF TypeOK
  <2>2. QED  BY <1>1, <2>1, EnvSoundKept DEF Present
<1>3. env[e] \in EnvRow
  BY DEF TypeOK
<1>4. env'[e].status # "READY"
  BY <1>1, <1>3 DEF EnvRow, TypeOK
<1>5. EnvSound(e)'
  BY <1>1, <1>4, EnvThreadless, EnvIdleSound
<1>6. QED  BY <1>2, <1>5

\* Admission to an app: its environment is READY.
LEMMA AdmissionEnvSound ==
  ASSUME TypeOK, \A f \in Envs : EnvSound(f), NEW a \in Apps, AppAdmission(a)
  PROVE  \A f \in Envs : EnvSound(f)'
<1>1. env[EnvOf[a]].status = "READY" /\ UNCHANGED <<env, envThread, infra, data, base>>
  BY DEF AppAdmission, DeployFromTemplate, QueueDeploy, QueueRemoval, LockAppForAdmission, EnvReady,
     NoThreadStep
<1>2. \A b \in Apps \ {a} : app'[b] = app[b]
  BY DEF AppAdmission, DeployFromTemplate, QueueDeploy, QueueRemoval, OpenAttempt, TypeOK
<1>3. ASSUME NEW f \in Envs PROVE EnvSound(f)'
  <2>1. ASSUME env[f].status = "TEARING_DOWN", NEW b \in Apps, EnvOf[b] = f
        PROVE  app'[b] = app[b]
    BY <1>1, <1>2, <2>1
  <2>2. QED  BY <1>1, <2>1, EnvSoundKept DEF Present
<1>4. QED  BY <1>3

\* The steps of an app's thread: an app whose environment is torn down has none at work.
LEMMA AppThreadEnvSound ==
  ASSUME Calm, TypeOK, TeardownOwnsEnvironment, \A b \in Apps : AppSound(b),
         \A f \in Envs : EnvSound(f), NEW a \in Apps, NEW n \in Attempts, AppThreadStep(a, n)
  PROVE  \A f \in Envs : EnvSound(f)'
<1>1. UNCHANGED <<env, envThread, base>>
  BY DEF AppThreadStep, DeployLoad, DeployCreatesInfra, DeploySettleSuccess,
     DeploySettleFailure, DeployThreadDies, DeployRecordFails, WriteRecord, RemovalLoad,
     RemovalTeardown, RemovalClearsOutputs, RemovalPurge, RemovalPurgeFails, RemovalDelete,
     RemovalSettleFailure, RemovalRaises
<1>2. ASSUME ~Works(appThread[a][n]) PROVE UNCHANGED <<app, infra, data>>
  BY <1>2 DEF Calm, Works, At, AppThreadStep, DeployLoad, DeployCreatesInfra, DeploySettleSuccess,
     DeploySettleFailure, DeployThreadDies, DeployRecordFails, WriteRecord, RemovalLoad,
     RemovalTeardown, RemovalClearsOutputs, RemovalPurge, RemovalPurgeFails, RemovalDelete,
     RemovalSettleFailure, RemovalRaises
<1>3. ASSUME NEW f \in Envs PROVE EnvSound(f)'
  <2>1. ASSUME env[f].status = "TEARING_DOWN", NEW b \in Apps, EnvOf[b] = f
        PROVE  app'[b] = app[b] /\ infra'[b] = infra[b] /\ data'[b] = data[b]
    <3>1. CASE b # a
      BY <3>1, ThreadLeavesOthers DEF Untouched
    <3>2. CASE b = a
      <4>1. ~Works(appThread[a][n])
        BY <2>1, <3>2, TeardownFindsIdle
      <4>2. QED  BY <1>2, <3>2, <4>1
    <3>3. QED  BY <3>1, <3>2
  <2>2. QED  BY <1>1, <2>1, EnvSoundKept DEF Present
<1>4. QED  BY <1>3

\* A claim of an app's attempt: its environment is READY.
LEMMA AppClaimEnvSound ==
  ASSUME TypeOK, \A f \in Envs : EnvSound(f), NEW r \in Runs, NEW a \in Apps,
         ClaimDeploy(r, a) \/ ClaimRemoval(r, a)
  PROVE  \A f \in Envs : EnvSound(f)'
<1>1. env[EnvOf[a]].status = "READY" /\ UNCHANGED <<env, envThread, infra, data, base>>
  BY DEF ClaimDeploy, ClaimRemoval, EnvReady
<1>2. \A b \in Apps \ {a} : app'[b] = app[b]
  BY DEF ClaimDeploy, ClaimRemoval, TypeOK
<1>3. ASSUME NEW f \in Envs PROVE EnvSound(f)'
  <2>1. ASSUME env[f].status = "TEARING_DOWN", NEW b \in Apps, EnvOf[b] = f
        PROVE  app'[b] = app[b]
    BY <1>1, <1>2, <2>1
  <2>2. QED  BY <1>1, <2>1, EnvSoundKept DEF Present
<1>4. QED  BY <1>3

\* A claim of an environment: it had no thread, and has one now.
LEMMA EnvClaimEnvSound ==
  ASSUME TypeOK, \A f \in Envs : EnvSound(f), NEW r \in Runs, NEW e \in Envs,
         ClaimProvisioning(r, e) \/ ClaimEnvironmentTeardown(r, e)
  PROVE  \A f \in Envs : EnvSound(f)'
<1>1. UNCHANGED <<app, infra, data, base>>
  BY DEF ClaimProvisioning, ClaimEnvironmentTeardown
<1>2. PICK kind \in {"provision", "teardown"} :
        /\ env[e].status \notin {"PROVISIONING", "TEARING_DOWN"}
        /\ env' = [env EXCEPT ![e] =
             [status |-> IF kind = "provision" THEN "PROVISIONING" ELSE "TEARING_DOWN", run |-> r]]
        /\ \E k \in EnvThreads :
             envThread' = [envThread EXCEPT ![e][k] =
                             [NoEnvThread EXCEPT !.kind = kind, !.pc = "spawned", !.run = r]]
  BY DEF ClaimProvisioning, ClaimEnvironmentTeardown, Claim
<1>3. PICK k \in EnvThreads :
        envThread' = [envThread EXCEPT ![e][k] =
                        [NoEnvThread EXCEPT !.kind = kind, !.pc = "spawned", !.run = r]]
  BY <1>2
<1>4. \A j \in EnvThreads \ {k} : envThread[e][j].kind = "none" /\ envThread'[e][j] = envThread[e][j]
  BY <1>2, <1>3, EnvThreadless DEF TypeOK
<1>5. /\ envThread'[e][k].kind = kind /\ envThread'[e][k].pc = "spawned" /\ envThread'[e][k].run = r
      /\ envThread'[e][k].todo = {} /\ envThread'[e][k].victims = {}
  BY <1>3 DEF TypeOK, NoEnvThread
<1>6. /\ env'[e].status = IF kind = "provision" THEN "PROVISIONING" ELSE "TEARING_DOWN"
      /\ env'[e].run = r
  BY <1>2 DEF TypeOK
<1>7. EnvThreadOK(e, k, envThread[e][k])'
  BY <1>4, <1>5, <1>6 DEF EnvThreadOK
<1>8. EnvSound(e)'
  BY <1>4, <1>6, <1>7, EnvThreadSound
<1>9. ASSUME NEW f \in Envs \ {e} PROVE EnvSound(f)'
  <2>1. env'[f] = env[f] /\ envThread'[f] = envThread[f]
    BY <1>2, <1>3 DEF TypeOK
  <2>2. QED  BY <1>1, <2>1, EnvSoundKept DEF Present
<1>10. QED  BY <1>8, <1>9

\* A worker dies, with its threads.
LEMMA WorkerDiesEnvSound ==
  ASSUME TypeOK, NEW r \in Runs, WorkerDies(r), NEW e \in Envs, EnvSound(e)
  PROVE  EnvSound(e)'
<1>1. /\ \A k \in EnvThreads : envThread'[e][k] \in {NoEnvThread, envThread[e][k]}
      /\ UNCHANGED <<app, env, infra, data, base>>
  BY DEF WorkerDies
<1>2. CASE \E k \in EnvThreads : envThread'[e][k] = envThread[e][k] /\ envThread[e][k].kind # "none"
  <2>1. PICK k \in EnvThreads : envThread'[e][k] = envThread[e][k] /\ envThread[e][k].kind # "none"
    BY <1>2
  <2>2. ASSUME NEW j \in EnvThreads PROVE EnvThreadOK(e, j, envThread[e][j])'
    <3>1. EnvThreadOK(e, j, envThread[e][j])
      BY DEF EnvSound
    <3>2. CASE envThread'[e][j] = NoEnvThread
      BY <3>2 DEF EnvThreadOK, NoEnvThread
    <3>3. CASE envThread'[e][j] = envThread[e][j]
      <4>1. \A i \in EnvThreads : i # j /\ envThread[e][i].kind = "none" => envThread'[e][i].kind = "none"
        BY <1>1 DEF NoEnvThread
      <4>2. AppsOf(e)' = AppsOf(e)
        BY <1>1 DEF AppsOf, Present
      <4>3. QED  BY <1>1, <3>1, <3>3, <4>1, <4>2 DEF EnvThreadOK
    <3>4. QED  BY <1>1, <3>2, <3>3
  <2>3. QED  BY <1>1, <2>2 DEF EnvSound
<1>3. CASE \A k \in EnvThreads : envThread'[e][k] = envThread[e][k] => envThread[e][k].kind = "none"
  <2>1. env'[e].status = "READY" => base'[e]
    BY <1>1 DEF EnvSound
  <2>2. QED  BY <1>1, <1>3, <2>1, EnvIdleSound
<1>4. QED  BY <1>2, <1>3

\* A dead run is forgotten: no thread runs in it.
LEMMA PruneEnvSound ==
  ASSUME TypeOK, WorkersBeat, NEW r \in Runs, PruneWorkerRun(r), NEW e \in Envs, EnvSound(e)
  PROVE  EnvSound(e)'
<1>1. /\ UNCHANGED <<envThread, infra, data, base>> /\ run[r] = "expired"
      /\ env'[e] = IF env[e].run = r THEN [env[e] EXCEPT !.run = NoRun] ELSE env[e]
      /\ \A a \in Apps : app'[a] = IF app[a].run = r THEN [app[a] EXCEPT !.run = NoRun] ELSE app[a]
  BY DEF PruneWorkerRun
<1>2. \A a \in Apps : app'[a].job = app[a].job
  BY <1>1 DEF TypeOK, AppRow
<1>3. CASE env[e].run # r
  BY <1>1, <1>2, <1>3, EnvSoundKept DEF Present
<1>4. CASE env[e].run = r
  <2>1. \A k \in EnvThreads : envThread[e][k].kind = "none"
    BY <1>1, <1>4, EnvThreadAlone DEF WorkersBeat
  <2>2. env'[e].status = env[e].status
    BY <1>1 DEF TypeOK, EnvRow
  <2>3. env'[e].status = "READY" => base'[e]
    BY <1>1, <2>2 DEF EnvSound
  <2>4. QED  BY <1>1, <2>1, <2>3, EnvIdleSound
<1>5. QED  BY <1>3, <1>4

\* The reaper fails environments no thread works for, and settles apps.
LEMMA ReaperEnvSound ==
  ASSUME Calm, TypeOK, WorkersBeat, \A f \in Envs : EnvSound(f), ReaperStep
  PROVE  \A f \in Envs : EnvSound(f)'
<1>1. ASSUME NEW S \in SUBSET Apps, SettleFailureOfAll(S), \A a \in S : Present(a),
             UNCHANGED <<env, envThread, infra, data, base>>
      PROVE  \A f \in Envs : EnvSound(f)'
  <2>1. \A a \in Apps : Present(a)' => Present(a)
    BY <1>1 DEF SettleFailureOfAll, Present
  <2>2. QED  BY <1>1, <2>1, EnvSoundKept
<1>2. ASSUME NEW S \in SUBSET Envs, EnvironmentsToError(S), UNCHANGED <<app, envThread, infra, data, base>>,
             \A e \in S : \A k \in EnvThreads : envThread[e][k].kind = "none"
      PROVE  \A f \in Envs : EnvSound(f)'
  <2> SUFFICES ASSUME NEW f \in Envs PROVE EnvSound(f)'
    OBVIOUS
  <2>1. CASE f \in S
    <3>1. env'[f].status = "ERROR"
      BY <1>2, <2>1 DEF EnvironmentsToError, TypeOK, EnvRow
    <3>2. QED  BY <1>2, <2>1, <3>1, EnvIdleSound
  <2>2. CASE f \notin S
    <3>1. env'[f] = env[f]
      BY <1>2, <2>2 DEF EnvironmentsToError
    <3>2. QED  BY <1>2, <3>1, EnvSoundKept DEF Present
  <2>3. QED  BY <2>1, <2>2
<1>3. CASE ReapDeadWorkerApps
  BY <1>1, <1>3 DEF ReapDeadWorkerApps, StaleApps, EXECUTING_JOB_STATUSES, Present, JobStatus
<1>4. ASSUME NEW a \in Apps, ReapUntouchedApp(a) PROVE \A f \in Envs : EnvSound(f)'
  BY <1>1, <1>4 DEF ReapUntouchedApp, EXECUTING_JOB_STATUSES, Present, JobStatus
<1>5. CASE ReapDeadWorkerEnvironments
  <2>1. ASSUME NEW e \in StaleEnvironments, NEW k \in EnvThreads PROVE envThread[e][k].kind = "none"
    <3>1. e \in Envs /\ run[env[e].run] \in {"late", "expired"}
      BY <2>1 DEF StaleEnvironments, ClaimedByDeadRun, HeartbeatExpired
    <3>2. QED  BY <3>1, EnvThreadAlone DEF WorkersBeat
  <2>2. /\ StaleEnvironments \in SUBSET Envs /\ EnvironmentsToError(StaleEnvironments)
        /\ UNCHANGED <<app, envThread, infra, data, base>>
    BY <1>5 DEF ReapDeadWorkerEnvironments, StaleEnvironments
  <2>3. QED  BY <1>2, <2>1, <2>2
<1>6. ASSUME NEW e \in Envs, ReapUntouchedEnvironment(e) PROVE \A f \in Envs : EnvSound(f)'
  <2>1. /\ \A k \in EnvThreads : envThread[e][k].kind = "none"
        /\ EnvironmentsToError({e}) /\ UNCHANGED <<app, envThread, infra, data, base>>
    BY <1>6 DEF ReapUntouchedEnvironment, MayBeSlow, EnvThreadAlive, Calm
  <2>2. {e} \in SUBSET Envs
    OBVIOUS
  <2>3. QED  BY <1>2, <2>1, <2>2
<1>7. QED  BY <1>3, <1>4, <1>5, <1>6 DEF ReaperStep

\* The thread of environment e steps on, alone; it touches no other environment's
\* apps, nor their records.
EnvThreadAdds(e) ==
  /\ \A f \in Envs \ {e} : env'[f] = env[f] /\ envThread'[f] = envThread[f] /\ base'[f] = base[f]
  /\ \A a \in Apps : EnvOf[a] # e => app'[a] = app[a] /\ trail'[a] = trail[a]
                                      /\ infra'[a] = infra[a] /\ data'[a] = data[a]
  /\ UNCHANGED appThread

\* A step of an environment's thread touches that environment and its apps only.
LEMMA EnvThreadOwns ==
  ASSUME TypeOK, NEW e \in Envs, EnvSound(e), NEW k \in EnvThreads, EnvThreadStep(e, k)
  PROVE  EnvThreadAdds(e)
<1> DEFINE t == envThread[e][k]
<1>1. \A a \in t.todo \cup t.victims : EnvOf[a] = e
  BY EnvParts DEF EnvThreadOK
<1>2. \A f \in Envs \ {e} : env'[f] = env[f]
  BY DEF EnvThreadStep, ProvisionLoad, ProvisionCreatesBase, ProvisionSucceeds, ProvisionFails,
     TeardownLoad, TeardownAppsDone, TeardownPurgeDone, TeardownBase, TeardownDeleteRecords,
     TeardownFails, EnvThreadDies, TeardownAppInfra, TeardownPurgeApp, SettleProvisioning, TypeOK
<1>3. \A f \in Envs \ {e} : envThread'[f] = envThread[f]
  BY DEF EnvThreadStep, ProvisionLoad, ProvisionCreatesBase, ProvisionSucceeds, ProvisionFails,
     TeardownLoad, TeardownAppsDone, TeardownPurgeDone, TeardownBase, TeardownDeleteRecords,
     TeardownFails, EnvThreadDies, TeardownAppInfra, TeardownPurgeApp, EnvGoTo, EnvFinish, TypeOK
<1>4. \A f \in Envs \ {e} : base'[f] = base[f]
  BY DEF EnvThreadStep, ProvisionLoad, ProvisionCreatesBase, ProvisionSucceeds, ProvisionFails,
     TeardownLoad, TeardownAppsDone, TeardownPurgeDone, TeardownBase, TeardownDeleteRecords,
     TeardownFails, EnvThreadDies, TeardownAppInfra, TeardownPurgeApp, TypeOK
<1>5. UNCHANGED appThread
  BY DEF EnvThreadStep, ProvisionLoad, ProvisionCreatesBase, ProvisionSucceeds, ProvisionFails,
     TeardownLoad, TeardownAppsDone, TeardownPurgeDone, TeardownBase, TeardownDeleteRecords,
     TeardownFails, EnvThreadDies, TeardownAppInfra, TeardownPurgeApp
<1>6. ASSUME NEW a \in Apps, EnvOf[a] # e
      PROVE  app'[a] = app[a] /\ trail'[a] = trail[a]
  <2>1. CASE TeardownDeleteRecords(e, k)
    <3>1. PICK doomed \in SUBSET Apps : DeleteRows(doomed) /\ \A b \in doomed : EnvOf[b] = e
      <4>1. t.victims \subseteq Apps
        BY DEF TypeOK, EnvThread
      <4>2. DeleteRows(IF e \in SandboxEnvs THEN t.victims ELSE AppsOf(e))
        BY <2>1 DEF TeardownDeleteRecords
      <4>3. AppsOf(e) \subseteq Apps /\ \A b \in AppsOf(e) : EnvOf[b] = e
        BY DEF AppsOf
      <4>4. QED  BY <1>1, <4>1, <4>2, <4>3
    <3>2. QED  BY <1>6, <3>1 DEF DeleteRows
  <2>2. CASE UNCHANGED <<app, trail>>
    BY <2>2
  <2>3. QED
    BY <2>1, <2>2 DEF EnvThreadStep, ProvisionLoad, ProvisionCreatesBase, ProvisionSucceeds,
       ProvisionFails, TeardownLoad, TeardownAppsDone, TeardownPurgeDone, TeardownBase,
       TeardownFails, EnvThreadDies, TeardownAppInfra, TeardownPurgeApp
<1>7. ASSUME NEW a \in Apps, EnvOf[a] # e
      PROVE  infra'[a] = infra[a] /\ data'[a] = data[a]
  <2>0. a \notin t.todo
    BY <1>1, <1>7
  <2>1. infra'[a] = infra[a]
    BY <2>0 DEF EnvThreadStep, ProvisionLoad, ProvisionCreatesBase, ProvisionSucceeds, ProvisionFails,
       TeardownLoad, TeardownAppsDone, TeardownPurgeDone, TeardownBase, TeardownDeleteRecords,
       TeardownFails, EnvThreadDies, TeardownAppInfra, TeardownPurgeApp, TypeOK
  <2>2. data'[a] = data[a]
    BY <2>0 DEF EnvThreadStep, ProvisionLoad, ProvisionCreatesBase, ProvisionSucceeds, ProvisionFails,
       TeardownLoad, TeardownAppsDone, TeardownPurgeDone, TeardownBase, TeardownDeleteRecords,
       TeardownFails, EnvThreadDies, TeardownAppInfra, TeardownPurgeApp, TypeOK
  <2>3. QED  BY <2>1, <2>2
<1>8. QED  BY <1>2, <1>3, <1>4, <1>5, <1>6, <1>7 DEF EnvThreadAdds

\* What a teardown does to an app of its environment: it deletes the stack and the
\* data, and then the row; a deleted row had neither left.
LEMMA TeardownSound ==
  ASSUME TypeOK, TypeOK', TeardownOwnsEnvironment, NEW e \in Envs, EnvSound(e),
         NEW k \in EnvThreads, EnvThreadStep(e, k), NEW a \in Apps, EnvOf[a] = e, AppSound(a)
  PROVE  AppSound(a)'
<1> DEFINE t == envThread[e][k]
<1>1. /\ EnvThreadOK(e, k, t) /\ t \in EnvThread /\ UNCHANGED appThread
      /\ RowOK(a, app[a], trail[a], infra[a], data[a])
  BY EnvParts, EnvThreadOwns DEF EnvThreadAdds, AppSound
<1>2. CASE TeardownDeleteRecords(e, k)
  <2>1. /\ t.kind = "teardown" /\ t.pc = "delete" /\ env[e].status = "TEARING_DOWN"
        /\ \A b \in AppsOf(e) : ~infra[b]
        /\ e \in SandboxEnvs => \A b \in t.victims : data[b] = {}
    BY <1>1, <1>2 DEF TeardownDeleteRecords, EnvAt, EnvThreadOK
  <2>2. infra' = infra /\ data' = data
    BY <1>2 DEF TeardownDeleteRecords
  <2>3. ~infra[a]
    BY <1>1, <2>1 DEF RowOK, AppsOf, Present
  <2>4. \A n \in Attempts : ~Works(appThread[a][n])
    BY <2>1, TeardownFindsIdle
  <2>5. PICK doomed \in SUBSET Apps :
          /\ DeleteRows(doomed)
          /\ e \in SandboxEnvs => \A b \in doomed : data[b] = {}
    BY <1>1, <1>2, <2>1 DEF TeardownDeleteRecords, AppsOf, EnvThread
  <2>6. CASE a \in doomed
    <3>1. app'[a] = [NewApp EXCEPT !.job = "DELETED"] /\ trail'[a] = [n \in Attempts |-> <<>>]
      BY <2>5, <2>6 DEF DeleteRows
    <3>2. infra'[a] = FALSE /\ (EnvOf[a] \in SandboxEnvs => data'[a] = {})
      BY <2>2, <2>3, <2>5, <2>6 DEF TypeOK
    <3>3. QED  BY <1>1, <2>4, <3>1, <3>2, GoneSound
  <2>7. CASE a \notin doomed
    <3>1. app'[a] = app[a] /\ trail'[a] = trail[a]
      BY <2>5, <2>7 DEF DeleteRows
    <3>2. QED  BY <1>1, <2>2, <3>1, UntouchedStaysSound DEF Untouched
  <2>8. QED  BY <2>6, <2>7
<1>3. CASE ~TeardownDeleteRecords(e, k)
  <2>1. app' = app /\ trail' = trail
    BY <1>3 DEF EnvThreadStep, ProvisionLoad, ProvisionCreatesBase, ProvisionSucceeds, ProvisionFails,
       TeardownLoad, TeardownAppsDone, TeardownPurgeDone, TeardownBase,
       TeardownFails, EnvThreadDies, TeardownAppInfra, TeardownPurgeApp
  <2>2. CASE t.kind # "teardown"
    <3>1. infra' = infra /\ data' = data
      BY <1>3, <2>2 DEF EnvThreadStep, ProvisionLoad, ProvisionCreatesBase, ProvisionSucceeds, ProvisionFails,
         TeardownLoad, TeardownAppsDone, TeardownPurgeDone, TeardownBase,
         TeardownFails, EnvThreadDies, TeardownAppInfra, TeardownPurgeApp, EnvAt
    <3>2. QED  BY <1>1, <2>1, <3>1, UntouchedStaysSound DEF Untouched
  <2>3. CASE t.kind = "teardown"
    <3>1. env[e].status = "TEARING_DOWN"
      BY <1>1, <2>3 DEF EnvThreadOK
    <3>2. \A n \in Attempts : ~Works(appThread[a][n])
      BY <3>1, TeardownFindsIdle
    <3>3. infra'[a] => infra[a]
      <4>1. ASSUME NEW b \in Apps, TeardownAppInfra(e, k, b) PROVE infra'[a] => infra[a]
        <5>1. infra' = [infra EXCEPT ![b] = FALSE] /\ infra \in [Apps -> BOOLEAN]
          BY <4>1 DEF TeardownAppInfra, TypeOK
        <5>2. CASE a = b
          BY <5>1, <5>2
        <5>3. CASE a # b
          BY <5>1, <5>3
        <5>4. QED  BY <5>2, <5>3
      <4>2. CASE UNCHANGED infra
        BY <4>2
      <4>3. QED
        BY <1>3, <4>1, <4>2 DEF EnvThreadStep, ProvisionLoad, ProvisionCreatesBase, ProvisionSucceeds,
           ProvisionFails, TeardownLoad, TeardownAppsDone, TeardownPurgeDone, TeardownBase,
           TeardownFails, EnvThreadDies, TeardownPurgeApp
    <3>4. data'[a] \subseteq data[a]
      <4>1. ASSUME NEW b, NEW left, data' = [data EXCEPT ![b] = left], left \subseteq data[b]
            PROVE  data'[a] \subseteq data[a]
        BY <4>1 DEF TypeOK
      <4>2. CASE \E b \in Apps : TeardownPurgeApp(e, k, b)
        BY <4>1, <4>2 DEF TeardownPurgeApp
      <4>3. CASE TeardownFails(e, k)
        BY <4>1, <4>3 DEF TeardownFails, PurgeFailureLeaves
      <4>4. CASE UNCHANGED data
        BY <4>4
      <4>5. QED
        BY <1>3, <4>2, <4>3, <4>4 DEF EnvThreadStep, ProvisionLoad, ProvisionCreatesBase, ProvisionSucceeds,
           ProvisionFails, TeardownLoad, TeardownAppsDone, TeardownPurgeDone, TeardownBase,
           EnvThreadDies, TeardownAppInfra
    <3>5. RowOK(a, app'[a], trail'[a], infra'[a], data'[a])
      <4>1. data[a] = {} => data'[a] = {}
        BY <3>4
      <4>2. QED  BY <1>1, <2>1, <3>3, <4>1 DEF RowOK
    <3>6. QED  BY <1>1, <2>1, <3>2, <3>5, QuietSound
  <2>4. QED  BY <2>2, <2>3
<1>4. QED  BY <1>2, <1>3

\* Every step of an environment's thread keeps every app sound.
LEMMA EnvThreadAppsSound ==
  ASSUME TypeOK, TypeOK', TeardownOwnsEnvironment, \A b \in Apps : AppSound(b),
         NEW e \in Envs, EnvSound(e), NEW k \in EnvThreads, EnvThreadStep(e, k)
  PROVE  \A b \in Apps : AppSound(b)'
<1>1. ASSUME NEW a \in Apps, EnvOf[a] = e PROVE AppSound(a)'
  BY <1>1, TeardownSound
<1>2. ASSUME NEW a \in Apps, EnvOf[a] # e PROVE AppSound(a)'
  <2>1. Untouched(a)
    BY <1>2, EnvThreadOwns DEF EnvThreadAdds, Untouched
  <2>2. QED  BY <2>1, UntouchedStaysSound
<1>3. QED  BY <1>1, <1>2

\* The thread itself: what it leaves behind at each point.
LEMMA EnvThreadStepSound ==
  ASSUME TypeOK, TypeOK', \A a \in Apps : AppSound(a), NEW e \in Envs, EnvSound(e),
         NEW k \in EnvThreads, EnvThreadStep(e, k)
  PROVE  EnvSound(e)'
<1> DEFINE t == envThread[e][k]
           u == envThread'[e][k]
<1>1. EnvThreadOK(e, k, t) /\ t \in EnvThread /\ u \in EnvThread /\ env[e] \in EnvRow
  BY EnvParts DEF TypeOK
<1>2. t.kind # "none"
  BY DEF EnvThreadStep, ProvisionLoad, ProvisionCreatesBase, ProvisionSucceeds, ProvisionFails,
     TeardownLoad, TeardownAppsDone, TeardownPurgeDone, TeardownBase, TeardownDeleteRecords,
     TeardownFails, EnvThreadDies, TeardownAppInfra, TeardownPurgeApp, EnvAt
<1>3. /\ env[e].status = IF t.kind = "provision" THEN "PROVISIONING" ELSE "TEARING_DOWN"
      /\ env[e].run = t.run
      /\ \A j \in EnvThreads \ {k} : envThread[e][j].kind = "none"
      /\ \A a \in t.todo \cup t.victims : EnvOf[a] = e
  BY <1>1, <1>2 DEF EnvThreadOK
<1>4. \A j \in EnvThreads \ {k} : envThread'[e][j] = envThread[e][j]
  BY DEF EnvThreadStep, ProvisionLoad, ProvisionCreatesBase, ProvisionSucceeds, ProvisionFails,
     TeardownLoad, TeardownAppsDone, TeardownPurgeDone, TeardownBase, TeardownDeleteRecords,
     TeardownFails, EnvThreadDies, TeardownAppInfra, TeardownPurgeApp, EnvGoTo, EnvFinish, TypeOK
<1>5. \A j \in EnvThreads : j # k => envThread'[e][j].kind = "none"
  BY <1>3, <1>4
\* It ends.
<1>6. ASSUME EnvFinish(e, k), env'[e].status = "READY" => base'[e] PROVE EnvSound(e)'
  <2>1. u = NoEnvThread
    BY <1>6 DEF EnvFinish, TypeOK
  <2>2. \A j \in EnvThreads :
          \/ envThread'[e][j] = NoEnvThread
          \/ envThread'[e][j] = envThread[e][j] /\ envThread[e][j].kind = "none"
    BY <1>3, <1>4, <2>1
  <2>3. QED  BY <1>6, <2>2, EnvIdleSound
\* It goes on.
<1>7. ASSUME EnvThreadOK(e, k, envThread[e][k])', env' = env PROVE EnvSound(e)'
  <2>1. env'[e].status # "READY"
    BY <1>3, <1>7
  <2>2. QED  BY <1>3, <1>4, <1>7, <2>1, EnvThreadSound
<1>8. CASE ProvisionLoad(e, k)
  <2>1. t.kind = "provision" /\ EnvGoTo(e, k, "running") /\ env' = env
    BY <1>3, <1>8 DEF ProvisionLoad, EnvAt
  <2>2. u = [t EXCEPT !.pc = "running"]
    BY <1>1, <2>1 DEF EnvGoTo, TypeOK
  <2>3. EnvThreadOK(e, k, envThread[e][k])'
    BY <1>1, <1>3, <1>5, <2>1, <2>2 DEF EnvThreadOK, EnvThread
  <2>4. QED  BY <1>7, <2>1, <2>3
<1>9. CASE ProvisionCreatesBase(e, k)
  <2>1. t.kind = "provision" /\ EnvGoTo(e, k, "built") /\ env' = env /\ base'[e] = TRUE
    BY <1>9 DEF ProvisionCreatesBase, EnvAt, TypeOK
  <2>2. u = [t EXCEPT !.pc = "built"]
    BY <1>1, <2>1 DEF EnvGoTo, TypeOK
  <2>3. EnvThreadOK(e, k, envThread[e][k])'
    BY <1>1, <1>3, <1>5, <2>1, <2>2 DEF EnvThreadOK, EnvThread
  <2>4. QED  BY <1>7, <2>1, <2>3
<1>10. CASE ProvisionSucceeds(e, k)
  <2>1. t.pc = "built" /\ base' = base /\ EnvFinish(e, k)
    BY <1>10 DEF ProvisionSucceeds, EnvAt
  <2>2. base[e]
    BY <1>1, <2>1 DEF EnvThreadOK
  <2>3. QED  BY <1>6, <2>1, <2>2
<1>11. CASE ProvisionFails(e, k)
  <2>1. t.kind = "provision" /\ SettleProvisioning(e, "ERROR") /\ EnvFinish(e, k)
    BY <1>11 DEF ProvisionFails, EnvAt
  <2>2. env'[e].status = "ERROR"
    BY <1>1, <1>3, <2>1 DEF SettleProvisioning, TypeOK, EnvRow
  <2>3. QED  BY <1>6, <2>1, <2>2
<1>12. CASE TeardownLoad(e, k)
  <2>1. t.kind = "teardown" /\ t.pc = "spawned" /\ UNCHANGED <<app, env, infra, data, base>>
        /\ u = [t EXCEPT !.pc = "apps", !.todo = {a \in AppsOf(e) : app[a].mayInfra}]
    BY <1>1, <1>3, <1>12 DEF TeardownLoad, EnvAt, TypeOK
  <2>2. /\ u.kind = t.kind /\ u.run = t.run /\ u.victims = t.victims /\ u.pc = "apps"
        /\ u.todo = {a \in AppsOf(e) : app[a].mayInfra}
    BY <1>1, <2>1 DEF EnvThread
  <2>3. \A a \in AppsOf(e) : EnvOf[a] = e /\ (infra[a] => app[a].mayInfra)
    BY DEF AppSound, RowOK, AppsOf
  <2>4. AppsOf(e)' = AppsOf(e)
    BY <2>1 DEF AppsOf, Present
  <2>5. EnvThreadOK(e, k, envThread[e][k])'
    <3>1. \A a \in u.todo \cup u.victims : EnvOf[a] = e
      BY <1>3, <2>2, <2>3
    <3>2. \A a \in AppsOf(e)' : infra'[a] => a \in u.todo
      BY <2>1, <2>2, <2>3, <2>4
    <3>3. QED  BY <1>3, <1>5, <2>1, <2>2, <3>1, <3>2 DEF EnvThreadOK
  <2>6. QED  BY <1>7, <2>1, <2>5
<1>13. CASE TeardownAppsDone(e, k)
  <2>1. /\ t.kind = "teardown" /\ t.pc = "apps" /\ t.todo = {}
        /\ UNCHANGED <<app, env, infra, data, base>>
        /\ u = IF e \in SandboxEnvs
               THEN [t EXCEPT !.pc = "purge", !.todo = AppsOf(e), !.victims = AppsOf(e)]
               ELSE [t EXCEPT !.pc = "base"]
    BY <1>1, <1>13 DEF TeardownAppsDone, EnvAt, TypeOK
  <2>2. /\ u.kind = t.kind /\ u.run = t.run
        /\ u.pc = IF e \in SandboxEnvs THEN "purge" ELSE "base"
        /\ e \in SandboxEnvs => u.todo = AppsOf(e) /\ u.victims = AppsOf(e)
        /\ e \notin SandboxEnvs => u.todo = t.todo /\ u.victims = t.victims
    BY <1>1, <2>1 DEF EnvThread
  <2>3. /\ \A a \in AppsOf(e) : EnvOf[a] = e /\ ~infra[a]
        /\ AppsOf(e)' = AppsOf(e)
    BY <1>1, <2>1 DEF EnvThreadOK, AppsOf, Present
  <2>4. EnvThreadOK(e, k, envThread[e][k])'
    <3>1. \A a \in u.todo \cup u.victims : EnvOf[a] = e
      BY <1>3, <2>2, <2>3
    <3>2. \A a \in AppsOf(e)' : ~infra'[a]
      BY <2>1, <2>3
    <3>3. QED  BY <1>3, <1>5, <2>1, <2>2, <3>1, <3>2 DEF EnvThreadOK
  <2>5. QED  BY <1>7, <2>1, <2>4
<1>14. CASE TeardownPurgeDone(e, k)
  <2>1. /\ t.kind = "teardown" /\ t.pc = "purge" /\ t.todo = {}
        /\ UNCHANGED <<app, env, infra, data, base>>
        /\ u = [t EXCEPT !.pc = "delete"]
    BY <1>1, <1>14 DEF TeardownPurgeDone, EnvGoTo, EnvAt, TypeOK
  <2>2. /\ u.kind = t.kind /\ u.run = t.run /\ u.pc = "delete"
        /\ u.todo = t.todo /\ u.victims = t.victims
    BY <1>1, <2>1 DEF EnvThread
  <2>3. /\ \A a \in AppsOf(e) : ~infra[a]
        /\ \A a \in t.victims : data[a] = {}
        /\ AppsOf(e)' = AppsOf(e)
    BY <1>1, <2>1 DEF EnvThreadOK, AppsOf, Present
  <2>4. EnvThreadOK(e, k, envThread[e][k])'
    BY <1>3, <1>5, <2>1, <2>2, <2>3 DEF EnvThreadOK
  <2>5. QED  BY <1>7, <2>1, <2>4
<1>15. CASE TeardownBase(e, k)
  <2>1. /\ t.kind = "teardown" /\ t.pc = "base"
        /\ UNCHANGED <<app, env, infra, data>>
        /\ u = [t EXCEPT !.pc = "delete"]
    BY <1>1, <1>15 DEF TeardownBase, EnvGoTo, EnvAt, TypeOK
  <2>2. /\ u.kind = t.kind /\ u.run = t.run /\ u.pc = "delete"
        /\ u.todo = t.todo /\ u.victims = t.victims
    BY <1>1, <2>1 DEF EnvThread
  <2>3. /\ \A a \in AppsOf(e) : ~infra[a]
        /\ e \notin SandboxEnvs
        /\ AppsOf(e)' = AppsOf(e)
    BY <1>1, <2>1 DEF EnvThreadOK, AppsOf, Present
  <2>4. EnvThreadOK(e, k, envThread[e][k])'
    BY <1>3, <1>5, <2>1, <2>2, <2>3 DEF EnvThreadOK
  <2>5. QED  BY <1>7, <2>1, <2>4
<1>16. CASE TeardownDeleteRecords(e, k)
  <2>1. EnvFinish(e, k) /\ env'[e].status = "DELETED"
    BY <1>16 DEF TeardownDeleteRecords, TypeOK
  <2>2. QED  BY <1>6, <2>1
<1>17. CASE TeardownFails(e, k)
  <2>1. t.kind = "teardown" /\ EnvFinish(e, k)
    BY <1>17 DEF TeardownFails
  <2>2. env'[e].status = "ERROR"
    BY <1>1, <1>3, <1>17, <2>1 DEF TeardownFails, Exists, TypeOK, EnvRow
  <2>3. QED  BY <1>6, <2>1, <2>2
<1>18. CASE EnvThreadDies(e, k)
  <2>1. EnvFinish(e, k) /\ env' = env /\ base' = base
    BY <1>18 DEF EnvThreadDies
  <2>2. QED  BY <1>3, <1>6, <2>1
<1>19. ASSUME NEW a \in Apps, TeardownAppInfra(e, k, a) PROVE EnvSound(e)'
  <2>1. /\ t.kind = "teardown" /\ t.pc = "apps" /\ UNCHANGED <<app, env, data, base>>
        /\ infra' = [infra EXCEPT ![a] = FALSE]
        /\ u = [t EXCEPT !.todo = t.todo \ {a}]
    BY <1>1, <1>19 DEF TeardownAppInfra, EnvAt, TypeOK
  <2>2. /\ u.kind = t.kind /\ u.run = t.run /\ u.pc = "apps"
        /\ u.todo = t.todo \ {a} /\ u.victims = t.victims
    BY <1>1, <2>1 DEF EnvThread
  <2>3. /\ \A b \in AppsOf(e) : infra[b] => b \in t.todo
        /\ AppsOf(e)' = AppsOf(e)
    BY <1>1, <2>1 DEF EnvThreadOK, AppsOf, Present
  <2>4. \A b \in AppsOf(e) : infra'[b] => b \in u.todo
    BY <2>1, <2>2, <2>3 DEF TypeOK, AppsOf
  <2>5. EnvThreadOK(e, k, envThread[e][k])'
    BY <1>3, <1>5, <2>1, <2>2, <2>3, <2>4 DEF EnvThreadOK
  <2>6. QED  BY <1>7, <2>1, <2>5
<1>20. ASSUME NEW a \in Apps, TeardownPurgeApp(e, k, a) PROVE EnvSound(e)'
  <2>1. /\ t.kind = "teardown" /\ t.pc = "purge" /\ UNCHANGED <<app, env, infra, base>>
        /\ data' = [data EXCEPT ![a] = {}]
        /\ u = [t EXCEPT !.todo = t.todo \ {a}]
    BY <1>1, <1>20 DEF TeardownPurgeApp, EnvAt, TypeOK
  <2>2. /\ u.kind = t.kind /\ u.run = t.run /\ u.pc = "purge"
        /\ u.todo = t.todo \ {a} /\ u.victims = t.victims
    BY <1>1, <2>1 DEF EnvThread
  <2>3. /\ \A b \in AppsOf(e) : ~infra[b]
        /\ e \in SandboxEnvs
        /\ \A b \in t.victims : data[b] = {} \/ b \in t.todo
        /\ AppsOf(e)' = AppsOf(e)
    BY <1>1, <2>1 DEF EnvThreadOK, AppsOf, Present
  <2>4. \A b \in u.victims : data'[b] = {} \/ b \in u.todo
    <3>1. t.victims \subseteq Apps
      BY <1>1 DEF EnvThread
    <3>2. QED  BY <2>1, <2>2, <2>3, <3>1 DEF TypeOK
  <2>5. EnvThreadOK(e, k, envThread[e][k])'
    BY <1>3, <1>5, <2>1, <2>2, <2>3, <2>4 DEF EnvThreadOK
  <2>6. QED  BY <1>7, <2>1, <2>5
<1>21. QED
  BY <1>8, <1>9, <1>10, <1>11, <1>12, <1>13, <1>14, <1>15, <1>16, <1>17, <1>18, <1>19, <1>20
     DEF EnvThreadStep

\* The other environments keep theirs.
LEMMA EnvThreadEnvsSound ==
  ASSUME TypeOK, TypeOK', \A a \in Apps : AppSound(a), \A f \in Envs : EnvSound(f),
         NEW e \in Envs, NEW k \in EnvThreads, EnvThreadStep(e, k)
  PROVE  \A f \in Envs : EnvSound(f)'
<1>1. EnvSound(e)'
  BY EnvThreadStepSound
<1>2. ASSUME NEW f \in Envs \ {e} PROVE EnvSound(f)'
  <2>1. EnvThreadAdds(e)
    BY EnvThreadOwns
  <2>2. \A a \in Apps : EnvOf[a] = f => app'[a] = app[a] /\ infra'[a] = infra[a] /\ data'[a] = data[a]
    BY <2>1 DEF EnvThreadAdds
  <2>3. QED  BY <2>1, <2>2, EnvSoundKept DEF EnvThreadAdds, Present
<1>3. QED  BY <1>1, <1>2

\* Threads live in workers that beat, as long as no worker stalls.
LEMMA WorkerStepBeats ==
  ASSUME Calm, TypeOK, WorkersBeat, NEW r \in Runs, WorkerStep(r)
  PROVE  WorkersBeat'
<1>1. CASE StartWorker(r)
  <2>1. /\ run[r] # "fresh" /\ run' = [run EXCEPT ![r] = "fresh"]
        /\ appThread' = appThread /\ envThread' = envThread
    BY <1>1 DEF StartWorker, Alive
  <2>2. \A s : run[s] = "fresh" => run'[s] = "fresh"
    BY <2>1 DEF TypeOK
  <2>3. \A s \in Runs : run'[s] # "late"
    BY <2>1 DEF WorkersBeat, TypeOK
  <2>4. QED  BY <2>1, <2>2, <2>3 DEF WorkersBeat
<1>2. CASE BeatWorkerRun(r)
  BY <1>2 DEF BeatWorkerRun, WorkersBeat
<1>3. CASE HeartbeatExpires(r)
  <2>1. /\ run[r] = "crashed" /\ run' = [run EXCEPT ![r] = "expired"]
        /\ appThread' = appThread /\ envThread' = envThread
    BY <1>3 DEF HeartbeatExpires, Calm
  <2>2. \A s : run[s] = "fresh" => run'[s] = "fresh"
    BY <2>1 DEF TypeOK
  <2>3. \A s \in Runs : run'[s] # "late"
    BY <2>1 DEF WorkersBeat, TypeOK
  <2>4. QED  BY <2>1, <2>2, <2>3 DEF WorkersBeat
<1>4. CASE WorkerDies(r)
  <2>1. /\ \A s \in Runs \ {r} : run'[s] = run[s]
        /\ run'[r] # "late"
    BY <1>4 DEF WorkerDies, TypeOK
  <2>2. \A a \in Apps, n \in Attempts : appThread'[a][n].kind # "none" =>
          appThread'[a][n] = appThread[a][n] /\ appThread[a][n].run # r
    BY <1>4 DEF WorkerDies, NoThread
  <2>3. \A e \in Envs, k \in EnvThreads : envThread'[e][k].kind # "none" =>
          envThread'[e][k] = envThread[e][k] /\ envThread[e][k].run # r
    BY <1>4 DEF WorkerDies, NoEnvThread
  <2>4. \A s : s # r /\ run[s] = "fresh" => run'[s] = "fresh"
    BY <1>4 DEF WorkerDies, TypeOK
  <2>5. QED  BY <2>1, <2>2, <2>3, <2>4 DEF WorkersBeat
<1>5. CASE PruneWorkerRun(r)
  <2>1. /\ run[r] = "expired" /\ run' = [run EXCEPT ![r] = "none"]
        /\ appThread' = appThread /\ envThread' = envThread
    BY <1>5 DEF PruneWorkerRun
  <2>2. \A s : run[s] = "fresh" => run'[s] = "fresh"
    BY <2>1 DEF TypeOK
  <2>3. \A s \in Runs : run'[s] # "late"
    BY <2>1 DEF WorkersBeat, TypeOK
  <2>4. QED  BY <2>1, <2>2, <2>3 DEF WorkersBeat
<1>6. ASSUME NEW a \in Apps, ClaimDeploy(r, a) \/ ClaimRemoval(r, a) PROVE WorkersBeat'
  <2>1. /\ run[r] = "fresh" /\ run' = run /\ envThread' = envThread
        /\ \E kind : appThread' = [appThread EXCEPT ![a][app[a].att] = Spawned(kind, r)]
    BY <1>6 DEF ClaimDeploy, ClaimRemoval, Alive, WorkersBeat
  <2>2. \A b \in Apps, n \in Attempts :
          appThread'[b][n] = appThread[b][n] \/ appThread'[b][n].run = r
    BY <2>1 DEF Spawned, NoThread, TypeOK
  <2>3. QED  BY <2>1, <2>2 DEF WorkersBeat
<1>7. ASSUME NEW e \in Envs, ClaimProvisioning(r, e) \/ ClaimEnvironmentTeardown(r, e) PROVE WorkersBeat'
  <2>1. /\ run[r] = "fresh" /\ run' = run /\ appThread' = appThread
        /\ \E kind, k : envThread' = [envThread EXCEPT ![e][k] =
                           [NoEnvThread EXCEPT !.kind = kind, !.pc = "spawned", !.run = r]]
    BY <1>7 DEF ClaimProvisioning, ClaimEnvironmentTeardown, Claim, Alive, WorkersBeat
  <2>2. \A f \in Envs, k \in EnvThreads :
          envThread'[f][k] = envThread[f][k] \/ envThread'[f][k].run = r
    BY <2>1 DEF NoEnvThread, TypeOK
  <2>3. QED  BY <2>1, <2>2 DEF WorkersBeat
<1>8. QED  BY <1>1, <1>2, <1>3, <1>4, <1>5, <1>6, <1>7 DEF WorkerStep

\* Admissions, threads and the reaper leave the workers beating.
LEMMA OtherStepsBeat ==
  ASSUME TypeOK, WorkersBeat,
         \/ \E a \in Apps : AppAdmission(a) \/ \E n \in Attempts : AppThreadStep(a, n)
         \/ \E e \in Envs : EnvAdmission(e) \/ \E k \in EnvThreads : EnvThreadStep(e, k)
         \/ ReaperStep
  PROVE  WorkersBeat'
<1>1. CASE \E a \in Apps, n \in Attempts : AppThreadStep(a, n)
  BY <1>1, AppThreadStays DEF Stays, WorkersBeat
<1>2. CASE \E e \in Envs, k \in EnvThreads : EnvThreadStep(e, k)
  BY <1>2, EnvThreadStays DEF Stays, WorkersBeat
<1>3. CASE UNCHANGED <<run, appThread, envThread>>
  BY <1>3 DEF WorkersBeat
<1>4. ASSUME \/ \E a \in Apps : AppAdmission(a)
             \/ \E e \in Envs : EnvAdmission(e)
             \/ ReaperStep
      PROVE  UNCHANGED <<run, appThread, envThread>>
  BY <1>4 DEF AppAdmission, DeployFromTemplate, QueueDeploy, QueueRemoval, NoThreadStep, EnvAdmission,
     EnvironmentRetry, RedeployEnvironment, QueueTeardown, NoJobStep, ReaperStep, ReapDeadWorkerApps,
     ReapDeadWorkerEnvironments, ReapUntouchedApp, ReapUntouchedEnvironment
<1>5. QED  BY <1>1, <1>2, <1>3, <1>4

-----------------------------------------------------------------------------
(* The invariant is inductive. *)

\* It holds when the system starts.
LEMMA JobsInit == Init => JobsIInv
<1> SUFFICES ASSUME Init PROVE JobsIInv
  OBVIOUS
<1>1. TypeOK
  BY InitType
<1>2. TeardownOwnsEnvironment
  BY DEF Init, TeardownOwnsEnvironment, TeardownStatuses
<1>3. WorkersBeat
  BY DEF Init, WorkersBeat, NoThread, NoEnvThread
<1>4. ASSUME NEW a \in Apps PROVE AppSound(a)
  <2>1. app[a] = NewApp /\ infra[a] = FALSE /\ data[a] = {} /\ trail[a] = [n \in Attempts |-> <<>>]
    BY DEF Init
  <2>2. NewApp.job = "NO_ROW" /\ NewApp.att = 0
    BY DEF NewApp
  <2>3. RowOK(a, app[a], trail[a], infra[a], data[a])
    BY <2>1, <2>2 DEF RowOK, JobStatus, Opens
  <2>4. \A n \in Attempts : appThread[a][n] = NoThread
    BY DEF Init
  <2>5. QED  BY <2>3, <2>4, ThreadEnds DEF AppSound
<1>5. ASSUME NEW e \in Envs PROVE EnvSound(e)
  <2>1. env[e].status = "READY" => base[e]
    BY DEF Init
  <2>2. \A k \in EnvThreads : EnvThreadOK(e, k, envThread[e][k])
    BY DEF Init, EnvThreadOK, NoEnvThread
  <2>3. QED  BY <2>1, <2>2 DEF EnvSound
<1>6. QED  BY <1>1, <1>2, <1>3, <1>4, <1>5 DEF JobsIInv

\* The steps of workers keep apps and environments sound.
LEMMA WorkerStepSound ==
  ASSUME Calm, TypeOK, TypeOK', WorkersBeat, \A a \in Apps : AppSound(a), \A e \in Envs : EnvSound(e),
         NEW r \in Runs, WorkerStep(r)
  PROVE  (\A a \in Apps : AppSound(a)') /\ (\A e \in Envs : EnvSound(e)')
<1>1. CASE StartWorker(r) \/ BeatWorkerRun(r) \/ HeartbeatExpires(r)
  <2>1. UNCHANGED <<app, env, appThread, envThread, trail, infra, data, base>>
    BY <1>1 DEF StartWorker, BeatWorkerRun, HeartbeatExpires
  <2>2. QED  BY <2>1, UntouchedStaysSound, EnvSoundKept DEF Untouched, Present
<1>2. CASE WorkerDies(r)
  BY <1>2, WorkerDiesSound, WorkerDiesEnvSound
<1>3. CASE PruneWorkerRun(r)
  BY <1>3, PruneSound, PruneEnvSound
<1>4. ASSUME NEW a \in Apps, ClaimDeploy(r, a) \/ ClaimRemoval(r, a)
      PROVE  (\A b \in Apps : AppSound(b)') /\ (\A e \in Envs : EnvSound(e)')
  BY <1>4, ClaimSound, AppClaimEnvSound
<1>5. ASSUME NEW e \in Envs, ClaimProvisioning(r, e) \/ ClaimEnvironmentTeardown(r, e)
      PROVE  (\A b \in Apps : AppSound(b)') /\ (\A f \in Envs : EnvSound(f)')
  <2>1. UNCHANGED <<app, appThread, trail, infra, data>>
    BY <1>5 DEF ClaimProvisioning, ClaimEnvironmentTeardown
  <2>2. QED  BY <1>5, <2>1, UntouchedStaysSound, EnvClaimEnvSound DEF Untouched
<1>6. QED  BY <1>1, <1>2, <1>3, <1>4, <1>5 DEF WorkerStep

\* Every calm step keeps it.
LEMMA JobsNext ==
  ASSUME Calm, JobsIInv, [Next]_vars
  PROVE  JobsIInv'
<1>1. /\ TypeOK /\ TypeOK' /\ WorkersBeat /\ TeardownOwnsEnvironment /\ TeardownOwnsEnvironment'
      /\ \A a \in Apps : AppSound(a)
      /\ \A e \in Envs : EnvSound(e)
  BY NextType, ExclusionStep DEF JobsIInv
<1> DEFINE Sound == (\A a \in Apps : AppSound(a)') /\ (\A e \in Envs : EnvSound(e)')
<1>2. CASE UNCHANGED vars
  <2>1. Sound
    BY <1>1, <1>2, UntouchedStaysSound, EnvSoundKept DEF vars, Untouched, Present
  <2>2. WorkersBeat'
    BY <1>1, <1>2 DEF vars, WorkersBeat
  <2>3. QED  BY <1>1, <2>1, <2>2 DEF JobsIInv
<1>3. ASSUME NEW a \in Apps, AppAdmission(a) PROVE Sound /\ WorkersBeat'
  BY <1>1, <1>3, AdmissionSound, AdmissionEnvSound, OtherStepsBeat
<1>4. ASSUME NEW e \in Envs, EnvAdmission(e) PROVE Sound /\ WorkersBeat'
  <2>1. UNCHANGED <<app, appThread, trail, infra, data>>
    BY <1>4 DEF EnvAdmission, EnvironmentRetry, RedeployEnvironment, QueueTeardown, NoJobStep
  <2>2. QED
    BY <1>1, <1>4, <2>1, UntouchedStaysSound, EnvAdmissionEnvSound, OtherStepsBeat DEF Untouched
<1>5. ASSUME NEW r \in Runs, WorkerStep(r) PROVE Sound /\ WorkersBeat'
  BY <1>1, <1>5, WorkerStepSound, WorkerStepBeats
<1>6. ASSUME NEW a \in Apps, NEW n \in Attempts, AppThreadStep(a, n) PROVE Sound /\ WorkersBeat'
  BY <1>1, <1>6, AppThreadSound, AppThreadEnvSound, OtherStepsBeat
<1>7. ASSUME NEW e \in Envs, NEW k \in EnvThreads, EnvThreadStep(e, k) PROVE Sound /\ WorkersBeat'
  BY <1>1, <1>7, EnvThreadAppsSound, EnvThreadEnvsSound, OtherStepsBeat
<1>8. ASSUME ReaperStep PROVE Sound /\ WorkersBeat'
  BY <1>1, <1>8, ReaperSound, ReaperEnvSound, OtherStepsBeat
<1>9. ~FailUnsettledDeployments
  BY DEF FailUnsettledDeployments, Calm
<1>10. CASE Next
  <2>1. Sound /\ WorkersBeat'
    BY <1>3, <1>4, <1>5, <1>6, <1>7, <1>8, <1>9, <1>10 DEF Next
  <2>2. QED  BY <1>1, <2>1 DEF JobsIInv
<1>11. QED  BY <1>2, <1>10

\* Rows, records, threads and stacks agree in every reachable state, as long as no row
\* is settled under a thread at work.
THEOREM JobsInvariant ==
  ASSUME Calm
  PROVE  Spec => []JobsIInv
<1>1. JobsIInv /\ [Next]_vars => JobsIInv'
  BY JobsNext
<1>2. QED  BY <1>1, JobsInit, PTL DEF Spec

\* What the rows say of AWS is true: no stack without a row that owns up to it, no READY
\* environment without its base, nothing left of a deleted sandbox app.
THEOREM RowsTellTruth ==
  ASSUME Calm
  PROVE  Spec => []RowsTellTheInfra
<1>1. JobsIInv => RowsTellTheInfra
  <2> SUFFICES ASSUME JobsIInv PROVE RowsTellTheInfra
    OBVIOUS
  <2>1. \A a \in Apps : RowOK(a, app[a], trail[a], infra[a], data[a])
    BY DEF JobsIInv, AppSound
  <2>2. NoOrphanInfra
    BY <2>1 DEF NoOrphanInfra, RowOK, Present
  <2>3. NoInheritedData
    BY <2>1 DEF NoInheritedData, RowOK
  <2>4. ReadyHasBase
    BY DEF JobsIInv, EnvSound, ReadyHasBase
  <2>5. QED  BY <2>2, <2>3, <2>4 DEF RowsTellTheInfra
<1>2. QED  BY <1>1, JobsInvariant, PTL

\* An attempt has one thread at most, leaves one result at most, returns the slot it
\* took, and no deploy follows a removal.
THEOREM SoundAttempts ==
  ASSUME Calm
  PROVE  Spec => []AttemptsAreSound
<1>1. JobsIInv => OneThreadPerApp /\ SettledAtMostOnce /\ RemovalIsFinal
  <2> SUFFICES ASSUME JobsIInv PROVE OneThreadPerApp /\ SettledAtMostOnce /\ RemovalIsFinal
    OBVIOUS
  <2>1. \A a \in Apps : /\ RowOK(a, app[a], trail[a], infra[a], data[a])
                        /\ \A n \in Attempts : ThreadOK(n, app[a], appThread[a][n], trail[a][n], infra[a], data[a])
    BY DEF JobsIInv, AppSound
  <2>2. OneThreadPerApp
    BY <2>1 DEF OneThreadPerApp, WorksFor, ThreadOK, Works, Doing
  <2>3. SettledAtMostOnce
    BY <2>1 DEF SettledAtMostOnce, RowOK
  <2>4. RemovalIsFinal
    BY <2>1 DEF RemovalIsFinal, RowOK, Opened, Opens
  <2>5. QED  BY <2>2, <2>3, <2>4
<1>2. SlotsConserved /\ JobsIInv => AttemptsAreSound
  BY <1>1 DEF AttemptsAreSound
<1>3. QED  BY <1>2, JobsInvariant, SlotsAreConserved, PTL

-----------------------------------------------------------------------------
(* The refinement: attempts and teardowns own what they work on. *)

Busy == {a \in Apps : Present(a) /\ app[a].job # "IDLE"}
Closing == {e \in Envs : env[e].status \in TeardownStatuses}
Gone == {a \in Apps : app[a].job = "DELETED"}
OwnStep == [Ownership!Next]_(Ownership!ownVars)

\* Steps that keep the four sets are stuttering steps of the ownership specification.
LEMMA OwnStutters ==
  ASSUME Busy' = Busy, Closing' = Closing, infra' = infra, Gone' = Gone
  PROVE  OwnStep
BY DEF OwnStep, Ownership!ownVars, Busy, Closing, Gone

\* Attempts conclude: Close.
LEMMA OwnCloses ==
  ASSUME Busy' \subseteq Busy, Closing' = Closing, infra' = infra, Gone' = Gone
  PROVE  OwnStep
BY DEF OwnStep, Ownership!Next, Ownership!Close, Busy, Closing, Gone

\* An attempt opens on an app that is free: Open.
LEMMA OwnOpens ==
  ASSUME NEW a \in Apps, a \notin Busy \cup Gone, EnvOf[a] \notin Closing,
         Busy' = Busy \cup {a}, Closing' = Closing, infra' = infra, Gone' = Gone
  PROVE  OwnStep
BY DEF OwnStep, Ownership!Next, Ownership!Open, Busy, Closing, Gone

\* A teardown begins on an environment without open attempts: BeginTeardown.
LEMMA OwnBegins ==
  ASSUME NEW e \in Envs, \A a \in Busy : EnvOf[a] # e,
         Busy' = Busy, Closing' = Closing \cup {e}, infra' = infra, Gone' = Gone
  PROVE  OwnStep
BY DEF OwnStep, Ownership!Next, Ownership!BeginTeardown, Busy, Closing, Gone

\* Teardowns end: EndTeardown.
LEMMA OwnEnds ==
  ASSUME Busy' = Busy, Closing' \subseteq Closing, infra' = infra, Gone' = Gone
  PROVE  OwnStep
BY DEF OwnStep, Ownership!Next, Ownership!EndTeardown, Busy, Closing, Gone

\* The owner works on the stack: Work.
LEMMA OwnWorks ==
  ASSUME TypeOK, NEW a \in Apps, a \in Busy \/ EnvOf[a] \in Closing, NEW there \in BOOLEAN,
         Busy' = Busy, Closing' = Closing, infra' = [infra EXCEPT ![a] = there], Gone' = Gone
  PROVE  OwnStep
<1>1. infra \in [Apps -> BOOLEAN]
  BY DEF TypeOK
<1>2. infra' \in [Apps -> BOOLEAN] /\ \A b \in Apps \ {a} : infra'[b] = infra[b]
  BY <1>1
<1>3. QED  BY <1>2 DEF OwnStep, Ownership!Next, Ownership!Work, Busy, Closing, Gone

\* The owner forgets apps without a stack: Forget.
LEMMA OwnForgets ==
  ASSUME NEW S \in SUBSET Apps, \A a \in S \ Gone : ~infra[a] /\ (a \in Busy \/ EnvOf[a] \in Closing),
         Busy' = Busy \ Gone', Closing' \subseteq Closing, infra' = infra, Gone' = Gone \cup S
  PROVE  OwnStep
<1>1. Gone \subseteq Gone' /\ Gone' \subseteq Apps
  BY DEF Gone
<1>2. \A a \in Gone' \ Gone : ~infra[a] /\ (a \in Busy \/ EnvOf[a] \in Closing)
  OBVIOUS
<1> USE DEF Busy, Closing, Gone
<1>3. QED  BY <1>1, <1>2 DEF OwnStep, Ownership!Next, Ownership!Forget

\* Rows that settle leave the open attempts, and none is deleted.
LEMMA SettlingCloses ==
  ASSUME \A a \in Apps : RowConcludes(a), env' = env, infra' = infra
  PROVE  OwnStep
<1>1. Busy' \subseteq Busy /\ Gone' = Gone
  BY DEF RowConcludes, Busy, Gone, Present, JobStatus
<1>2. Closing' = Closing
  BY DEF Closing
<1>3. QED  BY <1>1, <1>2, OwnCloses

\* Rows that keep their job keep the open attempts.
LEMMA RowsKeptSets ==
  ASSUME \A a \in Apps : app'[a].job = app[a].job
  PROVE  Busy' = Busy /\ Gone' = Gone
BY DEF Busy, Gone, Present

\* Admissions open attempts.
LEMMA AdmissionOwns ==
  ASSUME JobsIInv, NEW a \in Apps, AppAdmission(a)
  PROVE  OwnStep
<1>1. TypeOK /\ app[a] \in AppRow /\ app \in [Apps -> AppRow] /\ EnvOf[a] \in Envs
  BY AppsAssumption DEF JobsIInv, TypeOK
<1>2. app[a].job \in {"NO_ROW", "IDLE"} /\ EnvReady(a) /\ env' = env /\ infra' = infra
  BY DEF AppAdmission, DeployFromTemplate, QueueDeploy, QueueRemoval, NoThreadStep, RequireIdle,
     LockAppForAdmission
<1>3. /\ \A b \in Apps \ {a} : app'[b] = app[b]
      /\ app'[a].job \in {"DEPLOY_PENDING", "REMOVAL_PENDING"}
  <2>1. ASSUME NEW row \in AppRow, NEW job \in {"DEPLOY_PENDING", "REMOVAL_PENDING"}, NEW ev,
               OpenAttempt(a, row, job, ev)
        PROVE  (\A b \in Apps \ {a} : app'[b] = app[b]) /\ app'[a].job = job
    BY <1>1, <2>1 DEF OpenAttempt, AppRow
  <2>2. \A l \in Labels : [app[a] EXCEPT !.label = l] \in AppRow
    BY <1>1 DEF AppRow
  <2>3. app[a].label \in Labels /\ Unscoped \in Labels
    BY <1>1, RunsAssumption DEF AppRow
  <2>4. CASE DeployFromTemplate(a)
    BY <2>1, <2>2, <2>4 DEF DeployFromTemplate
  <2>5. CASE QueueDeploy(a)
    BY <1>1, <2>1, <2>5 DEF QueueDeploy
  <2>6. CASE QueueRemoval(a)
    <3>1. PICK l \in Labels :
            OpenAttempt(a, [app[a] EXCEPT !.label = l], "REMOVAL_PENDING", "REMOVAL_STARTED")
      BY <2>3, <2>6 DEF QueueRemoval
    <3>2. QED  BY <2>1, <2>2, <3>1
  <2>7. QED  BY <2>4, <2>5, <2>6 DEF AppAdmission
<1>4. a \notin Busy \cup Gone /\ Busy' = Busy \cup {a} /\ Gone' = Gone
  BY <1>2, <1>3 DEF Busy, Gone, Present, JobStatus
<1>5. EnvOf[a] \notin Closing /\ Closing' = Closing
  BY <1>2 DEF EnvReady, Closing, TeardownStatuses
<1>6. QED  BY <1>2, <1>4, <1>5, OwnOpens

\* A thread works for an open attempt, settles it, or forgets the app.
LEMMA AppThreadOwnsStep ==
  ASSUME JobsIInv, NEW a \in Apps, NEW n \in Attempts, AppThreadStep(a, n)
  PROVE  OwnStep
<1>1. TypeOK /\ ThreadOK(n, app[a], appThread[a][n], trail[a][n], infra[a], data[a])
  BY DEF JobsIInv, AppSound
<1>2. Works(appThread[a][n]) => a \in Busy
  BY <1>1 DEF ThreadOK, Busy, Doing, Present, JobStatus
<1>3. ASSUME NEW there \in BOOLEAN, infra' = [infra EXCEPT ![a] = there], app' = app, env' = env,
             Works(appThread[a][n])
      PROVE  OwnStep
  <2>1. Busy' = Busy /\ Gone' = Gone /\ Closing' = Closing
    BY <1>3 DEF Busy, Gone, Closing, Present
  <2>2. QED  BY <1>1, <1>2, <1>3, <2>1, OwnWorks
<1>4. CASE DeployCreatesInfra(a, n)
  BY <1>3, <1>4 DEF DeployCreatesInfra, At, Works
<1>5. CASE RemovalTeardown(a, n)
  BY <1>3, <1>5 DEF RemovalTeardown, At, Works
<1>6. CASE RemovalDelete(a, n)
  <2>1. ~infra[a] /\ a \in Busy
    BY <1>1, <1>2, <1>6 DEF RemovalDelete, At, ThreadOK, Works
  <2>2. /\ \A b \in Apps \ {a} : app'[b] = app[b]
        /\ app'[a].job = "DELETED" /\ env' = env /\ infra' = infra
    BY <1>6 DEF RemovalDelete, DeleteRows, NewApp
  <2>3. Gone' = Gone \cup {a} /\ Busy' = Busy \ Gone' /\ Closing' = Closing
    BY <2>2 DEF Gone, Busy, Closing, Present, JobStatus
  <2>4. QED  BY <2>1, <2>2, <2>3, OwnForgets
<1>7. CASE /\ ~DeployCreatesInfra(a, n) /\ ~RemovalTeardown(a, n) /\ ~RemovalDelete(a, n)
  <2>1. \A b \in Apps : RowConcludes(b)
    BY <1>1, <1>7, ThreadStepKeepsRows
  <2>2. env' = env /\ infra' = infra
    BY <1>7 DEF AppThreadStep, DeployLoad, DeploySettleSuccess, DeploySettleFailure, DeployThreadDies,
       DeployRecordFails, WriteRecord, RemovalLoad, RemovalClearsOutputs, RemovalPurge,
       RemovalPurgeFails, RemovalSettleFailure, RemovalRaises
  <2>3. QED  BY <2>1, <2>2, SettlingCloses
<1>8. QED  BY <1>4, <1>5, <1>6, <1>7

\* A teardown's thread works on its environment's apps and then forgets them.
LEMMA EnvThreadOwnsStep ==
  ASSUME JobsIInv, NEW e \in Envs, NEW k \in EnvThreads, EnvThreadStep(e, k)
  PROVE  OwnStep
<1> DEFINE t == envThread[e][k]
<1>1. TypeOK /\ EnvThreadOK(e, k, t) /\ env[e] \in EnvRow /\ env \in [Envs -> EnvRow]
  BY DEF JobsIInv, EnvSound, TypeOK
<1>2. t.kind = "teardown" => e \in Closing
  BY <1>1 DEF EnvThreadOK, Closing, TeardownStatuses
<1>3. ASSUME NEW a \in Apps, TeardownAppInfra(e, k, a) PROVE OwnStep
  <2>1. EnvOf[a] \in Closing
    BY <1>1, <1>2, <1>3 DEF TeardownAppInfra, EnvAt, EnvThreadOK
  <2>2. infra' = [infra EXCEPT ![a] = FALSE] /\ UNCHANGED <<app, env>>
    BY <1>3 DEF TeardownAppInfra
  <2>3. Busy' = Busy /\ Closing' = Closing /\ Gone' = Gone
    BY <2>2 DEF Busy, Closing, Gone, Present
  <2>4. QED  BY <1>1, <2>1, <2>2, <2>3, OwnWorks
<1>4. CASE TeardownDeleteRecords(e, k)
  <2> DEFINE doomed == IF e \in SandboxEnvs THEN t.victims ELSE AppsOf(e)
  <2>1. /\ t.kind = "teardown" /\ t.pc = "delete" /\ infra' = infra
        /\ app' = [a \in Apps |-> IF a \in doomed THEN [NewApp EXCEPT !.job = "DELETED"] ELSE app[a]]
        /\ env' = [env EXCEPT ![e] = [status |-> "DELETED", run |-> NoRun]]
    BY <1>4 DEF TeardownDeleteRecords, EnvAt, DeleteRows
  <2>2. doomed \subseteq Apps /\ \A a \in doomed : EnvOf[a] = e
    BY <1>1 DEF EnvThreadOK, AppsOf, TypeOK, EnvThread
  <2>3. \A a \in AppsOf(e) : ~infra[a]
    BY <1>1, <2>1 DEF EnvThreadOK
  <2>4. \A a \in Apps : infra[a] => Present(a)
    BY DEF JobsIInv, AppSound, RowOK, Present
  <2>5. \A a \in doomed : ~infra[a] /\ EnvOf[a] \in Closing
    BY <1>2, <2>1, <2>2, <2>3, <2>4 DEF AppsOf
  <2> HIDE DEF doomed
  <2>6. \A a \in Apps : IF a \in doomed THEN app'[a].job = "DELETED" ELSE app'[a] = app[a]
    BY <2>1 DEF NewApp
  <2>7. Gone' = Gone \cup doomed /\ Busy' = Busy \ Gone'
    BY <2>2, <2>6 DEF Gone, Busy, Present, JobStatus
  <2>8. Closing' \subseteq Closing
    BY <1>1, <2>1 DEF Closing, TeardownStatuses
  <2>9. QED  BY <2>1, <2>2, <2>5, <2>7, <2>8, OwnForgets
<1>5. ASSUME app' = app, infra' = infra,
             \A f \in Envs : env'[f].status = env[f].status \/ env'[f].status \notin TeardownStatuses
      PROVE  OwnStep
  <2>1. Busy' = Busy /\ Gone' = Gone /\ Closing' \subseteq Closing
    BY <1>5 DEF Busy, Gone, Closing, Present
  <2>2. QED  BY <1>5, <2>1, OwnEnds
<1>6. CASE ProvisionSucceeds(e, k) \/ ProvisionFails(e, k) \/ TeardownFails(e, k)
  <2>1. \/ UNCHANGED env
        \/ \E new \in {"READY", "ERROR"} : env' = [env EXCEPT ![e].status = new]
    BY <1>6 DEF ProvisionSucceeds, ProvisionFails, TeardownFails, SettleProvisioning
  <2>2. \A f \in Envs : env'[f].status = env[f].status \/ env'[f].status \notin TeardownStatuses
    BY <1>1, <2>1 DEF EnvRow, TeardownStatuses
  <2>3. app' = app /\ infra' = infra
    BY <1>6 DEF ProvisionSucceeds, ProvisionFails, TeardownFails
  <2>4. QED  BY <1>5, <2>2, <2>3
<1>7. CASE \/ ProvisionLoad(e, k) \/ ProvisionCreatesBase(e, k) \/ TeardownLoad(e, k)
           \/ TeardownAppsDone(e, k) \/ TeardownPurgeDone(e, k) \/ TeardownBase(e, k)
           \/ EnvThreadDies(e, k) \/ \E a \in Apps : TeardownPurgeApp(e, k, a)
  <2>1. UNCHANGED <<app, env, infra>>
    BY <1>7 DEF ProvisionLoad, ProvisionCreatesBase, TeardownLoad, TeardownAppsDone,
       TeardownPurgeDone, TeardownBase, EnvThreadDies, TeardownPurgeApp
  <2>2. QED  BY <1>5, <2>1
<1>8. QED  BY <1>3, <1>4, <1>6, <1>7 DEF EnvThreadStep

\* The claims, beats and deaths of workers move no ownership.
LEMMA WorkerOwnsNothing ==
  ASSUME JobsIInv, NEW r \in Runs, WorkerStep(r)
  PROVE  OwnStep
<1>1. app \in [Apps -> AppRow] /\ env \in [Envs -> EnvRow]
  BY DEF JobsIInv, TypeOK
<1>2. infra' = infra
  BY DEF WorkerStep, StartWorker, BeatWorkerRun, HeartbeatExpires, WorkerDies, PruneWorkerRun,
     ClaimDeploy, ClaimRemoval, ClaimProvisioning, ClaimEnvironmentTeardown
<1>3. CASE StartWorker(r) \/ BeatWorkerRun(r) \/ HeartbeatExpires(r) \/ WorkerDies(r)
  <2>1. UNCHANGED <<app, env>>
    BY <1>3 DEF StartWorker, BeatWorkerRun, HeartbeatExpires, WorkerDies
  <2>2. QED  BY <1>2, <2>1, OwnStutters DEF Busy, Closing, Gone, Present
<1>4. CASE PruneWorkerRun(r)
  <2>1. \A a \in Apps : app'[a].job = app[a].job
    BY <1>1, <1>4 DEF PruneWorkerRun, AppRow
  <2>2. \A e \in Envs : env'[e].status = env[e].status
    BY <1>1, <1>4 DEF PruneWorkerRun, EnvRow
  <2>3. Closing' = Closing
    BY <2>2 DEF Closing
  <2>4. QED  BY <1>2, <2>1, <2>3, RowsKeptSets, OwnStutters
<1>5. ASSUME NEW a \in Apps, ClaimDeploy(r, a) \/ ClaimRemoval(r, a) PROVE OwnStep
  <2>1. /\ app[a].job \in {"DEPLOY_PENDING", "REMOVAL_PENDING"}
        /\ app'[a].job \in {"DEPLOYING", "REMOVING"}
        /\ \A b \in Apps \ {a} : app'[b] = app[b]
        /\ env' = env
    BY <1>1, <1>5 DEF ClaimDeploy, ClaimRemoval, AppRow
  <2>2. Busy' = Busy /\ Gone' = Gone /\ Closing' = Closing
    BY <2>1 DEF Busy, Gone, Closing, Present, JobStatus
  <2>3. QED  BY <1>2, <2>2, OwnStutters
<1>6. ASSUME NEW e \in Envs, ClaimProvisioning(r, e) \/ ClaimEnvironmentTeardown(r, e) PROVE OwnStep
  <2>1. /\ app' = app /\ \A f \in Envs \ {e} : env'[f] = env[f]
        /\ (env[e].status \in TeardownStatuses) = (env'[e].status \in TeardownStatuses)
    BY <1>1, <1>6 DEF ClaimProvisioning, ClaimEnvironmentTeardown, Claim, TeardownStatuses
  <2>2. Closing' = Closing
    BY <2>1 DEF Closing
  <2>3. QED  BY <1>2, <2>1, <2>2, OwnStutters DEF Busy, Gone, Present
<1>7. QED  BY <1>3, <1>4, <1>5, <1>6 DEF WorkerStep

\* Environment admissions: only a queued teardown takes over, from idle apps.
LEMMA EnvAdmissionOwns ==
  ASSUME JobsIInv, NEW e \in Envs, EnvAdmission(e)
  PROVE  OwnStep
<1>1. env \in [Envs -> EnvRow]
  BY DEF JobsIInv, TypeOK
<1>2. UNCHANGED <<app, infra>>
  BY DEF EnvAdmission, EnvironmentRetry, RedeployEnvironment, QueueTeardown, NoJobStep
<1>3. Busy' = Busy /\ Gone' = Gone
  BY <1>2 DEF Busy, Gone, Present
<1>4. CASE QueueTeardown(e)
  <2>1. \A a \in Busy : EnvOf[a] # e
    BY <1>4 DEF QueueTeardown, Busy, AppsOf
  <2>2. Closing' = Closing \cup {e}
    BY <1>1, <1>4 DEF QueueTeardown, Closing, TeardownStatuses
  <2>3. QED  BY <1>2, <1>3, <2>1, <2>2, OwnBegins
<1>5. CASE EnvironmentRetry(e) \/ RedeployEnvironment(e)
  <2>1. env[e].status \in {"ERROR", "READY"} /\ env' = [env EXCEPT ![e].status = "PENDING"]
    BY <1>5 DEF EnvironmentRetry, RedeployEnvironment, TransitionStatus
  <2>2. Closing' = Closing
    BY <1>1, <2>1 DEF Closing, TeardownStatuses
  <2>3. QED  BY <1>2, <1>3, <2>2, OwnStutters
<1>6. QED  BY <1>4, <1>5 DEF EnvAdmission

\* The reaper closes attempts and teardowns.
LEMMA ReaperOwnsStep ==
  ASSUME JobsIInv, ReaperStep
  PROVE  OwnStep
<1>1. TypeOK /\ env \in [Envs -> EnvRow]
  BY DEF JobsIInv, TypeOK
<1>2. ASSUME NEW S \in SUBSET Apps, \A a \in S : Present(a), SettleFailureOfAll(S), UNCHANGED <<env, infra>>
      PROVE  OwnStep
  BY <1>1, <1>2, SettlersKeepRows, SettlingCloses
<1>3. CASE ReapDeadWorkerApps
  <2>1. StaleApps \subseteq Apps /\ \A a \in StaleApps : Present(a)
    BY DEF StaleApps, EXECUTING_JOB_STATUSES, Present, JobStatus
  <2>2. QED  BY <1>2, <1>3, <2>1 DEF ReapDeadWorkerApps
<1>4. ASSUME NEW a \in Apps, ReapUntouchedApp(a) PROVE OwnStep
  <2>1. Present(a) /\ SettleFailureOfAll({a}) /\ UNCHANGED <<env, infra>>
    BY <1>4 DEF ReapUntouchedApp, EXECUTING_JOB_STATUSES, Present, JobStatus
  <2>2. QED  BY <1>2, <2>1
<1>5. CASE ReapDeadWorkerEnvironments \/ \E e \in Envs : ReapUntouchedEnvironment(e)
  <2>1. PICK S \in SUBSET Envs : EnvironmentsToError(S)
    <3>1. StaleEnvironments \subseteq Envs
      BY DEF StaleEnvironments
    <3>2. QED  BY <1>5, <3>1 DEF ReapDeadWorkerEnvironments, ReapUntouchedEnvironment
  <2>2. \A e \in Envs : env'[e].status = env[e].status \/ env'[e].status = "ERROR"
    BY <1>1, <2>1 DEF EnvironmentsToError, EnvRow
  <2>3. Closing' \subseteq Closing
    BY <2>2 DEF Closing, TeardownStatuses
  <2>4. UNCHANGED <<app, infra>>
    BY <1>5 DEF ReapDeadWorkerEnvironments, ReapUntouchedEnvironment
  <2>5. QED  BY <2>3, <2>4, OwnEnds DEF Busy, Gone, Present
<1>6. QED  BY <1>3, <1>4, <1>5 DEF ReaperStep

\* The job system implements exclusive ownership of each app's infrastructure: every
\* step is a step of InfraOwnership, or does not show there.
THEOREM OwnershipHolds ==
  ASSUME Calm
  PROVE  Spec => OwnershipSpec
<1>1. Init => Ownership!Init
  BY DEF Init, Ownership!Init, NewApp, Present, JobStatus, TeardownStatuses
<1>2. JobsIInv /\ [Next]_vars => OwnStep
  <2> SUFFICES ASSUME JobsIInv, [Next]_vars PROVE OwnStep
    OBVIOUS
  <2>1. CASE UNCHANGED vars
    BY <2>1, OwnStutters DEF vars, Busy, Closing, Gone, Present
  <2>2. CASE Next
    <3>1. ~FailUnsettledDeployments
      BY DEF FailUnsettledDeployments, Calm
    <3>2. QED
      BY <2>2, <3>1, AdmissionOwns, EnvAdmissionOwns, WorkerOwnsNothing, AppThreadOwnsStep,
         EnvThreadOwnsStep, ReaperOwnsStep DEF Next
  <2>3. QED  BY <2>1, <2>2
<1>3. QED
  BY <1>1, <1>2, JobsInvariant, PTL DEF Spec, OwnershipSpec, Ownership!Spec, OwnStep
=============================================================================
