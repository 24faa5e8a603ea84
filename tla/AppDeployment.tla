--------------------------- MODULE AppDeployment ---------------------------
(***************************************************************************)
(* What one app slug of an environment holds in the customer's account:    *)
(* its CloudFormation stack and running tasks, its bag of secrets, the     *)
(* hash of its bearer in the database, and the data its tasks persist on   *)
(* EFS and on the container instances.  JobSystem treats a deployment and  *)
(* a removal as one step each; here every write to AWS is a step, and an   *)
(* attempt may end after any of them.  JobSystem's OneThreadPerApp is why  *)
(* there is one attempt at a time.                                         *)
(***************************************************************************)
EXTENDS Integers, FiniteSets

CONSTANTS
    Hosts,          \* the container instances a task may have run on
    MaxGens,        \* how many apps may use the slug, one after the other
    MaxTokens,      \* how many random values are generated
    MaxAttempts,    \* how many attempts are claimed
    MaxTrees,       \* how many versions of the template are shipped
    RemoverLingers, \* a cleanup task nobody waits for any more goes on
    SsmLags         \* the invocations may be listed later than the first poll

DeploymentAssumption ==
    /\ {MaxGens, MaxTokens, MaxAttempts, MaxTrees} \subseteq Nat
    /\ {RemoverLingers, SsmLags} \subseteq BOOLEAN

VARIABLES
    app,      \* the App row: does it exist, which one, its job, may_have_infra
    pc,       \* the next step of the attempt in progress
    bag,      \* humr/{env}/{app}/secrets
    row,      \* the token AppBearerToken holds the hash of, 0 if there is none
    stack,    \* the CloudFormation stack of the app
    tasks,    \* the running ECS task and the bearer it was started with
    data,     \* which app wrote the data at each place, 0 if it is empty
    remover,  \* an rm -rf task that was given up is still running
    shared,   \* has the operator set the shared secret the template asks for?
    tree,     \* the version of the template this control plane ships
    tokens, attempts

vars == <<app, pc, bag, row, stack, tasks, data, remover, shared, tree, tokens, attempts>>

Places == {"efs"} \cup Hosts
NoBag == [present |-> FALSE, random |-> 0, shared |-> "missing", bearer |-> 0]
NoStack == [status |-> "none", tree |-> 0, was |-> 0]
NoTask == [running |-> FALSE, bearer |-> 0]

DeploymentInit ==
    /\ app = [exists |-> FALSE, gen |-> 0, mayHave |-> FALSE, job |-> "idle"]
    /\ pc = "none"
    /\ bag = NoBag
    /\ row = 0
    /\ stack = NoStack
    /\ tasks = NoTask
    /\ data = [p \in Places |-> 0]
    /\ remover = FALSE
    /\ shared = FALSE
    /\ tree = 1
    /\ tokens = 0
    /\ attempts = 0

CreateApp ==
    /\ ~app.exists /\ app.gen < MaxGens
    /\ app' = [exists |-> TRUE, gen |-> app.gen + 1, mayHave |-> FALSE, job |-> "idle"]
    /\ UNCHANGED <<pc, bag, row, stack, tasks, data, remover, shared, tree, tokens, attempts>>

EditShared ==
    /\ shared' = ~shared
    /\ UNCHANGED <<app, pc, bag, row, stack, tasks, data, remover, tree, tokens, attempts>>

ShipTemplate ==
    /\ tree < MaxTrees /\ tree' = tree + 1
    /\ UNCHANGED <<app, pc, bag, row, stack, tasks, data, remover, shared, tokens, attempts>>

-----------------------------------------------------------------------------
(* The life of an attempt. *)

ClaimDeploy ==
    /\ app.exists /\ app.job = "idle" /\ attempts < MaxAttempts
    /\ app' = [app EXCEPT !.job = "deploying", !.mayHave = TRUE]
    /\ pc' = "cleanup"
    /\ attempts' = attempts + 1
    /\ UNCHANGED <<bag, row, stack, tasks, data, remover, shared, tree, tokens>>

ClaimRemoval ==
    /\ app.exists /\ app.job = "idle" /\ attempts < MaxAttempts
    /\ app' = [app EXCEPT !.job = "removing"]
    /\ pc' = IF app.mayHave THEN "teardown" ELSE "purge_efs"
    /\ attempts' = attempts + 1
    /\ UNCHANGED <<bag, row, stack, tasks, data, remover, shared, tree, tokens>>

Settled == /\ app' = [app EXCEPT !.job = "idle"]
           /\ pc' = "none"

\* Any call may raise, the base layer may be missing, an image may not build,
\* and the reaper settles what a dead worker left: the attempt ends here.  What
\* it has written stays, and a stack operation goes on in AWS.
AttemptFails ==
    /\ pc # "none"
    /\ Settled
    /\ UNCHANGED <<bag, row, stack, tasks, data, remover, shared, tree, tokens, attempts>>

-----------------------------------------------------------------------------
(* The steps of a deployment. *)

CleanUpFailedStack ==
    /\ pc = "cleanup"
    /\ stack' = IF stack.status = "rolled_back" THEN NoStack ELSE stack
    /\ pc' = "secrets"
    /\ UNCHANGED <<app, bag, row, tasks, data, remover, shared, tree, tokens, attempts>>

\* A field declared as None gets a random value, an empty one the shared secret.
FromShared == IF shared THEN "shared" ELSE "empty"

EnsureSecrets ==
    /\ pc = "secrets" /\ tokens < MaxTokens
    /\ bag' = [bag EXCEPT
                 !.present = TRUE,
                 !.random = IF @ = 0 THEN tokens + 1 ELSE @,
                 !.shared = IF @ \in {"missing", "empty"} THEN FromShared ELSE @]
    /\ tokens' = IF bag.random = 0 THEN tokens + 1 ELSE tokens
    /\ pc' = "bearer"
    /\ UNCHANGED <<app, row, stack, tasks, data, remover, shared, tree, attempts>>

\* The bag and the row agree, or a new token goes into the bag first, beside
\* what is there, and into the row after it.
EnsureBearer ==
    /\ pc = "bearer" /\ tokens < MaxTokens
    /\ IF row # 0 /\ row = bag.bearer
       THEN pc' = "stack" /\ UNCHANGED <<bag, tokens>>
       ELSE /\ bag' = [bag EXCEPT !.present = TRUE, !.bearer = tokens + 1]
            /\ tokens' = tokens + 1
            /\ pc' = "row"
    /\ UNCHANGED <<app, row, stack, tasks, data, remover, shared, tree, attempts>>

SaveBearerRow ==
    /\ pc = "row"
    /\ row' = bag.bearer
    /\ pc' = "stack"
    /\ UNCHANGED <<app, bag, stack, tasks, data, remover, shared, tree, tokens, attempts>>

\* cdk deploy waits for an operation in progress and replaces a stack whose
\* creation was rolled back; one that could not be deleted it refuses.
StartStack ==
    /\ pc = "stack" /\ stack.status \in {"none", "rolled_back", "live"}
    /\ stack' = [status |-> "busy", tree |-> tree,
                 was |-> IF stack.status = "live" THEN stack.tree ELSE 0]
    /\ pc' = "wait"
    /\ UNCHANGED <<app, bag, row, tasks, data, remover, shared, tree, tokens, attempts>>

Started == [running |-> TRUE, bearer |-> bag.bearer]

\* The bag is named by its ARN alone, so the service is only replaced when the
\* image of the template changed.
StackSucceeds ==
    /\ stack.status = "busy"
    /\ stack' = [stack EXCEPT !.status = "live", !.was = 0]
    /\ tasks' = IF tasks.running /\ stack.was = stack.tree THEN tasks ELSE Started
    /\ UNCHANGED <<app, pc, bag, row, data, remover, shared, tree, tokens, attempts>>

\* The circuit breaker puts the former service back; a first creation has none.
StackRollsBack ==
    /\ stack.status = "busy"
    /\ IF stack.was = 0
       THEN /\ stack' = [status |-> "rolled_back", tree |-> 0, was |-> 0]
            /\ tasks' = NoTask
       ELSE /\ stack' = [status |-> "live", tree |-> stack.was, was |-> 0]
            /\ tasks' \in {tasks, Started}
    /\ pc' = IF pc = "wait" THEN "failed" ELSE pc
    /\ UNCHANGED <<app, bag, row, data, remover, shared, tree, tokens, attempts>>

DeploySucceeds ==
    /\ pc = "wait" /\ stack.status = "live"
    /\ Settled
    /\ UNCHANGED <<bag, row, stack, tasks, data, remover, shared, tree, tokens, attempts>>

-----------------------------------------------------------------------------
(* The steps of a removal. *)

\* Bug: a deletion that failed counts as done.
TeardownHasty ==
    /\ pc = "teardown"
    /\ \E deleted \in BOOLEAN :
          /\ stack' = IF deleted THEN NoStack ELSE [stack EXCEPT !.status = "stuck"]
          /\ tasks' = IF deleted THEN NoTask ELSE tasks
    /\ app' = [app EXCEPT !.mayHave = FALSE]
    /\ pc' = "purge_efs"
    /\ UNCHANGED <<bag, row, data, remover, shared, tree, tokens, attempts>>

Teardown ==
    /\ pc = "teardown"
    /\ \/ /\ stack' = NoStack /\ tasks' = NoTask
          /\ app' = [app EXCEPT !.mayHave = FALSE]
          /\ pc' = "purge_efs"
       \/ /\ stack.status # "none"
          /\ stack' = [stack EXCEPT !.status = "stuck"]
          /\ tasks' \in {tasks, NoTask}
          /\ pc' = "failed" /\ UNCHANGED app
    /\ UNCHANGED <<bag, row, data, remover, shared, tree, tokens, attempts>>

\* The rm -rf task runs to its end, or fails, or is given up after 15 minutes.
PurgeEfs ==
    /\ pc = "purge_efs"
    /\ \/ data' = [data EXCEPT !["efs"] = 0] /\ pc' = "purge_hosts" /\ UNCHANGED remover
       \/ pc' = "failed" /\ remover' \in {remover, RemoverLingers} /\ UNCHANGED data
    /\ UNCHANGED <<app, bag, row, stack, tasks, shared, tree, tokens, attempts>>

RemoverFinishes ==
    /\ remover
    /\ remover' = FALSE
    /\ data' = [data EXCEPT !["efs"] = 0]
    /\ UNCHANGED <<app, pc, bag, row, stack, tasks, shared, tree, tokens, attempts>>

\* The command goes to every instance; all of them answer with success, or one
\* does not.  A poll that finds no invocation at all counts as success.
PurgeHosts ==
    /\ pc = "purge_hosts"
    /\ \E done \in SUBSET Hosts :
          /\ data' = [p \in Places |-> IF p \in done THEN 0 ELSE data[p]]
          /\ pc' = IF done = Hosts \/ (SsmLags /\ done = {}) THEN "purge_bag" ELSE "failed"
    /\ UNCHANGED <<app, bag, row, stack, tasks, remover, shared, tree, tokens, attempts>>

PurgeBag ==
    /\ pc = "purge_bag"
    /\ bag' = NoBag
    /\ pc' = "rows"
    /\ UNCHANGED <<app, row, stack, tasks, data, remover, shared, tree, tokens, attempts>>

\* One transaction: the policies, the slug claim, the app and what cascades.
DeleteRows ==
    /\ pc = "rows"
    /\ app' = [app EXCEPT !.exists = FALSE, !.job = "idle"]
    /\ row' = 0
    /\ pc' = "none"
    /\ UNCHANGED <<bag, stack, tasks, data, remover, shared, tree, tokens, attempts>>

-----------------------------------------------------------------------------
(* What happens in the account by itself. *)

TaskRestarts ==
    /\ tasks.running /\ bag.present
    /\ tasks' = Started
    /\ UNCHANGED <<app, pc, bag, row, stack, data, remover, shared, tree, tokens, attempts>>

TaskWrites(h) ==
    /\ tasks.running
    /\ data' = [data EXCEPT !["efs"] = app.gen, ![h] = app.gen]
    /\ UNCHANGED <<app, pc, bag, row, stack, tasks, remover, shared, tree, tokens, attempts>>

HostGoes(h) ==
    /\ data[h] # 0
    /\ data' = [data EXCEPT ![h] = 0]
    /\ UNCHANGED <<app, pc, bag, row, stack, tasks, remover, shared, tree, tokens, attempts>>

Deploying == \/ ClaimDeploy \/ CleanUpFailedStack \/ EnsureSecrets \/ EnsureBearer
             \/ SaveBearerRow \/ StartStack \/ DeploySucceeds
Removing == \/ ClaimRemoval \/ Teardown \/ PurgeEfs \/ PurgeHosts \/ PurgeBag \/ DeleteRows
Account == \/ StackSucceeds \/ StackRollsBack \/ TaskRestarts \/ RemoverFinishes
           \/ \E h \in Hosts : TaskWrites(h) \/ HostGoes(h)
DeploymentNext == CreateApp \/ EditShared \/ ShipTemplate \/ AttemptFails
                  \/ Deploying \/ Removing \/ Account
DeploymentSpec == DeploymentInit /\ [][DeploymentNext]_vars

-----------------------------------------------------------------------------
(* Properties. *)

DeploymentTypeOK ==
    /\ app \in [exists : BOOLEAN, gen : 0..MaxGens, mayHave : BOOLEAN,
                job : {"idle", "deploying", "removing"}]
    /\ pc \in {"none", "cleanup", "secrets", "bearer", "row", "stack", "wait", "failed",
               "teardown", "purge_efs", "purge_hosts", "purge_bag", "rows"}
    /\ bag \in [present : BOOLEAN, random : 0..MaxTokens,
                shared : {"missing", "empty", "shared"}, bearer : 0..MaxTokens]
    /\ row \in 0..MaxTokens
    /\ stack.status \in {"none", "busy", "live", "rolled_back", "stuck"}
    /\ tasks \in [running : BOOLEAN, bearer : 0..MaxTokens]
    /\ data \in [Places -> 0..MaxGens]
    /\ (pc = "none") = (app.job = "idle")

\* A slug without an App row has nothing left under it - no stack, no task, no
\* secret, no data - whichever attempts failed before the one that freed it: the
\* next app of that name inherits nothing (run_removal, may_have_infra).
FreeSlugIsClean ==
    ~app.exists => /\ stack.status = "none" /\ ~tasks.running
                   /\ ~bag.present /\ row = 0
                   /\ \A p \in Places : data[p] = 0

\* A stack being created or serving always finds its secrets and its bearer in
\* the bag: a deployment writes them before it, a removal deletes them after it.
StackFindsItsSecrets ==
    stack.status \in {"busy", "live"} => bag.present /\ bag.random # 0 /\ bag.bearer # 0

\* As long as an app exists, a secret that was generated or filled in for it is
\* neither replaced nor lost, except by its removal.
SecretsOutliveDeploys ==
    app.job = "deploying" =>
      /\ bag.random # 0 => bag'.random = bag.random
      /\ bag.shared = "shared" => bag'.shared = "shared"

\* The bearer the running task presents is the one the control plane accepts,
\* also while a deployment is going on and after one that failed.
TasksAreKnown == tasks.running => tasks.bearer = row

\* Persisted files disappear only while the app is being removed.
OnlyRemovalErases ==
    data["efs"] # 0 /\ data'["efs"] = 0 => app.job = "removing"
=============================================================================
