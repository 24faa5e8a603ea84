------------------------------ MODULE AppPlan ------------------------------
(***************************************************************************)
(* What a deploy turns an app into.  The App row keeps a snapshot of the   *)
(* template, taken when the app was created; every attempt builds a config *)
(* from the snapshot, the template as it is now and the plan of the        *)
(* organization, writes the secrets bag, and applies a stack made from the *)
(* config alone.  Between the steps an operator may reseed the template,   *)
(* change the plan or the preset, or set a shared secret.  AppDeployment   *)
(* has the tokens and the teardown, JobSystem the attempts themselves.     *)
(***************************************************************************)
EXTENDS Integers, FiniteSets, FiniteSetsExt, Functions

CONSTANTS
    Revisions,      \* the templates a reseed may install
    Overrides,      \* what an operator may set on the deploy form or with --var
    SharedValues,   \* what a shared secret may be set to
    MaxChanges,     \* how often the operator changes something
    None

Bearer == "HUMR_APP_BEARER"
Bedrock == "bedrock-runtime"
PresetVar == "HUMR_LLM_PRESET"
CapabilitiesVar == "HUMR_PLATFORM_CAPABILITIES"
SlugVar == "HUMR_APP_SLUG"

VARIABLES
    template,  \* the revision of the source template
    org,       \* whether the plan enables Bedrock, and the LLM preset
    shared,    \* the value of the shared secret, "" when it is not set
    place,     \* the environment: hosted zone, ENI trunking, EC2 provider
    app,       \* the App row
    phase,     \* where the attempt is
    config,    \* the AppConfig of the attempt
    ready,     \* what the orchestration resolved: bag ARN, auth base URL
    bag,       \* the app's secrets bag, None before it is created
    task,      \* the task definition the service runs
    refusal,   \* why the last attempt failed, None if it did not
    changes

vars == <<template, org, shared, place, app, phase, config, ready, bag, task,
          refusal, changes>>

Empty == [x \in {} |-> None]

\* Later values override earlier ones.
Over(low, high) == [v \in DOMAIN low \cup DOMAIN high |->
                        IF v \in DOMAIN high THEN high[v] ELSE low[v]]

PlanInit ==
    /\ template \in Revisions
    /\ org \in [bedrock : BOOLEAN, preset : {"codex", "bedrock"}]
    /\ place \in [zone : BOOLEAN, trunking : BOOLEAN, provider : BOOLEAN]
    /\ shared = ""
    /\ app = None /\ config = None /\ bag = None /\ task = None
    /\ phase = "idle" /\ refusal = None
    /\ ready = [arn |-> FALSE, auth |-> FALSE]
    /\ changes = 0

-----------------------------------------------------------------------------
(* Creating the app: the template's variables, with the preset of the     *)
(* organization and then the operator's values put over them.             *)

\* A variable left empty is not part of the environment.
Materialized(variables) ==
    Restrict(variables, {v \in DOMAIN variables : variables[v] # ""})

\* An override reaches every container that declares the name.
Applied(variables, over) ==
    [v \in DOMAIN variables |-> IF v \in DOMAIN over THEN over[v] ELSE variables[v]]

Snapshot(over) ==
    LET preset == [v \in {PresetVar} |-> org.preset]
        all == Over(preset, over)
    IN  [c \in DOMAIN template.containers |->
            [environment |-> Materialized(Applied(template.containers[c].config, all)),
             secrets |-> Applied(template.containers[c].secrets, all)]]

CreateApp(over) ==
    /\ app = None
    /\ template.alb \in DOMAIN template.containers
    /\ app' = [containers |-> Snapshot(over), compute |-> template.compute]
    /\ phase' = "queued"
    /\ UNCHANGED <<template, org, shared, place, config, ready, bag, task, refusal, changes>>

Redeploy ==
    /\ app # None /\ phase = "idle"
    /\ phase' = "queued"
    /\ UNCHANGED <<template, org, shared, place, app, config, ready, bag, task, refusal, changes>>

-----------------------------------------------------------------------------
(* Node packing: a slot is the allocatable share of one task on a node,   *)
(* and the container that fills it gets what its siblings leave.          *)

profile_for(trunking) ==
    IF trunking THEN [cpu |-> 2048, memory |-> 15360, tasks |-> 8]
                ELSE [cpu |-> 2048, memory |-> 7168, tasks |-> 2]

task_slot(profile) ==
    [cpu |-> profile.cpu \div profile.tasks, memory |-> profile.memory \div profile.tasks]

Fillers(cs) == {c \in DOMAIN cs : cs[c].fills}

\* What a sibling reserves: the soft reservation, else the hard limit.
SiblingMemory(c) == IF c.memory # 0 THEN c.memory ELSE c.limit

Left(cs, trunking) ==
    LET slot == task_slot(profile_for(trunking))
        siblings == DOMAIN cs \ Fillers(cs)
    IN  [cpu |-> slot.cpu - MapThenSumSet(LAMBDA c : cs[c].cpu, siblings),
         memory |-> slot.memory - MapThenSumSet(LAMBDA c : SiblingMemory(cs[c]), siblings)]

PackingRefuses(cs, trunking) ==
    /\ Fillers(cs) # {}
    /\ \/ Cardinality(Fillers(cs)) > 1
       \/ \E c \in Fillers(cs) : cs[c].cpu # 0 \/ cs[c].memory # 0
       \/ \E c \in DOMAIN cs \ Fillers(cs) : cs[c].cpu = 0 \/ SiblingMemory(cs[c]) = 0
       \/ Left(cs, trunking).cpu <= 0
       \/ Left(cs, trunking).memory <= 0

resolve_slot_fillers(cs, trunking) ==
    [c \in DOMAIN cs |->
        IF cs[c].fills
        THEN [cs[c] EXCEPT !.cpu = Left(cs, trunking).cpu, !.memory = Left(cs, trunking).memory]
        ELSE cs[c]]

-----------------------------------------------------------------------------
(* Building the config.                                                   *)

\* Platform constants, then the template's knobs, then the snapshot.
merge_container_environment(t, a) ==
    Over(Over(t.environment, Materialized(t.config)), a.environment)

\* A container the app was created without has nothing of its own.
OfApp(c) ==
    IF c \in DOMAIN app.containers THEN app.containers[c]
                                   ELSE [environment |-> Empty, secrets |-> Empty]

\* Containers of one task share a bag, so a name has one value.
Collides(cs) ==
    \E c, d \in DOMAIN cs : \E f \in DOMAIN cs[c].secrets \cap DOMAIN cs[d].secrets :
        cs[c].secrets[f] # cs[d].secrets[f]

ReservedName(cs) == \E c \in DOMAIN cs : Bearer \in DOMAIN cs[c].secrets

\* The union of what the containers declare.
UnionSecrets(cs) ==
    [f \in UNION {DOMAIN cs[c].secrets : c \in DOMAIN cs} |->
        (CHOOSE s \in {cs[c].secrets : c \in DOMAIN cs} : f \in DOMAIN s)[f]]

\* The plan decides, and a Bedrock preset without the grant is refused.
Capabilities == IF org.bedrock THEN {Bedrock} ELSE {}

PresetHasNoGrant == org.preset = "bedrock" /\ Bedrock \notin Capabilities

ConfigContainers ==
    LET packed == resolve_slot_fillers(template.containers, place.trunking)
    IN  [c \in DOMAIN packed |->
            [role |-> packed[c].role, upstream |-> packed[c].upstream,
             bearer |-> packed[c].bearer, ec2only |-> packed[c].ec2only,
             cpu |-> packed[c].cpu, memory |-> packed[c].memory, limit |-> packed[c].limit,
             mounts |-> packed[c].mounts, after |-> packed[c].after,
             environment |-> merge_container_environment(packed[c], OfApp(c)),
             secrets |-> OfApp(c).secrets]]

BuildRefuses ==
    \/ DOMAIN template.containers = {}
    \/ PackingRefuses(template.containers, place.trunking)
    \/ \E c \in DOMAIN template.containers :
          template.containers[c].role = "policy_proxy" /\ template.containers[c].upstream = None
    \/ Collides(ConfigContainers)
    \/ ReservedName(ConfigContainers)
    \/ PresetHasNoGrant

Fail(why) ==
    /\ phase' = "idle" /\ config' = None /\ refusal' = why
    /\ ready' = [arn |-> FALSE, auth |-> FALSE]

build_app_config_from_app ==
    /\ phase = "queued"
    /\ IF BuildRefuses
       THEN Fail("refused")
       ELSE /\ config' = [containers |-> ConfigContainers, alb |-> template.alb,
                          secrets |-> UnionSecrets(ConfigContainers), efs |-> template.efs,
                          compute |-> app.compute, capabilities |-> Capabilities,
                          packed |-> Fillers(template.containers) # {}]
            /\ phase' = "built"
            /\ UNCHANGED <<refusal, ready>>
    /\ UNCHANGED <<template, org, shared, place, app, bag, task, changes>>

-----------------------------------------------------------------------------
(* The prelude: secrets and bearer, written outside the stack.            *)

container_needs_app_bearer(c) ==
    config.containers[c].bearer \/ config.containers[c].role = "policy_proxy"

NeedsBearer == \E c \in DOMAIN config.containers : container_needs_app_bearer(c)

Proxies == {c \in DOMAIN config.containers : config.containers[c].role = "policy_proxy"}

ResolveSecret(value) ==
    CASE value = "auto" -> "generated" [] value = "shared" -> shared [] OTHER -> value

\* Bug: a key that is already there is left as it is, even if it is empty.
ToWriteMissing(existing) == DOMAIN config.secrets \ DOMAIN existing

\* Keys the bag lacks, and placeholders that are still empty.
ToWrite(existing) ==
    {f \in DOMAIN config.secrets :
        \/ f \notin DOMAIN existing
        \/ config.secrets[f] = "shared" /\ existing[f] = "" /\ shared # ""}

Existing == IF bag = None THEN Empty ELSE bag

ensure_app_secrets_exist ==
    Over(Existing, [f \in ToWrite(Existing) |-> ResolveSecret(config.secrets[f])])

ArnKnown == NeedsBearer \/ DOMAIN config.secrets # {}

Prelude ==
    /\ phase = "built"
    /\ IF config.compute = "ec2" /\ ~place.provider
       THEN Fail("refused") /\ UNCHANGED bag
       ELSE /\ bag' = IF DOMAIN config.secrets = {} /\ ~NeedsBearer THEN bag
                      ELSE Over(ensure_app_secrets_exist,
                                IF NeedsBearer THEN [f \in {Bearer} |-> "bearer"] ELSE Empty)
            /\ IF Cardinality(Proxies) > 1 \/ (Proxies # {} /\ ~place.zone)
               THEN Fail("refused")
               ELSE /\ ready' = [arn |-> ArnKnown, auth |-> Proxies # {}]
                    /\ phase' = "prepared"
                    /\ UNCHANGED <<config, refusal>>
    /\ UNCHANGED <<template, org, shared, place, app, task, changes>>

-----------------------------------------------------------------------------
(* The stack: made from the config and from what the prelude resolved.    *)

StackSkipped ==
    \/ (NeedsBearer \/ DOMAIN config.secrets # {}) /\ ~ready.arn
    \/ Proxies # {} /\ ~ready.auth

TargetIsRight ==
    /\ config.alb \in DOMAIN config.containers
    /\ \A p \in Proxies :
          p = config.alb /\ config.containers[p].upstream \in DOMAIN config.containers

ReservesCpu == {c \in DOMAIN config.containers : config.containers[c].cpu # 0}

StackRefuses ==
    \/ ~TargetIsRight
    \/ config.compute = "fargate" /\ \E c \in DOMAIN config.containers : config.containers[c].ec2only
    \/ config.compute = "ec2" /\ ReservesCpu \notin {{}, DOMAIN config.containers}
    \/ \E c \in DOMAIN config.containers :
          \/ ~(config.containers[c].mounts \subseteq config.efs)
          \/ ~(config.containers[c].after \subseteq DOMAIN config.containers)

\* The grants of the task role.
Granted == config.capabilities

Told == [v \in {SlugVar, CapabilitiesVar} |->
            IF v = SlugVar THEN "slug"
            ELSE IF Bedrock \in config.capabilities THEN Bedrock ELSE ""]

\* The overlays of the platform are put over everything else.
ContainerEnvironment(c) ==
    Over(config.containers[c].environment, IF container_needs_app_bearer(c) THEN Told ELSE Empty)

\* A container sees the fields it declared, and the bearer if it needs it.
ContainerSecrets(c) ==
    DOMAIN config.containers[c].secrets
        \cup IF container_needs_app_bearer(c) THEN {Bearer} ELSE {}

TaskDefinition ==
    [target |-> config.alb, compute |-> config.compute, packed |-> config.packed,
     grants |-> Granted,
     reads |-> NeedsBearer \/ DOMAIN config.secrets # {},
     containers |-> [c \in DOMAIN config.containers |->
        [role |-> config.containers[c].role,
         bearer |-> container_needs_app_bearer(c),
         environment |-> ContainerEnvironment(c),
         secrets |-> ContainerSecrets(c),
         port |-> c = config.alb,
         cpu |-> config.containers[c].cpu,
         memory |-> SiblingMemory(config.containers[c])]]]

ApplyStack ==
    /\ phase = "prepared"
    /\ IF StackSkipped THEN Fail("skipped") /\ UNCHANGED task
       ELSE IF StackRefuses THEN Fail("refused") /\ UNCHANGED task
       ELSE /\ task' = TaskDefinition
            /\ phase' = "idle" /\ config' = None /\ refusal' = None
            /\ ready' = [arn |-> FALSE, auth |-> FALSE]
    /\ UNCHANGED <<template, org, shared, place, app, bag, changes>>

\* An image cannot be built, or CloudFormation rolls the stack back.
StackFails ==
    /\ phase = "prepared"
    /\ Fail("failed")
    /\ UNCHANGED <<template, org, shared, place, app, bag, task, changes>>

-----------------------------------------------------------------------------
(* The operator.                                                          *)

Changed ==
    /\ changes < MaxChanges
    /\ changes' = changes + 1
    /\ UNCHANGED <<place, app, phase, config, ready, bag, task, refusal>>

SeedTemplate(t) == Changed /\ template' = t /\ template # t /\ UNCHANGED <<org, shared>>

ChangePlan == Changed /\ org' = [org EXCEPT !.bedrock = ~@] /\ UNCHANGED <<template, shared>>

ChangePreset(p) ==
    Changed /\ org.preset # p /\ org' = [org EXCEPT !.preset = p] /\ UNCHANGED <<template, shared>>

SetSharedSecret(s) == Changed /\ shared # s /\ shared' = s /\ UNCHANGED <<template, org>>

PlanNext ==
    \/ \E over \in Overrides : CreateApp(over)
    \/ Redeploy
    \/ build_app_config_from_app
    \/ Prelude
    \/ ApplyStack
    \/ StackFails
    \/ \E t \in Revisions : SeedTemplate(t)
    \/ ChangePlan
    \/ \E p \in {"codex", "bedrock"} : ChangePreset(p)
    \/ \E s \in SharedValues : SetSharedSecret(s)

PlanSpec == PlanInit /\ [][PlanNext]_vars

-----------------------------------------------------------------------------
PlanTypeOK ==
    /\ template \in Revisions
    /\ shared \in SharedValues \cup {""}
    /\ phase \in {"idle", "queued", "built", "prepared"}
    /\ refusal \in {None, "refused", "skipped", "failed"}
    /\ phase \in {"built", "prepared"} <=> config # None
    /\ app = None => bag = None /\ task = None
    /\ changes \in 0..MaxChanges

\* A platform capability is told to a container exactly when the task role
\* has it: the plan is read once, and a change of plan in the middle of an
\* attempt cannot split the two (effective_platform_capabilities).
CapabilitiesAgree ==
    task # None =>
        \A c \in DOMAIN task.containers :
            task.containers[c].bearer =>
                (task.containers[c].environment[CapabilitiesVar] = Bedrock
                    <=> Bedrock \in task.grants)

\* The AppStack never finds that the orchestration left something out: its
\* RuntimeErrors for a missing bag ARN or auth URL cannot be reached.
OrchestrationIsComplete == refusal # "skipped"

\* A container of a running task sees what the app was created with for it,
\* and the bearer exactly when it talks to the control plane; every field it
\* is given is in the bag with the value it declared.
SecretsAreItsOwn ==
    task # None =>
        \A c \in DOMAIN task.containers :
            LET own == OfApp(c).secrets IN
            /\ task.containers[c].secrets \ {Bearer} = DOMAIN own
            /\ Bearer \in task.containers[c].secrets <=> task.containers[c].bearer
            /\ task.containers[c].role = "policy_proxy" => task.containers[c].bearer
            /\ task.containers[c].secrets # {} => task.reads /\ bag # None
            /\ \A f \in DOMAIN own :
                  /\ f \in DOMAIN bag
                  /\ own[f] = "auto" => bag[f] = "generated"
                  /\ own[f] = "shared" => bag[f] \in SharedValues \cup {""}
                  /\ own[f] \notin {"auto", "shared"} => bag[f] = own[f]

\* What the operator chose when the app was created survives every revision
\* of the template; the app's identity is the platform's and no template or
\* operator can set it (_merge_container_environment, the bearer overlay).
ValuesHaveOneOwner ==
    task # None =>
        \A c \in DOMAIN task.containers :
            LET env == task.containers[c].environment
                own == OfApp(c).environment
            IN  /\ \A v \in DOMAIN own \ {SlugVar, CapabilitiesVar} : env[v] = own[v]
                /\ task.containers[c].bearer => env[SlugVar] = "slug"

\* A task with a policy proxy is reached through it and through nothing
\* else, in an environment with HTTPS.
ProxyFrontsTheTask ==
    task # None =>
        LET proxies == {c \in DOMAIN task.containers : task.containers[c].role = "policy_proxy"}
        IN  proxies # {} =>
                /\ proxies = {task.target}
                /\ {c \in DOMAIN task.containers : task.containers[c].port} = proxies
                /\ place.zone

\* "Because slots partition the node, floors sum to at most the host's
\* allocatable memory": as many tasks as the profile allows fit one node, and
\* every container of a task has a floor.
FloorsFitTheNode ==
    task # None /\ task.packed =>
        LET profile == profile_for(place.trunking)
            cs == task.containers
        IN  /\ \A c \in DOMAIN cs : cs[c].cpu > 0 /\ cs[c].memory > 0
            /\ profile.tasks * MapThenSumSet(LAMBDA c : cs[c].cpu, DOMAIN cs) <= profile.cpu
            /\ profile.tasks * MapThenSumSet(LAMBDA c : cs[c].memory, DOMAIN cs) <= profile.memory

\* A deploy adds to the bag and fills what is empty; it never changes a
\* value that a running task reads.
OnlyEmptyIsFilled ==
    bag # None =>
       /\ bag' # None
       /\ \A f \in DOMAIN bag :
             f \in DOMAIN bag' /\ (bag[f] # "" => bag'[f] = bag[f])

\* "Without this, later shared-set calls wouldn't propagate": an attempt that
\* gets past the prelude with the shared secret set leaves no placeholder
\* empty.
PlaceholdersHeal ==
    phase = "built" /\ phase' = "prepared" /\ shared # "" =>
       \A f \in DOMAIN config.secrets :
          config.secrets[f] = "shared" => bag'[f] # ""

\* An agent whose default model is Bedrock's has the grant behind it.
DefaultModelHasGrant ==
    task # None =>
        \A c \in DOMAIN task.containers :
            (/\ PresetVar \in DOMAIN task.containers[c].environment
             /\ task.containers[c].environment[PresetVar] = "bedrock") => Bedrock \in task.grants
=============================================================================
