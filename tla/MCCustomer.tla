----------------------------- MODULE MCCustomer -----------------------------
(***************************************************************************)
(* What the control plane does in a customer's account, for TLC.  The      *)
(* parts share no state: a behaviour is one of a single part, and the      *)
(* others rest in an initial state.                                        *)
(***************************************************************************)
EXTENDS AgentDeploys, SandboxSlugs, PersistentRoot, Sequences, TLC

CONSTANTS
    Parts, Commands

VARIABLES
    part,  \* the component that moves, chosen once and for all
    \* The state of that component; of the instances below, in the order in which
    \* their modules declare it.
    v1, v2, v3, v4, v5, v6, v7, v8, v9, v10, v11, v12, v13, v14, v15, v16, v17, v18, v19

\* AgentDeploys: the environments belong to one organization, of one agent.
OneOrg == [e \in Envs |-> "org"]
Plan == [org |-> 1]

\* EnvironmentStacks: two apps of one name in environments of different names.
SlugWords == [prod |-> <<"prod">>, other |-> <<"dev">>, notes |-> <<"notes">>, wiki |-> <<"notes">>]

-----------------------------------------------------------------------------
(* AppPlan: templates in the shape of the seeded ones, a container behind  *)
(* a policy proxy that fills a node slot, its revisions, and templates     *)
(* with the faults a deploy refuses.                                       *)

NoVars == [v \in {} |-> ""]
Preset == "HUMR_LLM_PRESET"

Plain == [role |-> "plain", upstream |-> None, bearer |-> FALSE, ec2only |-> FALSE,
          fills |-> FALSE, cpu |-> 0, memory |-> 0, limit |-> 0,
          mounts |-> {}, after |-> {},
          environment |-> NoVars, config |-> NoVars, secrets |-> NoVars]

Agent == [Plain EXCEPT !.bearer = TRUE, !.ec2only = TRUE, !.fills = TRUE, !.limit = 4096,
          !.mounts = {"checkpoint"},
          !.environment = "MERGE" :> "true",
          !.config = (Preset :> "codex") @@ ("REGION" :> "one"),
          !.secrets = ("TOKEN" :> "auto") @@ ("KEY" :> "shared")]
Proxy == [Plain EXCEPT !.role = "policy_proxy", !.upstream = "agent", !.after = {"agent"},
          !.cpu = 64, !.limit = 128]
Tools == [Plain EXCEPT !.cpu = 64, !.memory = 256, !.secrets = "KEY" :> "shared"]

Hermes == [containers |-> ("agent" :> Agent) @@ ("proxy" :> Proxy),
           alb |-> "proxy", compute |-> "ec2", efs |-> {"checkpoint"}]

\* A revision with another default, another constant, one more container, and
\* a name that is the platform's.
HermesNext ==
    [Hermes EXCEPT
        !.containers = ("agent" :> [Agent EXCEPT
                            !.environment = ("MERGE" :> "false") @@ ("REGION" :> "zero"),
                            !.config = (Preset :> "codex") @@ ("REGION" :> "two")
                                       @@ ("HUMR_APP_SLUG" :> "other")])
                       @@ ("proxy" :> Proxy) @@ ("tools" :> Tools)]

\* No proxy and no bearer: one container with secrets.
Simple == [containers |-> ("agent" :> [Plain EXCEPT !.config = "REGION" :> "one",
                                         !.secrets = ("TOKEN" :> "auto") @@ ("KEY" :> "shared")])
                          @@ ("tools" :> [Plain EXCEPT !.secrets = "KEY" :> "shared"]),
           alb |-> "agent", compute |-> "fargate", efs |-> {}]

\* Two containers that disagree about one name, and a target beside the proxy.
Disagree == [Simple EXCEPT !.containers["tools"].secrets = "KEY" :> "literal"]
Beside == [Hermes EXCEPT !.alb = "agent"]
\* A name of the platform's, two fillers, and no room left in the slot.
Reserved == [Simple EXCEPT !.containers["tools"].secrets = "HUMR_APP_BEARER" :> "auto"]
TwoFillers == [Hermes EXCEPT !.containers["proxy"].fills = TRUE]
Crowded == [Hermes EXCEPT !.containers["proxy"].limit = 1920]

Templates == {Hermes, HermesNext, Simple, Disagree, Beside}
Faulty == {Hermes, Reserved, TwoFillers, Crowded}

Values == {NoVars, "REGION" :> "mine", ("KEY" :> "mine") @@ (Preset :> "bedrock")}

\* What a component of fewer variables leaves at rest.
Beyond15 == <<v15, v16, v17, v18, v19>>
Rest15 ==
    v15 = 0 /\ v16 = 0 /\ v17 = 0 /\ v18 = 0 /\ v19 = 0
Beyond13 == <<v13, v14, Beyond15>>
Rest13 ==
    v13 = 0 /\ v14 = 0 /\ Rest15
Beyond9 == <<v9, v10, v11, v12, Beyond13>>
Rest9 ==
    v9 = 0 /\ v10 = 0 /\ v11 = 0 /\ v12 = 0 /\ Rest13
Beyond8 == <<v8, Beyond9>>
Rest8 ==
    v8 = 0 /\ Rest9
Beyond6 == <<v6, v7, Beyond8>>
Rest6 ==
    v6 = 0 /\ v7 = 0 /\ Rest8
Beyond1 == <<v1, v2, v3, v4, v5, Beyond6>>
Rest1 ==
    v1 = 0 /\ v2 = 0 /\ v3 = 0 /\ v4 = 0 /\ v5 = 0 /\ Rest6

Deployment == INSTANCE AppDeployment WITH
    Hosts <- {"h1", "h2"}, MaxGens <- 2, MaxTokens <- 6, MaxAttempts <- 4, MaxTrees <- 2,
    RemoverLingers <- TRUE, SsmLags <- FALSE, app <- v1, pc <- v2, bag <- v3, row <- v4,
    stack <- v5, tasks <- v6, data <- v7, remover <- v8, shared <- v9, tree <- v10,
    tokens <- v11, attempts <- v12
ASSUME Deployment!DeploymentAssumption

Removal == INSTANCE AppDeployment WITH
    Hosts <- {"h1"}, MaxGens <- 2, MaxTokens <- 5, MaxAttempts <- 3, MaxTrees <- 1,
    RemoverLingers <- FALSE, SsmLags <- FALSE, app <- v1, pc <- v2, bag <- v3, row <- v4,
    stack <- v5, tasks <- v6, data <- v7, remover <- v8, shared <- v9, tree <- v10,
    tokens <- v11, attempts <- v12
ASSUME Removal!DeploymentAssumption

Images == INSTANCE TemplateImages WITH
    Deploys <- {"d1", "d2", "d3"}, None <- "none", Templates <- <<"agent", "proxy">>,
    Version <- [d1 |-> 1, d2 |-> 1, d3 |-> 2], Postgres <- TRUE, Remote <- TRUE,
    Editable <- FALSE, Keep <- 2, IdleLimit <- 1, BuildLimit <- 1, MaxCrashes <- 1,
    MaxTicks <- 3, pc <- v1, at <- v2, tag <- v3, tree <- v4, lock <- v5, repo <- v6,
    images <- v7, builder <- v8, idle <- v9, dirs <- v10, builds <- v11, cut <- v12,
    crashes <- v13, ticks <- v14
ASSUME Images!ImagesAssumption

Local == INSTANCE TemplateImages WITH
    Deploys <- {"d1", "d2", "d3"}, None <- "none", Templates <- <<"agent", "proxy">>,
    Version <- [d1 |-> 1, d2 |-> 1, d3 |-> 2], Postgres <- FALSE, Remote <- FALSE,
    Editable <- FALSE, Keep <- 2, IdleLimit <- 1, BuildLimit <- 1, MaxCrashes <- 0,
    MaxTicks <- 0, pc <- v1, at <- v2, tag <- v3, tree <- v4, lock <- v5, repo <- v6,
    images <- v7, builder <- v8, idle <- v9, dirs <- v10, builds <- v11, cut <- v12,
    crashes <- v13, ticks <- v14
ASSUME Local!ImagesAssumption

Stacks == INSTANCE EnvironmentStacks WITH
    Envs <- {"prod", "other"}, Apps <- {"notes", "wiki"}, SlugOf <- SlugWords,
    HomeOf <- [notes |-> "prod", wiki |-> "other"], Zones <- {"zone"}, NoZone <- "nozone",
    Blocks <- 3, CustomerVpcs <- {{1}}, Workers <- 1, FormsOverlap <- FALSE,
    LookupFails <- FALSE, MaxFaults <- 1, form <- v1, status <- v2, zone <- v3, app <- v4,
    stacks <- v5, pc <- v6, plan <- v7, faults <- v8
ASSUME Stacks!StacksAssumption

Plans == INSTANCE AppPlan WITH
    Revisions <- Templates, Overrides <- Values, SharedValues <- {"s1", "s2"},
    MaxChanges <- 2, None <- None, template <- v1, org <- v2, shared <- v3, place <- v4,
    app <- v5, phase <- v6, config <- v7, ready <- v8, bag <- v9, task <- v10,
    refusal <- v11, changes <- v12

Packing == INSTANCE AppPlan WITH
    Revisions <- Faulty, Overrides <- Values, SharedValues <- {"s1", "s2"}, MaxChanges <- 2,
    None <- None, template <- v1, org <- v2, shared <- v3, place <- v4, app <- v5,
    phase <- v6, config <- v7, ready <- v8, bag <- v9, task <- v10, refusal <- v11,
    changes <- v12

LateRemovals == INSTANCE SandboxSlugs WITH
    Org <- {"o1", "o2"}, MaxApps <- 4, HostedZone <- FALSE, LateThreads <- TRUE, app <- v1,
    claim <- v2, deploy <- v3, removal <- v4, created <- v5
ASSUME LateRemovals!SlugAssumption

Stays == INSTANCE PersistentRoot WITH
    Host <- {"h1"}, MaxWork <- 3, MaxImage <- 2, MaxTasks <- 5, MarkerEarly <- FALSE,
    root <- v1, archive <- v2, tmp <- v3, task <- v4, image <- v5, stored <- v6, tasks <- v7

Migration == INSTANCE RootMigration WITH
    Host <- {"h1", "h2"}, MaxWork <- 0, MaxImage <- 1, MaxTasks <- 2, MarkerEarly <- FALSE,
    MaxPhases <- 4, root <- v1, archive <- v2, tmp <- v3, task <- v4, image <- v5,
    stored <- v6, tasks <- v7, desired <- v8, stopping <- v9, state <- v10, op <- v11,
    stager <- v12, late <- v13, found <- v14, toClear <- v15, watched <- v16,
    restored <- v17, phases <- v18, progress <- v19
ASSUME Migration!MigrationAssumption

Workloads == INSTANCE AppWorkloads WITH
    Cli <- Commands, Webui <- "webui", WebApp <- {"admin", "demo"}, Widget <- {"clock"},
    Admin <- "admin", Example <- "demo", MaxPort <- 2, MaxCommands <- 3, MaxCrashes <- 1,
    MaxEdits <- 1, PortsByHand <- FALSE, doc <- v1, webRoutes <- v2, front <- v3,
    daemon <- v4, lock <- v5, cli <- v6, boot <- v7, source <- v8, tomb <- v9,
    project <- v10, marker <- v11, wanted <- v12, lost <- v13, budget <- v14
ASSUME Workloads!WorkAssumption

Init ==
    /\ part \in Parts
    /\ DeploysInit
    /\ SlugInit
    /\ part # "slugs" => app = [o \in Org |-> NoApp]
    /\ RootInit
    /\ \/ part \in {"deploys", "slugs", "root"} /\ Rest1
       \/ part = "deployment" /\ Deployment!DeploymentInit /\ Rest13
       \/ part = "removal" /\ Removal!DeploymentInit /\ Rest13
       \/ part = "images" /\ Images!ImagesInit /\ Rest15
       \/ part = "local" /\ Local!ImagesInit /\ Rest15
       \/ part = "stacks" /\ Stacks!StacksInit /\ Rest9
       \/ part = "plans" /\ Plans!PlanInit /\ Rest13
       \/ part = "packing" /\ Packing!PlanInit /\ Rest13
       \/ part = "late" /\ LateRemovals!SlugInit /\ Rest6
       \/ part = "stays" /\ Stays!RootInit /\ Rest8
       \/ part = "migration" /\ Migration!MigInit
       \/ part = "workloads" /\ Workloads!WorkInit /\ Rest15

\* One component takes a step of its own, the others rest.
OthersRest ==
    /\ part' = part
    /\ IF part = "deploys" THEN TRUE ELSE UNCHANGED vars
    /\ IF part = "slugs" THEN TRUE ELSE UNCHANGED slugVars
    /\ IF part = "root" THEN TRUE ELSE UNCHANGED rootVars

Next ==
    \/ part = "deploys" /\ DeploysNext /\ OthersRest /\ UNCHANGED Beyond1
    \/ part = "deployment" /\ Deployment!DeploymentNext /\ OthersRest /\ UNCHANGED Beyond13
    \/ part = "removal" /\ Removal!DeploymentNext /\ OthersRest /\ UNCHANGED Beyond13
    \/ part = "images" /\ Images!ImagesNext /\ OthersRest /\ UNCHANGED Beyond15
    \/ part = "local" /\ Local!ImagesNext /\ OthersRest /\ UNCHANGED Beyond15
    \/ part = "stacks" /\ Stacks!StacksNext /\ OthersRest /\ UNCHANGED Beyond9
    \/ part = "plans" /\ Plans!PlanNext /\ OthersRest /\ UNCHANGED Beyond13
    \/ part = "packing" /\ Packing!PlanNext /\ OthersRest /\ UNCHANGED Beyond13
    \/ part = "late" /\ LateRemovals!SlugNext /\ OthersRest /\ UNCHANGED Beyond6
    \/ part = "slugs" /\ SlugNext /\ OthersRest /\ UNCHANGED Beyond1
    \/ part = "root" /\ RootNext /\ OthersRest /\ UNCHANGED Beyond1
    \/ part = "stays" /\ Stays!RootNext /\ OthersRest /\ UNCHANGED Beyond8
    \/ part = "migration" /\ Migration!MigNext /\ OthersRest
    \/ part = "workloads" /\ Workloads!WorkNext /\ OthersRest /\ UNCHANGED Beyond15

allVars == <<part,
            vars, slugVars, rootVars, v1, v2, v3, v4, v5, v6, v7, v8, v9, v10, v11, v12,
            v13, v14, v15, v16, v17, v18, v19>>

Spec == Init /\ [][Next]_allVars

-----------------------------------------------------------------------------
\* A slug that is free again has no leftovers of the app before, a stack finds
\* its secrets, and only a removal erases data (AppDeployment).  No claim of a
\* slug outlives its App, also while removals that were given up on still run
\* (SandboxSlugs).
DeploymentsAreClean ==
    /\ [](part = "deployment" => /\ Deployment!DeploymentTypeOK
                                /\ Deployment!FreeSlugIsClean
                                /\ Deployment!StackFindsItsSecrets
                                /\ Deployment!TasksAreKnown)
    /\ [][part = "deployment" => Deployment!SecretsOutliveDeploys]_allVars
    /\ [][part = "removal" => Removal!OnlyRemovalErases]_allVars
    /\ [](part = "late" => LateRemovals!ClaimsAreReleased)

\* A tag names the content it was built of, whoever built it, and a deployment
\* that is done has its images (TemplateImages).
ImagesAreTheirContent ==
    /\ [](part = "images" => /\ Images!ImagesTypeOK
                            /\ Images!TagNamesContent
                            /\ Images!DoneHasImages
                            /\ Images!NoBuildCut)
    /\ [][part = "images" => Images!NothingBuiltTwice]_allVars
    /\ [](part = "local" => Local!TagNamesContent /\ Local!DoneHasImages)

\* What the database says of environments, apps and zones is what the account
\* has, through faults and retries (EnvironmentStacks).
StacksMatchTheRows ==
    /\ [](part = "stacks" => /\ Stacks!StacksTypeOK
                            /\ Stacks!ReadyHasItsBase
                            /\ Stacks!DeployedHasItsStack
                            /\ Stacks!NothingLeftBehind
                            /\ Stacks!NetworksAreDisjoint
                            /\ Stacks!ZoneHasOneOwner
                            /\ Stacks!ReadyServesItsZone)
    /\ [][part = "stacks" => Stacks!TeardownNeedsAFault]_allVars

\* What a task runs with agrees with its template, its app and its
\* organization, whatever changed between the attempts (AppPlan).
PlansAgree ==
    /\ [](part = "plans" => /\ Plans!PlanTypeOK
                           /\ Plans!CapabilitiesAgree
                           /\ Plans!OrchestrationIsComplete
                           /\ Plans!SecretsAreItsOwn
                           /\ Plans!ValuesHaveOneOwner
                           /\ Plans!ProxyFrontsTheTask)
    /\ [][part = "plans" => Plans!OnlyEmptyIsFilled /\ Plans!PlaceholdersHeal]_allVars
    /\ [](part = "packing" => Packing!FloorsFitTheNode)

\* What a checkpoint saved is in the root of every later boot and checkpoint, on
\* one instance (PersistentRoot).
RootsComeBack == part = "stays" => Stays!CheckpointIsKept

\* A migration staged with the service gone lands, whatever phases failed, were run
\* in another order or were run again (RootMigration).
MigrationsLand == part = "migration" => Migration!RootSurvives

\* Commands, rollbacks, boots and crashes leave the routes and the daemon agreed with
\* the document, every web app in it that did not go with the whole document, and
\* nothing purged published (AppWorkloads), on a root that comes back with every task.
WorkloadsAreKept ==
    /\ []RootsComeBack
    /\ [](part = "workloads" => /\ Workloads!WorkTypeOK
                               /\ Workloads!PortsAreUnique
                               /\ Workloads!WebappsAreKept
                               /\ Workloads!RoutesMatchDocument
                               /\ Workloads!DaemonRunsDocument)
    /\ [][part = "workloads" => Workloads!PurgedIsUnpublished /\ Workloads!FrozenIsKept]_allVars
=============================================================================
