SPECIFICATION Spec
CONSTANTS
    Parts = {"deploys", "deployment", "removal", "images", "local", "stacks", "plans", "packing", "slugs", "late",
             "root", "stays", "migration", "workloads"}
    None = None
    Orgs = {"org"}
    Envs = {one}
    Users = {alice, bob}
    Admins = {alice}
    Slugs = {hermes, athena}
    Requests = {r1, r2}
    OrgOf <- OneOrg
    MaxAgents <- Plan
    Unlimited = Unlimited
    AgentTemplate = TRUE
    MaxSubmits = 4
    RemovalMayFail = FALSE
    Org = {o1, o2, o3}
    MaxApps = 4
    HostedZone = TRUE
    LateThreads = FALSE
    Host = {h1, h2}
    MaxWork = 2
    MaxImage = 2
    MaxTasks = 3
    MarkerEarly = FALSE
    Commands = {c1, c2}
INVARIANTS
    DeploysAreSound
    AgentsAreWithinPlan
    SlugsHaveOneOwner
    RootsAreSound
    MigrationsLand
PROPERTIES
    DeploymentsAreClean
    ImagesAreTheirContent
    StacksMatchTheRows
    PlansAgree
    WorkloadsAreKept
CHECK_DEADLOCK FALSE
