SPECIFICATION Spec
CONSTANTS
    Parts = {"deploys"}
    None = None
    Orgs = {"org"}
    Envs = {one}
    Users = {alice, bob}
    Admins = {alice}
    Slugs = {hermes, athena}
    Requests = {r1, r2}
    OrgOf <- OneOrg
    MaxAgents <- Plan
    Unlimited = Unlimited
    AgentTemplate = TRUE
    MaxSubmits = 4
    RemovalMayFail = TRUE
    Org = {o1, o2, o3}
    MaxApps = 4
    HostedZone = TRUE
    LateThreads = FALSE
    Host = {h1, h2}
    MaxWork = 2
    MaxImage = 2
    MaxTasks = 3
    MarkerEarly = FALSE
    Commands = {c1, c2}
INVARIANT
    AgentsAreWithinPlan
CHECK_DEADLOCK FALSE
