SPECIFICATION Spec
CONSTANTS
    Parts = {"permissions"}
    Pair = {m1, m2}
    Grant = {g1}
    Editor = {e1}
    MaxRequests = 2
    Disturbances = {"crash"}
    Provider = "workos"
    People = {"ann", "bob", "eve"}
    Founder = "ann"
    Existing = {"eve"}
    Invites = {"i1", "i2"}
    MaxEdits = 1
    MaxCrashes = 1
    Users = {"ann", "bob"}
    Groups = {"staff"}
    FirstAdmin = "ann"
    Workspaces = {"lab", "shop"}
    Apps = {"notes"}
    Home <- Homes
    Credentials = {"key"}
    EditPairs <- RoleOrTeam
    EditTags <- Team
    AdminPolicies <- PlainPolicies
    MaxPageEdits = 2
    Webapp = {w1}
    User = {u1}
    Agent = agent
    Nobody = nobody
    Visit = {m1, m2}
    PdpTTL = 1
    PublicTTL = 1
    MaxEntries = 1
    Flight = 1
INVARIANT AppliedIsApproved
CHECK_DEADLOCK FALSE
