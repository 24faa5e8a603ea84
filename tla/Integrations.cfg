SPECIFICATION Spec
CONSTANTS
    Parts = {"slack", "telegram", "google", "accounts", "oauth", "alone", "shared", "edits"}
    None = None
    Users = {"ana", "bob"}
    People = {"ana", "bob"}
    Accounts <- Everyone
    SlackApps <- TwoApps
    Sessions = {"s1"}
    MaxApps = 1
    MaxMoves = 1
    MaxDisconnects = 1
    MaxSaves = 2
    Owners = {"ana", "bob"}
    Dialogs = {"s1", "s2"}
    MaxOwned = 1
    MaxTransfers = 1
    MaxPartings = 1
    Nobody = None
    Creators = {"p1"}
    MaxBots = 2
    MaxEdits = 1
    Page = 5
    AnswersAreLost = TRUE
    Provider = "github"
    Refresher = {"r1", "r2"}
    MaxGrants = 2
    MaxRotations = 3
    Lossy = TRUE
    Admin = {"a1", "a2"}
    Scope = {"everyone", "user"}
    MaxRows = 2
    MaxLogins = 2
    MaxTurns = 2
    Retargets = FALSE
    MayDie = FALSE
INVARIANTS
    SlackRowsAreSound
    BotsAreTheirOwners
    SharedLoginsStayValid
PROPERTIES
    LoginsFollowConsent
    RefreshesAreHarmless
CHECK_DEADLOCK FALSE
