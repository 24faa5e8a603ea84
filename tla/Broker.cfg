SPECIFICATION Spec
CONSTANTS
    Parts = {"credentials", "swaps", "directory", "funded", "relay", "tap", "tools", "faults", "public", "signins", "refreshes", "device", "marker"}
    None = None
    Nobody = Nobody
    Slugs = {"openrouter"}
    Configured = {}
    Bound = {"openrouter"}
    ModelProviders = {"openrouter"}
    Restarts <- RestartOnSave
    Tasks = {t1, t2}
    Operations = {"resync", "connect", "disconnect", "refresh_all"}
    Requests = {q1}
    MaxGeneration = 3
    MaxOperations = 2
    Flows = {1, 2}
    Refreshers = {1}
    Origins = {"default", "custom"}
    Rotates = TRUE
    Lossy = FALSE
    MaxCuts = 1
    MaxDowns = 1
    MaxExpiries = 1
    Inputs <- RelayInputs
    Responses <- RelayResponses
    Observed = TRUE
    Order <- BackendOrder
    Merge = "merge"
    ConnectorsOf <- OwnConnectors
    Natives = {"posthog"}
    Public = {}
    Tools = {"mail", "send", "flags", "query"}
    Offers <- OffersByScope
    Scopes = {"wide", "narrow"}
    Scoped = {"posthog"}
    Slots = {1, 2}
    MaxChanges = 2
    MaxRestarts = 1
    Failing = FALSE
INVARIANTS
    CredentialsAreSound
    ProcessesRunTheFile
    FramesAgree
    StreamsAreReadWhole
    CatalogIsCurrent
    SignInsAreSound
PROPERTIES
    SecretsAreInTheirPlace
    LoginsAndListingsAreSound
CHECK_DEADLOCK FALSE
