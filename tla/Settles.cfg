SPECIFICATION FairSpec
CONSTANT
    Parts = {"entitlement", "ledger", "permissions", "stacks", "workloads", "refreshes", "device", "logins", "cache"}
PROPERTIES
    ControlPlaneSettles
    ContainerSettles
CHECK_DEADLOCK FALSE
