SPECIFICATION Spec
CONSTANTS
    Parts = {"entitlement", "ledger", "stripe", "resubscribed", "costs", "queries"}
    Requests = {r1, r2}
    Displays = {d1}
    NoCaller = NoCaller
    MaxBuffered = 2
    MaxEventsPerReport = 2
    MaxChanges = 2
PROPERTIES
    OwnAnswerUnblocks
    LedgerIsExact
    StripeIsFollowed
    FrozenCostsAreFinal
CHECK_DEADLOCK FALSE
