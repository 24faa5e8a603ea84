----------------------------- MODULE MCBilling -----------------------------
(***************************************************************************)
(* Credits, subscriptions, entitlement and cost, for TLC.  They share no   *)
(* state but the ledger, which StripeLifecycle brings along: a behaviour   *)
(* is one of a single component, the part, and the others rest.            *)
(***************************************************************************)
EXTENDS BrokerEntitlement, TLC

CONSTANTS
    Parts

VARIABLES
    part,  \* the component that moves, chosen once and for all
    \* The state of that component; of the instances below, in the order in which
    \* their modules declare it.
    v1, v2, v3, v4, v5, v6, v7, v8, v9, v10, v11, v12, v13, v14

\* Four usage events of two apps, one of an unknown model family; two resets.
FourApps == [e \in {"e1", "e2", "e3", "e4"} |-> IF e = "e3" THEN "a2" ELSE "a1"]
FourPrices == [e1 |-> 4, e2 |-> 6, e3 |-> 15, e4 |-> 5]
FourDates == [e1 |-> 0, e2 |-> 0, e3 |-> 0, e4 |-> 1]
FourRanks == [e1 |-> 1, e2 |-> 2, e3 |-> 3, e4 |-> 4]
TwoResets == [k \in {<<"k1">>, <<"k2">>} |-> IF k = <<"k1">> THEN 2 ELSE 5]
NoEvents == [e \in {} |-> 0]

\* The resets that Stripe's events may ask for, and what each one grants.
KeysOf(subs, events, seconds) ==
    {<<"restart", id>> : id \in 1..events} \cup {<<"period", s, p>> : s \in subs, p \in 1..seconds}
GrantByPlan(k) == IF k[1] = "restart" THEN 1 ELSE 5

\* What a component of fewer variables leaves at rest.
Beyond8 == <<v8, v9, v10, v11, v12, v13, v14>>
Rest8 ==
    v8 = 0 /\ v9 = 0 /\ v10 = 0 /\ v11 = 0 /\ v12 = 0 /\ v13 = 0 /\ v14 = 0
Beyond1 == <<v1, v2, v3, v4, v5, v6, v7, Beyond8>>
Rest1 ==
    v1 = 0 /\ v2 = 0 /\ v3 = 0 /\ v4 = 0 /\ v5 = 0 /\ v6 = 0 /\ v7 = 0 /\ Rest8

Ledger == INSTANCE BillingLedger WITH
    Events <- {"e1", "e2", "e3", "e4"}, Apps <- {"a1", "a2"}, AppOf <- FourApps,
    Price <- FourPrices, OccurredOn <- FourDates, Rank <- FourRanks,
    Carded <- {"e2", "e3", "e4"}, Passes <- {"p1", "p2"}, MaxEventsPerPass <- 2,
    Horizon <- 1, LastDay <- 2, TrialCredits <- 1, Resets <- {<<"k1">>, <<"k2">>},
    GrantOf <- TwoResets, today <- v1, carded <- v2, reported <- v3, ratedOn <- v4,
    ledger <- v5, balance <- v6, pass <- v7
ASSUME Ledger!LedgerAssumption

OneSub == INSTANCE StripeLifecycle WITH
    Events <- {}, Apps <- {"a1"}, AppOf <- NoEvents, Price <- NoEvents,
    OccurredOn <- NoEvents, Rank <- NoEvents, Carded <- {}, Passes <- {"p1"},
    MaxEventsPerPass <- 1, Horizon <- 1, LastDay <- 0, TrialCredits <- 1,
    Resets <- KeysOf({"A"}, 8, 4),
    GrantOf <- [k \in KeysOf({"A"}, 8, 4) |-> GrantByPlan(k)], Subs <- {"A"}, NoSub <- "no",
    Plans <- {"trial", "team"}, OneAtATime <- TRUE, CancelTies <- TRUE, MaxEvents <- 8,
    LastSecond <- 4, today <- v1, carded <- v2, reported <- v3, ratedOn <- v4, ledger <- v5,
    balance <- v6, pass <- v7, second <- v8, stripe <- v9, sent <- v10, checkouts <- v11,
    applied <- v12, mirror <- v13, plan <- v14
ASSUME OneSub!StripeAssumption

TwoSubs == INSTANCE StripeLifecycle WITH
    Events <- {"e1"}, Apps <- {"a1"}, AppOf <- [e \in {"e1"} |-> "a1"],
    Price <- [e \in {"e1"} |-> 15], OccurredOn <- [e \in {"e1"} |-> 0],
    Rank <- [e \in {"e1"} |-> 1], Carded <- {"e1"}, Passes <- {"p1"}, MaxEventsPerPass <- 1,
    Horizon <- 1, LastDay <- 0, TrialCredits <- 1, Resets <- KeysOf({"A", "B"}, 5, 4),
    GrantOf <- [k \in KeysOf({"A", "B"}, 5, 4) |-> GrantByPlan(k)], Subs <- {"A", "B"},
    NoSub <- "no", Plans <- {"trial", "team"}, OneAtATime <- TRUE, CancelTies <- TRUE,
    MaxEvents <- 5, LastSecond <- 4, today <- v1, carded <- v2, reported <- v3,
    ratedOn <- v4, ledger <- v5, balance <- v6, pass <- v7, second <- v8, stripe <- v9,
    sent <- v10, checkouts <- v11, applied <- v12, mirror <- v13, plan <- v14
ASSUME TwoSubs!StripeAssumption

Costs == INSTANCE CostRefresh WITH
    MaxDay <- 4, MaxPerDay <- 1, MaxJobs <- 2, Retention <- 5, Disturbances <- {"crash"},
    today <- v1, happened <- v2, delivered <- v3, row <- v4, job <- v5, thread <- v6,
    removing <- v7
ASSUME Costs!CostAssumption

Queries == INSTANCE CostRefresh WITH
    MaxDay <- 4, MaxPerDay <- 1, MaxJobs <- 3, Retention <- 3,
    Disturbances <- {"crash", "query"}, today <- v1, happened <- v2, delivered <- v3,
    row <- v4, job <- v5, thread <- v6, removing <- v7
ASSUME Queries!CostAssumption

Init ==
    /\ part \in Parts
    /\ BrokerInit
    /\ part # "entitlement" => ~exhausted
    /\ \/ part = "entitlement" /\ Rest1
       \/ part = "ledger" /\ Ledger!LedgerInit /\ Rest8
       \/ part = "stripe" /\ OneSub!BillingInit
       \/ part = "resubscribed" /\ TwoSubs!BillingInit
       \/ part = "costs" /\ Costs!CostInit /\ Rest8
       \/ part = "queries" /\ Queries!CostInit /\ Rest8

\* One component takes a step of its own, the others rest.
OthersRest ==
    /\ part' = part
    /\ IF part = "entitlement" THEN TRUE ELSE UNCHANGED brokerVars

Next ==
    \/ part = "entitlement" /\ BrokerNext /\ OthersRest /\ UNCHANGED Beyond1
    \/ part = "ledger" /\ Ledger!LedgerNext /\ OthersRest /\ UNCHANGED Beyond8
    \/ part = "stripe" /\ OneSub!BillingNext /\ OthersRest
    \/ part = "resubscribed" /\ TwoSubs!BillingNext /\ OthersRest
    \/ part = "costs" /\ Costs!CostNext /\ OthersRest /\ UNCHANGED Beyond8
    \/ part = "queries" /\ Queries!CostNext /\ OthersRest /\ UNCHANGED Beyond8

allVars == <<part,
            brokerVars, v1, v2, v3, v4, v5, v6, v7, v8, v9, v10, v11, v12, v13, v14>>

Spec == Init /\ [][Next]_allVars

-----------------------------------------------------------------------------
\* No interleaving of rating passes, grants and resets loses, doubles or misprices
\* a movement of the balance, nor wipes credits by a replay (BillingLedger).
LedgerIsExact ==
    /\ [](part = "ledger" => /\ Ledger!LedgerTypeOK
                            /\ Ledger!BalanceIsLedgerSum
                            /\ Ledger!DayChargesAreExact)
    /\ [][part = "ledger" => Ledger!WriteOffOnlyWithGrant]_allVars

\* However late and in whatever order Stripe's events arrive, only paid periods
\* are granted, the plan is the one that Stripe's state implies, and each drop
\* from Operator to Trial restarts the trial exactly once (StripeLifecycle).
StripeIsFollowed ==
    /\ [](part = "stripe" => /\ OneSub!BillingTypeOK
                             /\ OneSub!GrantsArePaid
                             /\ OneSub!PlanFollowsStripe
                             /\ OneSub!PaidPeriodGranted
                             /\ OneSub!CancellationSticks)
    /\ [][part = "stripe" => OneSub!EachDropRestartsTrial]_allVars
    /\ [](part = "resubscribed" => TwoSubs!GrantsArePaid /\ TwoSubs!BalanceIsLedgerSum)

\* No crash, midnight or missed run freezes a cost that was read too early, and
\* no failed query changes a frozen one (CostRefresh).
FrozenCostsAreFinal ==
    /\ [](part = "costs" => /\ Costs!CostTypeOK
                           /\ Costs!OneRefreshPerApp
                           /\ Costs!FinalIsComplete
                           /\ Costs!GapsAreRecomputed)
    /\ [][part = "queries" => Queries!FinalNeverChanges]_allVars
=============================================================================
