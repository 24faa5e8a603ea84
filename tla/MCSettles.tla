----------------------------- MODULE MCSettles -----------------------------
(***************************************************************************)
(* What has to come to an end, for TLC: under the fairness each component  *)
(* states, its loops, handlers and jobs settle.  The parts share no state: *)
(* a behaviour is one of a single part, and the others rest in an initial  *)
(* state.                                                                  *)
(***************************************************************************)
EXTENDS Sequences, TLC

CONSTANTS
    Parts

VARIABLES
    part,  \* the component that moves, chosen once and for all
    exhausted, changes, cache, lockHolder, caller, buffered, post,
    today, carded, reported, ratedOn, ledger, balance, pass,
    request, baseline, role, thread, editor, environment, pJob, approved, overtaken, touched,
    form, status, zone, app, stacks, pc, plan, faults,
    doc, webRoutes, front, daemon, wLock, cli, boot, source, tomb, project, wMarker, wanted,
    wLost, budget,
    client, token, disk, flow, pending, refresh, regs, live, issued, spent, uses, cut, late,
    hLost, cuts, downs, expiries,
    dSession, dLock, dJob, code, tab, posts, row, card, dMarker, writers, used, stored,
    disturbed,
    user, linked, current, member, roles, bootstrap, default, invite, mSession, revoking,
    edits, crashes,
    granted, allowed, public, decisions, visit, closed, barred

\* BillingLedger: three usage events of one app, the first without a price yet.
OneApp == [e \in {"e1", "e2", "e3"} |-> "a1"]
Prices == [e1 |-> 4, e2 |-> 6, e3 |-> 15]
Dates == [e1 |-> 0, e2 |-> 0, e3 |-> 1]
Ranks == [e1 |-> 1, e2 |-> 2, e3 |-> 3]

entitlementState ==
    <<exhausted, changes, cache, lockHolder, caller, buffered, post>>
ledgerState ==
    <<today, carded, reported, ratedOn, ledger, balance, pass>>
permissionsState ==
    <<request, baseline, role, thread, editor, environment, pJob, approved, overtaken,
      touched>>
stacksState ==
    <<form, status, zone, app, stacks, pc, plan, faults>>
workloadsState ==
    <<doc, webRoutes, front, daemon, wLock, cli, boot, source, tomb, project, wMarker,
      wanted, wLost, budget>>
refreshesState ==
    <<client, token, disk, flow, pending, refresh, regs, live, issued, spent, uses, cut,
      late, hLost, cuts, downs, expiries>>
deviceState ==
    <<dSession, dLock, dJob, code, tab, posts, row, card, dMarker, writers, used, stored,
      disturbed>>
loginsState ==
    <<user, linked, current, member, roles, bootstrap, default, invite, mSession, revoking,
      edits, crashes>>
cacheState ==
    <<granted, allowed, public, decisions, visit, closed, barred>>

Entitlement == INSTANCE BrokerEntitlement WITH
    Requests <- {"r1", "r2"}, Displays <- {}, NoCaller <- "none", MaxBuffered <- 1,
    MaxEventsPerReport <- 1, MaxChanges <- 1

Ledger == INSTANCE BillingLedger WITH
    Events <- {"e1", "e2", "e3"}, Apps <- {"a1"}, AppOf <- OneApp, Price <- Prices,
    OccurredOn <- Dates, Rank <- Ranks, Carded <- {"e2", "e3"}, Passes <- {"p1", "p2"},
    MaxEventsPerPass <- 2, Horizon <- 1, LastDay <- 2, TrialCredits <- 1, Resets <- {},
    GrantOf <- [k \in {} |-> 0]
ASSUME Ledger!LedgerAssumption

Permissions == INSTANCE PermissionRequests WITH
    Grant <- {"read"}, Editor <- {"editor"}, MaxRequests <- 1,
    Disturbances <- {"crash", "teardown"}, job <- pJob

Stacks == INSTANCE EnvironmentStacks WITH
    Envs <- {"prod"}, Apps <- {"notes"},
    SlugOf <- [prod |-> <<"prod">>, notes |-> <<"notes">>], HomeOf <- [notes |-> "prod"],
    Zones <- {}, NoZone <- "nozone", Blocks <- 2, CustomerVpcs <- {{1}}, Workers <- 1,
    FormsOverlap <- FALSE, LookupFails <- FALSE, MaxFaults <- 2
ASSUME Stacks!StacksAssumption

Workloads == INSTANCE AppWorkloads WITH
    Cli <- {"c1", "c2"}, Webui <- "webui", WebApp <- {"admin", "demo"}, Widget <- {"clock"},
    Admin <- "admin", Example <- "demo", MaxPort <- 2, MaxCommands <- 2, MaxCrashes <- 1,
    MaxEdits <- 0, PortsByHand <- FALSE, lock <- wLock, marker <- wMarker, lost <- wLost
ASSUME Workloads!WorkAssumption

Refreshes == INSTANCE DcrOAuth WITH
    Flows <- {1}, Refreshers <- {1, 2}, Origins <- {"default"}, Rotates <- TRUE,
    Lossy <- TRUE, MaxCuts <- 1, MaxDowns <- 1, MaxExpiries <- 2, lost <- hLost

Device == INSTANCE DeviceFlow WITH
    Providers <- {"nous"}, TwoStep <- {}, Tabs <- {"t1", "t2"}, MaxLogins <- 1,
    MaxPresses <- 2, MaxDisconnects <- 0, MaxRestarts <- 0, Faults <- TRUE,
    session <- dSession, lock <- dLock, job <- dJob, marker <- dMarker
ASSUME Device!DeviceAssumption

Logins == INSTANCE Memberships WITH
    Provider <- "oidc", People <- {"ann", "bob", "eve"}, Founder <- "ann",
    Existing <- {"ann", "eve"}, Invites <- {}, MaxEdits <- 2, MaxCrashes <- 0,
    session <- mSession

Cache == INSTANCE PolicyProxy WITH
    Webapp <- {"w1", "w2"}, User <- {}, Agent <- "agent", Nobody <- "nobody",
    Visit <- {"v1"}, PdpTTL <- 0, PublicTTL <- 2, MaxEntries <- 1, Flight <- 1

Init ==
    /\ part \in Parts
    /\ Entitlement!BrokerInit
    /\ part # "entitlement" => ~exhausted
    /\ Ledger!LedgerInit
    /\ Permissions!PermInit
    /\ part # "permissions" => role.exists
    /\ Stacks!StacksInit
    /\ Workloads!WorkInit
    /\ Refreshes!DcrInit
    /\ Device!Init
    /\ Logins!MembershipInit
    /\ Cache!ProxyInit

\* One component takes a step of its own, the others rest.
Still(name, state) == IF part = name THEN TRUE ELSE UNCHANGED state
OthersRest ==
    /\ part' = part
    /\ Still("entitlement", entitlementState)
    /\ Still("ledger", ledgerState)
    /\ Still("permissions", permissionsState)
    /\ Still("stacks", stacksState)
    /\ Still("workloads", workloadsState)
    /\ Still("refreshes", refreshesState)
    /\ Still("device", deviceState)
    /\ Still("logins", loginsState)
    /\ Still("cache", cacheState)

Next ==
    \/ part = "entitlement" /\ Entitlement!BrokerNext /\ OthersRest
    \/ part = "ledger" /\ Ledger!LedgerNext /\ OthersRest
    \/ part = "permissions" /\ Permissions!PermNext /\ OthersRest
    \/ part = "stacks" /\ Stacks!StacksNext /\ OthersRest
    \/ part = "workloads" /\ Workloads!WorkNext /\ OthersRest
    \/ part = "refreshes" /\ Refreshes!DcrNext /\ OthersRest
    \/ part = "device" /\ Device!Next /\ OthersRest
    \/ part = "logins" /\ Logins!MembershipNext /\ OthersRest
    \/ part = "cache" /\ Cache!ProxyNext /\ OthersRest

allVars == <<part,
            entitlementState, ledgerState, permissionsState, stacksState, workloadsState,
            refreshesState, deviceState, loginsState, cacheState>>

Spec == Init /\ [][Next]_allVars

FairSpec ==
    /\ Spec
    /\ \/ part = "entitlement" /\ Entitlement!BrokerFairness
       \/ part = "ledger" /\ Ledger!LedgerFairness
       \/ part = "permissions" /\ Permissions!PermFairness
       \/ part = "stacks" /\ Stacks!StacksFairness
       \/ part = "workloads" /\ Workloads!WorkFairness
       \/ part = "refreshes" /\ Refreshes!DcrFairness
       \/ part = "device" /\ Device!DeviceFairness
       \/ part = "logins" /\ Logins!MembershipFairness
       \/ part = "cache"

-----------------------------------------------------------------------------
\* The control plane comes to an end: whatever passes fail, every event that has a
\* price in time is rated; whoever dies, an approved request is applied or reported
\* and a teardown ends; and whoever keeps logging in becomes a member, in an
\* organization nobody is left halfway into (BillingLedger, PermissionRequests,
\* EnvironmentStacks, Memberships).  A webapp whose grant ended is closed in time by a
\* proxy whose cache is full, too (PolicyProxy).
ControlPlaneSettles ==
    /\ part = "ledger" => Ledger!PriceableEventsRated
    /\ part = "permissions" => Permissions!ApprovedSettles
    /\ part = "stacks" => Stacks!TeardownsEnd
    /\ part = "logins" => Logins!LoginsAdmit
    /\ [](part = "logins" => Logins!MembershipsAreWhole)
    /\ [](part = "cache" => Cache!AccessEnds)

\* So does the container: a sandbox whose credits are back is not refused for ever
\* while it keeps asking, the runtime comes up again after a crash, and commands,
\* token refreshes and dialogs end, whatever the providers answer
\* (BrokerEntitlement, AppWorkloads, DcrOAuth, DeviceFlow).
ContainerSettles ==
    /\ part = "entitlement" => Entitlement!RefusalsEnd
    /\ part = "workloads" => Workloads!ComesUpAgain /\ Workloads!CommandsEnd
    /\ part = "refreshes" => Refreshes!HandlersEnd
    /\ part = "device" => Device!DialogsEnd
=============================================================================
