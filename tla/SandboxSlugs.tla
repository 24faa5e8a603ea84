---------------------------- MODULE SandboxSlugs ----------------------------
(***************************************************************************)
(* One app slug in the sandbox that all organizations share: deployments   *)
(* that reserve it, removals that release it, each a transaction of the    *)
(* database.  A reader sees committed rows, so also those whose deletion   *)
(* is not committed yet; an insert waits for an uncommitted row of its key.*)
(***************************************************************************)
EXTENDS Naturals, FiniteSets

CONSTANTS
    Org,            \* organizations
    MaxApps,        \* bound on the Apps ever created
    HostedZone,     \* whether HUMR_SANDBOX_HOSTED_ZONE is set
    LateThreads     \* whether removals that were given up on may still run

ASSUME SlugAssumption ==
    /\ MaxApps \in Nat \ {0}
    /\ HostedZone \in BOOLEAN
    /\ LateThreads \in BOOLEAN

VARIABLES
    app,        \* the App row each organization has under the slug
    claim,      \* SandboxSlugClaim: the row of the slug for each owner it may have
    deploy,     \* the deploy_from_template transaction of each organization
    removal,    \* the removal threads of each App, by its id
    created     \* Apps created so far: the next id

slugVars == <<app, claim, deploy, removal, created>>

Ids == 1 .. MaxApps
RowState == {"absent", "inserting", "live", "deleting"}
\* Rows other transactions see.
Committed == {"live", "deleting"}

\* An App; id 0 is one from before the claims.
NoApp == [state |-> "absent", id |-> 0]

SlugTypeOK ==
    /\ app \in [Org -> [state : RowState, id : 0 .. MaxApps]]
    /\ claim \in [Org -> RowState]
    /\ Cardinality({o \in Org : claim[o] # "absent"}) <= 1
    /\ deploy \in [Org -> {"idle", "begun", "labelled", "checked", "claimed", "created"}]
    /\ removal \in [0 .. MaxApps -> {"none", "working", "releasing", "given_up"}]
    /\ created \in 0 .. MaxApps

\* No App, or one organization with an App from before the claims.
SlugInit ==
    /\ \/ app = [o \in Org |-> NoApp]
       \/ \E p \in Org : app = [o \in Org |-> IF o = p THEN [state |-> "live", id |-> 0]
                                                       ELSE NoApp]
    /\ claim = [o \in Org |-> "absent"]
    /\ deploy = [o \in Org |-> "idle"]
    /\ removal = [i \in 0 .. MaxApps |-> "none"]
    /\ created = 0

-----------------------------------------------------------------------------
(* deploy_from_template: one at a time per organization, since it locks    *)
(* the organization's sandbox environment.                                 *)

Begin(o) ==
    /\ deploy[o] = "idle"
    /\ created < MaxApps
    /\ deploy' = [deploy EXCEPT ![o] = "begun"]
    /\ UNCHANGED <<app, claim, removal, created>>

AppVisible(o) == app[o].state \in Committed

\* The transaction ends without effect; what it inserted goes.
RolledBack(o) ==
    /\ deploy' = [deploy EXCEPT ![o] = "idle"]
    /\ claim' = [claim EXCEPT ![o] = IF @ = "inserting" THEN "absent" ELSE @]
    /\ app' = [app EXCEPT ![o] = IF @.state = "inserting" THEN NoApp ELSE @]
    /\ UNCHANGED <<removal, created>>

\* _raise_for_hostname_label_conflict: without a hosted zone it looks at nothing.
LabelFree == HostedZone => \A o \in Org : ~AppVisible(o)

CheckLabel(o) ==
    /\ deploy[o] = "begun"
    /\ \/ LabelFree /\ deploy' = [deploy EXCEPT ![o] = "labelled"]
                    /\ UNCHANGED <<app, claim, removal, created>>
       \/ ~LabelFree /\ RolledBack(o)

\* claim_sandbox_app_slug: no App of another organization.
NoConflict(o) == \A p \in Org \ {o} : ~AppVisible(p)

CheckApps(o) ==
    /\ deploy[o] = "labelled"
    /\ \/ NoConflict(o) /\ deploy' = [deploy EXCEPT ![o] = "checked"]
                        /\ UNCHANGED <<app, claim, removal, created>>
       \/ ~NoConflict(o) /\ RolledBack(o)

ClaimFound == \E p \in Org : claim[p] \in Committed

\* get_or_create finds a claim: the organization's own, also one that is just being
\* released, or another's.
FindClaim(o) ==
    /\ deploy[o] = "checked"
    /\ ClaimFound
    /\ \/ /\ claim[o] \in Committed
          /\ deploy' = [deploy EXCEPT ![o] = "claimed"]
          /\ UNCHANGED <<app, claim, removal, created>>
       \/ claim[o] \notin Committed /\ RolledBack(o)

\* get_or_create inserts; UNIQUE(slug) makes it wait for a row that another
\* transaction inserts or deletes, and find that one if it stays.
InsertClaim(o) ==
    /\ deploy[o] = "checked"
    /\ \A p \in Org : claim[p] = "absent"
    /\ claim' = [claim EXCEPT ![o] = "inserting"]
    /\ deploy' = [deploy EXCEPT ![o] = "claimed"]
    /\ UNCHANGED <<app, removal, created>>

\* App.objects.create; unique_app_slug_per_org makes it wait for a deletion and
\* fail on a row that stays.
InsertApp(o) ==
    /\ deploy[o] = "claimed"
    /\ \/ /\ app[o] = NoApp
          /\ created < MaxApps
          /\ app' = [app EXCEPT ![o] = [state |-> "inserting", id |-> created + 1]]
          /\ created' = created + 1
          /\ deploy' = [deploy EXCEPT ![o] = "created"]
          /\ UNCHANGED <<claim, removal>>
       \/ app[o].state = "live" /\ RolledBack(o)

Commit(o) ==
    /\ deploy[o] = "created"
    /\ app' = [app EXCEPT ![o].state = "live"]
    /\ claim' = [claim EXCEPT ![o] = IF @ = "inserting" THEN "live" ELSE @]
    /\ deploy' = [deploy EXCEPT ![o] = "idle"]
    /\ UNCHANGED <<removal, created>>

\* A later check refuses, a statement fails, the process dies.
Fail(o) == deploy[o] # "idle" /\ RolledBack(o)

-----------------------------------------------------------------------------
(* Removal of the App, and the teardown of a sandbox environment: both     *)
(* work on AWS first and end in the same transaction.                      *)

\* The worker claims the removal of an App; a removal that was given up on may be
\* retried while its thread still runs.
StartRemoval(o) ==
    /\ app[o].state = "live"
    /\ removal[app[o].id] = "none"
    /\ removal' = [removal EXCEPT ![app[o].id] = "working"]
    /\ UNCHANGED <<app, claim, deploy, created>>

\* release_sandbox_app_slug: the claim of the slug and the organization, if there is a
\* committed one.  The row is deleted when the transaction commits.
Release(o) == claim' = [claim EXCEPT ![o] = IF @ = "live" THEN "deleting" ELSE @]

\* Bug: the claim is deleted in a transaction of its own, before the App goes.
ReleaseFirst(o) ==
    /\ removal[app[o].id] = "working"
    /\ app[o].state = "live"
    /\ claim' = [claim EXCEPT ![o] = IF @ = "live" THEN "absent" ELSE @]
    /\ app' = [app EXCEPT ![o].state = "deleting"]
    /\ removal' = [removal EXCEPT ![app[o].id] = "releasing"]
    /\ UNCHANGED <<deploy, created>>
\* The final transaction, up to its commit.
DeleteRows(o) ==
    /\ removal[app[o].id] = "working"
    /\ app[o].state = "live"
    /\ Release(o)
    /\ app' = [app EXCEPT ![o].state = "deleting"]
    /\ removal' = [removal EXCEPT ![app[o].id] = "releasing"]
    /\ UNCHANGED <<deploy, created>>

\* With LateThreads, another thread of the same removal was given up on and still runs.
CommitRemoval(o) ==
    /\ app[o].state = "deleting"
    /\ app' = [app EXCEPT ![o] = NoApp]
    /\ claim' = [claim EXCEPT ![o] = IF @ = "deleting" THEN "absent" ELSE @]
    /\ removal' \in {[removal EXCEPT ![app[o].id] = s] :
                        s \in {"none"} \cup (IF LateThreads THEN {"given_up"} ELSE {})}
    /\ UNCHANGED <<deploy, created>>

\* AWS refuses, or the transaction fails: the App and its claim stay.
RemovalFails(o) ==
    /\ app[o].state \in Committed
    /\ removal[app[o].id] # "none"
    /\ app' = [app EXCEPT ![o].state = "live"]
    /\ claim' = [claim EXCEPT ![o] = IF @ = "deleting" THEN "live" ELSE @]
    /\ removal' = [removal EXCEPT ![app[o].id] = "none"]
    /\ UNCHANGED <<deploy, created>>

\* The late thread of an App that is gone deletes no App row, but the claim by slug
\* and organization.
LateRelease(o, i) ==
    /\ removal[i] = "given_up"
    /\ app[o].id # i
    /\ claim[o] # "deleting"
    /\ claim' = [claim EXCEPT ![o] = IF @ = "live" THEN "absent" ELSE @]
    /\ removal' = [removal EXCEPT ![i] = "none"]
    /\ UNCHANGED <<app, deploy, created>>

DeployStep(o) ==
    \/ Begin(o) \/ CheckLabel(o) \/ CheckApps(o) \/ FindClaim(o) \/ InsertClaim(o)
    \/ InsertApp(o) \/ Commit(o) \/ Fail(o)

RemovalStep(o) ==
    \/ StartRemoval(o) \/ DeleteRows(o) \/ CommitRemoval(o) \/ RemovalFails(o)
    \/ \E i \in Ids : LateRelease(o, i)

SlugNext == \E o \in Org : DeployStep(o) \/ RemovalStep(o)

SlugSpec == SlugInit /\ [][SlugNext]_slugVars

-----------------------------------------------------------------------------
(* Properties                                                              *)

\* The sandbox is "a single, global, first-come namespace": no two organizations own
\* an App of the slug, whatever their transactions overlap with.
SlugHasOneOwner ==
    \A o, p \in Org : AppVisible(o) /\ AppVisible(p) => o = p

\* An App of the sandbox has its claim, unless it is from before the claims: without
\* it, nothing decides between two first deployments.
AppHoldsItsClaim ==
    \A o \in Org : AppVisible(o) /\ app[o].id # 0 => claim[o] \in Committed

\* No claim outlives its App: the name is free after a removal, and a deployment that
\* failed has not taken it.
ClaimsAreReleased ==
    \A o \in Org : claim[o] \in Committed => AppVisible(o)

\* However first deployments of the slug overlap, it has one owner: a stack needs a
\* hosted zone, and no removal that was given up on still runs.
SlugsHaveOneOwner ==
    /\ SlugTypeOK
    /\ ClaimsAreReleased
    /\ HostedZone /\ ~LateThreads => SlugHasOneOwner /\ AppHoldsItsClaim
=============================================================================
