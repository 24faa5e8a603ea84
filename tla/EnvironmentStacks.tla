------------------------- MODULE EnvironmentStacks -------------------------
(***************************************************************************)
(* The CloudFormation stacks of the environments of one AWS account and    *)
(* region: the base stacks an environment is provisioned with, the stack   *)
(* of each app, and the teardown that finds an environment's stacks by the *)
(* prefix of their names.  JobSystem has the status machine of one         *)
(* environment; here are several of them, and what each leaves in AWS.  A  *)
(* name is the sequence of its words, the parts between hyphens.           *)
(***************************************************************************)
EXTENDS Integers, FiniteSets, SequencesExt

CONSTANTS
    Envs, Apps,
    SlugOf,        \* the words of the slug of an environment or an app
    HomeOf,        \* the environment an app belongs to
    Zones, NoZone, \* hosted zones of the account
    Blocks,        \* how many /20 blocks the scan may choose from
    CustomerVpcs,  \* the blocks each VPC of the customer's own covers
    Workers,       \* environment jobs in flight together
    FormsOverlap,  \* two setup forms may be submitted at the same time
    LookupFails,   \* Route 53 may fail to answer the zone lookup
    MaxFaults      \* how often AWS or the worker fails

StacksAssumption ==
    /\ HomeOf \in [Apps -> Envs]
    /\ NoZone \notin Zones
    /\ \A a \in Apps : Len(SlugOf[a]) = 1   \* derive_app_slug leaves no hyphen
    /\ {Blocks, Workers, MaxFaults} \subseteq Nat
    /\ {FormsOverlap, LookupFails} \subseteq BOOLEAN

VARIABLES
    form,    \* the zone a setup form in progress was checked with
    status,  \* Environment.status; "absent" when there is no row
    zone,    \* Environment.shared_alb_hosted_zone
    app,     \* is the app deployed, as far as the database knows?
    stacks,  \* the stacks of the account
    pc,      \* the step of the executor thread of an environment
    plan,    \* its local variables
    faults

vars == <<form, status, zone, app, stacks, pc, plan, faults>>

BaseKinds == {"vpc", "cluster", "builder", "efs"}
BaseName(e, kind) == SlugOf[e] \o <<kind>>

AppName(a) == SlugOf[HomeOf[a]] \o SlugOf[a] \o <<"app">>
StacksNamed(name) == {s \in stacks : s.name = name}
NoPlan == [block |-> 0, https |-> FALSE, left |-> {}, todo |-> {}, round |-> 0, progress |-> FALSE]

StacksInit ==
    /\ form = [e \in Envs |-> "none"]
    /\ status = [e \in Envs |-> "absent"]
    /\ zone = [e \in Envs |-> NoZone]
    /\ app = [a \in Apps |-> "none"]
    /\ stacks = {}
    /\ pc = [e \in Envs |-> "idle"]
    /\ plan = [e \in Envs |-> NoPlan]
    /\ faults = 0

-----------------------------------------------------------------------------
(* The setup form.  The slug is unique by a constraint of the table, the   *)
(* zone only by the check that comes before the insert.                    *)

ZoneClaimants == {zone[e] : e \in {f \in Envs : status[f] # "absent"}} \ {NoZone}

CheckForm(e, z) ==
    /\ form[e] = "none" /\ status[e] = "absent"
    /\ FormsOverlap \/ (\A f \in Envs : form[f] = "none")
    /\ z \notin ZoneClaimants
    /\ form' = [form EXCEPT ![e] = "checked"]
    /\ zone' = [zone EXCEPT ![e] = z]
    /\ UNCHANGED <<status, app, stacks, pc, plan, faults>>

CreateEnvironment(e) ==
    /\ form[e] = "checked"
    /\ form' = [form EXCEPT ![e] = "none"]
    /\ status' = [status EXCEPT ![e] = "pending"]
    /\ UNCHANGED <<zone, app, stacks, pc, plan, faults>>

Requeue(e) ==
    /\ status[e] \in {"error", "ready"}
    /\ status' = [status EXCEPT ![e] = "pending"]
    /\ UNCHANGED <<form, zone, app, stacks, pc, plan, faults>>

-----------------------------------------------------------------------------
(* Provisioning. *)

HasWorker == Cardinality({e \in Envs : pc[e] # "idle"}) < Workers

GoesOn(e, step) == pc' = [pc EXCEPT ![e] = step]

Ends(e, result) ==
    /\ status' = [status EXCEPT ![e] = result]
    /\ GoesOn(e, "idle")
    /\ plan' = [plan EXCEPT ![e] = NoPlan]

ClaimProvisioning(e) ==
    /\ status[e] = "pending" /\ HasWorker
    /\ status' = [status EXCEPT ![e] = "provisioning"]
    /\ GoesOn(e, "cleanup")
    /\ UNCHANGED <<form, zone, app, stacks, plan, faults>>

CleanUpFailedStacks(e) ==
    /\ pc[e] = "cleanup"
    /\ stacks' = stacks \ {s \in stacks : /\ s.status = "rolled_back"
                                          /\ s.name \in {BaseName(e, k) : k \in BaseKinds}}
    /\ GoesOn(e, "read")
    /\ UNCHANGED <<form, status, zone, app, plan, faults>>

UsedBlocks ==
    UNION CustomerVpcs \cup {s.block : s \in {t \in stacks : t.kind = "vpc" /\ t.status = "complete"}}

FreeBlocks == (1..Blocks) \ UsedBlocks

FirstFree == CHOOSE b \in FreeBlocks : \A c \in FreeBlocks : b <= c

ServesZone(e, found) == zone[e] # NoZone /\ found

ReadAccount(e, found) ==
    LET mine == StacksNamed(BaseName(e, "vpc")) IN
    /\ pc[e] = "read"
    /\ found \/ LookupFails
    /\ mine # {} \/ FreeBlocks # {}
    /\ plan' = [plan EXCEPT ![e].block = IF mine # {} THEN (CHOOSE s \in mine : TRUE).block
                                         ELSE FirstFree,
                            ![e].https = ServesZone(e, found),
                            ![e].left = BaseKinds]
    /\ GoesOn(e, "deploy")
    /\ UNCHANGED <<form, status, zone, app, stacks, faults>>

PlainStack(e, kind, result) ==
    [name |-> BaseName(e, kind), kind |-> kind, owner |-> e, status |-> result, block |-> 0, https |-> FALSE]

VpcStack(e, result) == [PlainStack(e, "vpc", result) EXCEPT !.block = plan[e].block]

EcsClusterStack(e, result) == [PlainStack(e, "cluster", result) EXCEPT !.https = plan[e].https]

BaseStack(e, kind, result) ==
    CASE kind = "vpc" -> VpcStack(e, result)
      [] kind = "cluster" -> EcsClusterStack(e, result)
      [] OTHER -> PlainStack(e, kind, result)

\* CDK deploys one stack after the other, each after the ones it depends on.
IsNext(e, kind) ==
    /\ pc[e] = "deploy" /\ kind \in plan[e].left
    /\ kind = "vpc" \/ "vpc" \notin plan[e].left

\* The record *.zone can be created once.
RecordTaken(e, kind) ==
    /\ kind = "cluster" /\ plan[e].https
    /\ \E f \in Envs \ {e} : zone[f] = zone[e] /\ \E s \in StacksNamed(BaseName(f, "cluster")) : s.https

\* An export an app imports cannot be dropped by an update.
DropsAnImport(e, kind) ==
    /\ kind = "cluster" /\ ~plan[e].https
    /\ \E s \in StacksNamed(BaseName(e, "cluster")) : s.https
    /\ \E s \in stacks : s.kind = "app" /\ HomeOf[s.owner] = e

\* A stack that was rolled back can only be deleted.
Unusable(e, kind) == \E s \in StacksNamed(BaseName(e, kind)) : s.status = "rolled_back"

Refused(e, kind) == RecordTaken(e, kind) \/ DropsAnImport(e, kind) \/ Unusable(e, kind)

DeployStack(e, kind) ==
    /\ IsNext(e, kind) /\ ~Refused(e, kind)
    /\ stacks' = (stacks \ StacksNamed(BaseName(e, kind))) \cup {BaseStack(e, kind, "complete")}
    /\ plan' = [plan EXCEPT ![e].left = @ \ {kind}]
    /\ UNCHANGED <<form, status, zone, app, pc, faults>>

\* A stack that cannot be created is rolled back; one that exists stays as it is.
StackFails(e, kind) ==
    /\ IsNext(e, kind)
    /\ Refused(e, kind) \/ faults < MaxFaults
    /\ faults' = IF Refused(e, kind) THEN faults ELSE faults + 1
    /\ stacks' = IF StacksNamed(BaseName(e, kind)) # {} THEN stacks
                 ELSE stacks \cup {BaseStack(e, kind, "rolled_back")}
    /\ Ends(e, "error")
    /\ UNCHANGED <<form, zone, app>>

Provisioned(e) ==
    /\ pc[e] = "deploy" /\ plan[e].left = {}
    /\ Ends(e, "ready")
    /\ UNCHANGED <<form, zone, app, stacks, faults>>

\* Any call may raise, no block may be free, and the reaper settles what a dead
\* worker left.
JobFails(e) ==
    /\ pc[e] # "idle"
    /\ \/ faults < MaxFaults /\ faults' = faults + 1
       \/ /\ pc[e] = "read" /\ FreeBlocks = {} /\ StacksNamed(BaseName(e, "vpc")) = {}
          /\ UNCHANGED faults
    /\ Ends(e, "error")
    /\ UNCHANGED <<form, zone, app, stacks>>

-----------------------------------------------------------------------------
(* Apps: the stack of an app imports the exports of its environment's base *)
(* stacks, the HTTPS listener among them when the environment has a zone.  *)

AppStack(a) == [name |-> AppName(a), kind |-> "app", owner |-> a, status |-> "complete",
                block |-> 0, https |-> zone[HomeOf[a]] # NoZone]

ImportsResolve(a) ==
    LET e == HomeOf[a] IN
    \A k \in BaseKinds : \E s \in StacksNamed(BaseName(e, k)) :
        s.status = "complete" /\ (k = "cluster" /\ zone[e] # NoZone => s.https)

DeployApp(a) ==
    /\ status[HomeOf[a]] = "ready" /\ ImportsResolve(a)
    /\ stacks' = (stacks \ StacksNamed(AppName(a))) \cup {AppStack(a)}
    /\ app' = [app EXCEPT ![a] = "deployed"]
    /\ UNCHANGED <<form, status, zone, pc, plan, faults>>

TeardownApp(a) ==
    /\ app[a] = "deployed"
    /\ status[HomeOf[a]] = "ready" \/ pc[HomeOf[a]] = "apps"
    /\ stacks' = stacks \ StacksNamed(AppName(a))
    /\ app' = [app EXCEPT ![a] = "none"]
    /\ UNCHANGED <<form, status, zone, pc, plan, faults>>

-----------------------------------------------------------------------------
(* Teardown of a customer environment. *)

ClaimTeardown(e) ==
    /\ status[e] \in {"ready", "error"} /\ HasWorker
    /\ status' = [status EXCEPT ![e] = "tearing_down"]
    /\ GoesOn(e, "apps")
    /\ UNCHANGED <<form, zone, app, stacks, plan, faults>>

MaxRounds == 5

\* Bug: list_stacks is asked for the complete stacks only.
StacksOfComplete(e) == {s.name : s \in {t \in stacks : IsPrefix(SlugOf[e], t.name) /\ t.status = "complete"}}

StacksOf(e) == {s.name : s \in {t \in stacks : IsPrefix(SlugOf[e], t.name)}}

StartRound(e) ==
    /\ \/ pc[e] = "apps" /\ \A a \in Apps : HomeOf[a] = e => app[a] = "none"
       \/ pc[e] = "list"
    /\ StacksOf(e) # {}
    /\ plan' = [plan EXCEPT ![e].todo = StacksOf(e), ![e].progress = FALSE, ![e].round = @ + 1]
    /\ GoesOn(e, "round")
    /\ UNCHANGED <<form, status, zone, app, stacks, faults>>

\* CloudFormation keeps a stack whose exports are imported.
IsImported(s) ==
    \E t \in stacks :
        /\ t.status = "complete" /\ s.kind \in BaseKinds
        /\ \/ t.kind = "app" /\ HomeOf[t.owner] = s.owner
           \/ t.kind \in BaseKinds \ {"vpc"} /\ s.kind = "vpc" /\ t.owner = s.owner

\* A stack that is gone by now counts as deleted.
DeleteStack(e, name) ==
    LET doomed == {s \in StacksNamed(name) : ~IsImported(s)} IN
    /\ pc[e] = "round" /\ name \in plan[e].todo
    /\ \/ /\ stacks' = stacks \ doomed
          /\ plan' = [plan EXCEPT ![e].todo = @ \ {name},
                                  ![e].progress = @ \/ doomed = StacksNamed(name)]
          /\ UNCHANGED faults
       \/ /\ faults < MaxFaults /\ faults' = faults + 1
          /\ plan' = [plan EXCEPT ![e].todo = @ \ {name}]
          /\ UNCHANGED stacks
    /\ UNCHANGED <<form, status, zone, app, pc>>

EndRound(e) ==
    /\ pc[e] = "round" /\ plan[e].todo = {}
    /\ IF plan[e].progress /\ (plan[e].round < MaxRounds \/ StacksOf(e) = {})
       THEN GoesOn(e, "list") /\ UNCHANGED <<status, plan>>
       ELSE Ends(e, "error")
    /\ UNCHANGED <<form, zone, app, stacks, faults>>

\* Bug: an environment that has no stack to begin with is never done.
TornDownAfterRound(e) ==
    /\ pc[e] = "list" /\ StacksOf(e) = {}
    /\ Ends(e, "absent")
    /\ zone' = [zone EXCEPT ![e] = NoZone]
    /\ UNCHANGED <<form, app, stacks, faults>>

TornDown(e) ==
    /\ pc[e] \in {"apps", "list"} /\ StacksOf(e) = {}
    /\ \A a \in Apps : HomeOf[a] = e => app[a] = "none"
    /\ Ends(e, "absent")
    /\ zone' = [zone EXCEPT ![e] = NoZone]
    /\ UNCHANGED <<form, app, stacks, faults>>

-----------------------------------------------------------------------------

ProvisioningStep(e) ==
    \/ ClaimProvisioning(e) \/ CleanUpFailedStacks(e)
    \/ \E found \in BOOLEAN : ReadAccount(e, found)
    \/ \E kind \in BaseKinds : DeployStack(e, kind) \/ StackFails(e, kind)
    \/ Provisioned(e)

TeardownStep(e) ==
    \/ StartRound(e) \/ EndRound(e) \/ TornDown(e)
    \/ \E name \in plan[e].todo : DeleteStack(e, name)

StacksNext ==
    \/ \E e \in Envs :
        \/ \E z \in Zones \cup {NoZone} : CheckForm(e, z)
        \/ CreateEnvironment(e) \/ Requeue(e)
        \/ ProvisioningStep(e) \/ JobFails(e)
        \/ ClaimTeardown(e) \/ TeardownStep(e)
    \/ \E a \in Apps : DeployApp(a) \/ TeardownApp(a)

\* The worker thread goes on, and every call to AWS returns.
StacksFairness ==
    /\ \A e \in Envs : WF_vars(ProvisioningStep(e)) /\ WF_vars(TeardownStep(e))
    /\ \A a \in Apps : WF_vars(pc[HomeOf[a]] = "apps" /\ TeardownApp(a))

StacksSpec == StacksInit /\ [][StacksNext]_vars
FairStacksSpec == StacksSpec /\ StacksFairness

-----------------------------------------------------------------------------

StackRecords ==
    [name : {BaseName(e, k) : e \in Envs, k \in BaseKinds} \cup {AppName(a) : a \in Apps},
     kind : BaseKinds \cup {"app"}, owner : Envs \cup Apps,
     status : {"complete", "rolled_back"}, block : 0..Blocks, https : BOOLEAN]

\* The variables have their types, an account has one stack of a name, and an
\* environment has a thread exactly while its status says so.
StacksTypeOK ==
    /\ form \in [Envs -> {"none", "checked"}]
    /\ zone \in [Envs -> Zones \cup {NoZone}]
    /\ app \in [Apps -> {"none", "deployed"}]
    /\ stacks \subseteq StackRecords
    /\ \A s, t \in stacks : s.name = t.name => s = t
    /\ \A e \in Envs :
        /\ status[e] \in {"absent", "pending", "provisioning", "ready", "error", "tearing_down"}
        /\ pc[e] \in {"idle", "cleanup", "read", "deploy", "apps", "list", "round"}
        /\ status[e] = "provisioning" <=> pc[e] \in {"cleanup", "read", "deploy"}
        /\ status[e] = "tearing_down" <=> pc[e] \in {"apps", "list", "round"}

\* A READY environment has its four base stacks, complete and its own: no
\* teardown of another environment of the account reaches them, and none was
\* left rolled back (deploy, teardown).
ReadyHasItsBase ==
    \A e \in Envs : status[e] = "ready" =>
        \A k \in BaseKinds : \E s \in StacksNamed(BaseName(e, k)) : s.owner = e /\ s.status = "complete"

\* An app the database holds to be deployed has a stack of its own until its
\* environment is being torn down (teardown, AppStack).
DeployedHasItsStack ==
    \A a \in Apps :
        (app[a] = "deployed" /\ status[HomeOf[a]] # "tearing_down") => AppStack(a) \in stacks

\* When the row of an environment is deleted nothing it or its apps made is
\* left in the account (teardown lists every stack that is not deleted).
NothingLeftBehind ==
    \A e \in Envs : status[e] = "absent" =>
        \A s \in stacks : s.owner # e /\ (s.kind = "app" => HomeOf[s.owner] # e)

\* No two environments have overlapping networks, and none overlaps a VPC of
\* the customer (find_available_vpc_cidr).
NetworksAreDisjoint ==
    \A s \in stacks : (s.kind = "vpc" /\ s.status = "complete") =>
        /\ s.block \notin UNION CustomerVpcs
        /\ \A t \in stacks : (t.kind = "vpc" /\ t.status = "complete" /\ t.block = s.block) => t = s

\* An environment owns its hosted zone exclusively (zone_claimants).
ZoneHasOneOwner ==
    \A e, f \in Envs :
        (e # f /\ status[e] # "absent" /\ status[f] # "absent" /\ zone[e] # NoZone) => zone[e] # zone[f]

\* A READY environment with a zone has the HTTPS listener its apps import
\* (import_environment_infrastructure).
ReadyServesItsZone ==
    \A e \in Envs : (status[e] = "ready" /\ zone[e] # NoZone) =>
        \E s \in StacksNamed(BaseName(e, "cluster")) : s.https

\* Five rounds are enough and a round makes progress: a teardown fails only
\* when AWS or the worker failed (teardown).
TeardownNeedsAFault ==
    \A e \in Envs : (status[e] = "tearing_down" /\ status'[e] = "error") => faults' > 0

\* Every teardown ends, with the environment gone or with an error.
TeardownsEnd == \A e \in Envs : status[e] = "tearing_down" ~> status[e] # "tearing_down"
=============================================================================
