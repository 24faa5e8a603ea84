---------------------------- MODULE AgentDeploys ----------------------------
(***************************************************************************)
(* New agents: the deploy form, the one transaction that checks the plan   *)
(* of the organization and creates the App row, and what may happen around *)
(* it: another form, a removal, a teardown of the environment, a removal   *)
(* that fails, a member who leaves.  AppJobs has what follows the first    *)
(* queued deployment, SandboxSlugs the claims of the shared sandbox.       *)
(***************************************************************************)
EXTENDS Integers, FiniteSets

CONSTANTS
    Orgs, Envs, Users, Slugs,
    Requests,       \* deploy forms in flight
    OrgOf,          \* the organization of an environment
    Admins,         \* users who are administrators of every organization
    MaxAgents,      \* max_agents of the effective plan, Unlimited for none
    Unlimited,
    AgentTemplate,  \* the form deploys a personal agent
    MaxSubmits,     \* how many forms are submitted
    RemovalMayFail, \* a removal may fail and leave its app
    None

ASSUME DeploysAssumption ==
    /\ OrgOf \in [Envs -> Orgs]
    /\ Admins \subseteq Users
    /\ MaxAgents \in [Orgs -> Nat \cup {Unlimited}]
    /\ MaxSubmits \in Nat
    /\ {AgentTemplate, RemovalMayFail} \subseteq BOOLEAN

VARIABLES
    apps,      \* the App rows
    ready,     \* the environments whose status is READY
    members,   \* the OrganizationMembership rows, one organization each
    held,      \* the request that holds the row lock of an environment
    pc, form,  \* the step of a request, and what it was submitted with
    submits

vars == <<apps, ready, members, held, pc, form, submits>>

DeploysInit ==
    /\ apps = {}
    /\ ready = Envs
    /\ members = Users
    /\ held = [e \in Envs |-> None]
    /\ pc = [r \in Requests |-> "idle"]
    /\ form = [r \in Requests |-> None]
    /\ submits = 0

AppsOf(org) == {a \in apps : OrgOf[a.env] = org}

\* A removal in flight no longer counts.
LiveAgents(org) == {a \in AppsOf(org) : a.owner # None /\ a.job # "removal"}

-----------------------------------------------------------------------------
(* The form: what is checked before the transaction. *)

\* Only an administrator deploys an agent for somebody else.
OwnerOf(user, submitted) ==
    IF ~AgentTemplate THEN None ELSE IF user \in Admins THEN submitted ELSE user

Submit(r, user, env, slug, submitted) ==
    /\ pc[r] = "idle" /\ submits < MaxSubmits
    /\ user \in members
    /\ ~ \E a \in AppsOf(OrgOf[env]) : a.slug = slug
    /\ AgentTemplate /\ user \in Admins => submitted \in members
    /\ form' = [form EXCEPT ![r] = [user |-> user, env |-> env, slug |-> slug,
                                    owner |-> OwnerOf(user, submitted)]]
    /\ pc' = [pc EXCEPT ![r] = "submitted"]
    /\ submits' = submits + 1
    /\ UNCHANGED <<apps, ready, members, held>>

-----------------------------------------------------------------------------
(* The transaction.  It holds the row lock of the environment from its     *)
(* first statement to its end.                                             *)

TakesLock(r, env) == held[env] = None /\ held' = [held EXCEPT ![env] = r]

LockEnvironment(r) ==
    /\ pc[r] = "submitted"
    /\ TakesLock(r, form[r].env)
    /\ pc' = [pc EXCEPT ![r] = IF form[r].env \in ready THEN "locked" ELSE "refused"]
    /\ UNCHANGED <<apps, ready, members, form, submits>>

\* Bug: one agent more than the plan has.
WithinPlanOneMore(org) == MaxAgents[org] = Unlimited \/ Cardinality(LiveAgents(org)) <= MaxAgents[org]

WithinPlan(org) == MaxAgents[org] = Unlimited \/ Cardinality(LiveAgents(org)) < MaxAgents[org]

CheckAgentLimit(r) ==
    LET org == OrgOf[form[r].env] IN
    /\ pc[r] = "locked"
    /\ pc' = [pc EXCEPT ![r] = IF AgentTemplate => WithinPlan(org) THEN "counted" ELSE "refused"]
    /\ UNCHANGED <<apps, ready, members, held, form, submits>>

NewApp(f) == [env |-> f.env, slug |-> f.slug, owner |-> f.owner, by |-> f.user, job |-> "deploy"]

Unlocked(r) == [e \in Envs |-> IF held[e] = r THEN None ELSE held[e]]

\* Bug: the rows of the table are not unique.
SlugTakenNever(f) == FALSE

\* The constraint unique_app_slug_per_org.
SlugTaken(f) == \E a \in AppsOf(OrgOf[f.env]) : a.slug = f.slug

\* The row and its tags are inserted and committed together, or not at all.
CreateApp(r) ==
    /\ pc[r] = "counted"
    /\ IF SlugTaken(form[r])
       THEN /\ pc' = [pc EXCEPT ![r] = "refused"]
            /\ UNCHANGED <<apps, held>>
       ELSE /\ apps' = apps \cup {NewApp(form[r])}
            /\ pc' = [pc EXCEPT ![r] = "idle"]
            /\ held' = Unlocked(r)
    /\ UNCHANGED <<ready, members, form, submits>>

RollBack(r) ==
    /\ pc[r] = "refused"
    /\ pc' = [pc EXCEPT ![r] = "idle"]
    /\ held' = Unlocked(r)
    /\ UNCHANGED <<apps, ready, members, form, submits>>

-----------------------------------------------------------------------------
(* What happens around it. *)

WithJob(a, job) == (apps \ {a}) \cup {[a EXCEPT !.job = job]}

\* Deployments end; one that ends leaves the app idle.
DeployEnds(a) ==
    /\ a.job = "deploy"
    /\ apps' = WithJob(a, "idle")
    /\ UNCHANGED <<ready, members, held, pc, form, submits>>

QueueRemoval(a) ==
    /\ a.job = "idle"
    /\ apps' = WithJob(a, "removal")
    /\ UNCHANGED <<ready, members, held, pc, form, submits>>

RemovalEnds(a) ==
    /\ a.job = "removal"
    /\ \/ apps' = apps \ {a}
       \/ RemovalMayFail /\ apps' = WithJob(a, "idle")
    /\ UNCHANGED <<ready, members, held, pc, form, submits>>

\* Teardown is admitted under the same row lock, when no job is in flight, and
\* takes the rows of the apps with it.
QueueTeardown(env) ==
    /\ env \in ready /\ held[env] = None
    /\ \A a \in apps : a.env = env => a.job = "idle"
    /\ ready' = ready \ {env}
    /\ UNCHANGED <<apps, members, held, pc, form, submits>>

TeardownEnds(env) ==
    /\ env \notin ready /\ \E a \in apps : a.env = env
    /\ apps' = {a \in apps : a.env # env}
    /\ UNCHANGED <<ready, members, held, pc, form, submits>>

Leaves(user) ==
    /\ user \in members \ Admins
    /\ members' = members \ {user}
    /\ UNCHANGED <<apps, ready, held, pc, form, submits>>

DeploysNext ==
    \/ \E r \in Requests :
        \/ \E user, owner \in Users, env \in Envs, slug \in Slugs : Submit(r, user, env, slug, owner)
        \/ LockEnvironment(r) \/ CheckAgentLimit(r) \/ CreateApp(r) \/ RollBack(r)
    \/ \E a \in apps : DeployEnds(a) \/ QueueRemoval(a) \/ RemovalEnds(a)
    \/ \E env \in Envs : QueueTeardown(env) \/ TeardownEnds(env)
    \/ \E user \in Users : Leaves(user)

DeploysSpec == DeploysInit /\ [][DeploysNext]_vars

-----------------------------------------------------------------------------

AppRecords ==
    [env : Envs, slug : Slugs, owner : Users \cup {None}, by : Users, job : {"deploy", "idle", "removal"}]

\* The variables have their types, and a request holds the row of the
\* environment it deploys to, exactly while its transaction is open.
DeploysTypeOK ==
    /\ apps \subseteq AppRecords
    /\ ready \subseteq Envs /\ members \subseteq Users
    /\ \A r \in Requests :
        /\ pc[r] \in {"idle", "submitted", "locked", "counted", "refused"}
        /\ pc[r] \in {"locked", "counted", "refused"} <=> \E e \in Envs : held[e] = r
        /\ pc[r] \in {"locked", "counted"} => held[form[r].env] = r

\* No two forms together take an organization past the number of agents its
\* plan has: a new agent is within it (_raise_for_agent_limit).
NewAgentsAreWithinPlan ==
    [][\A a \in apps' \ apps :
         LET org == OrgOf[a.env] IN
         (a.job = "deploy" /\ a.owner # None /\ MaxAgents[org] # Unlimited) =>
             Cardinality(LiveAgents(org)') <= MaxAgents[org]]_vars

\* An organization never has more agents than its plan.
AgentsAreWithinPlan ==
    \A org \in Orgs : MaxAgents[org] # Unlimited => Cardinality(LiveAgents(org)) <= MaxAgents[org]

\* No app has a job in an environment that was handed to teardown: admission
\* and creation take the same row lock (deploy_from_template).
NoJobInALeavingEnvironment == \A a \in apps : a.env \notin ready => a.job # "deploy"

\* Two apps of an organization never share a slug, whatever the form saw.
SlugsAreUnique ==
    \A a, b \in apps : (a # b /\ OrgOf[a.env] = OrgOf[b.env]) => a.slug # b.slug

\* An agent belongs to who deployed it, unless an administrator did.
OwnAgentsOnly == \A a \in apps : (a.owner # None /\ a.owner # a.by) => a.by \in Admins

\* What the runs check of the rows that deploys leave, whatever other forms,
\* removals and teardowns did between a form's steps (deploy_from_template).
DeploysAreSound ==
    /\ DeploysTypeOK
    /\ NoJobInALeavingEnvironment
    /\ SlugsAreUnique
    /\ OwnAgentsOnly
=============================================================================
