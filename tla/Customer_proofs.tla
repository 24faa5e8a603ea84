---------------------------- MODULE Customer_proofs --------------------------
(***************************************************************************)
(* Theorems about what a customer's account holds: new agents and their    *)
(* slugs, for any number of organizations, environments and forms, and the *)
(* persistent root of an agent with its migration, for any number of       *)
(* instances, images, tasks and works.                                     *)
(***************************************************************************)
EXTENDS AgentDeploys, SandboxSlugs, RootMigration, FiniteSetTheorems, TLAPS

(* New agents.  The row lock of the environment carries two arguments:     *)
(* between the check and the insert of one form no teardown is admitted,   *)
(* and no other form counts the agents.  The second holds for an           *)
(* organization with one environment, whose removals do not fail.  Across  *)
(* organizations, which share no row lock, the claim of a slug decides     *)
(* (SandboxSlugs), over rows that are not committed yet.                   *)

Stages == {"idle", "submitted", "locked", "counted", "refused"}
Open == {"locked", "counted", "refused"}
Forms == [user : Users, env : Envs, slug : Slugs, owner : Users \cup {None}]

FormsAreTyped ==
    /\ apps \subseteq AppRecords
    /\ ready \subseteq Envs /\ members \subseteq Users
    /\ pc \in [Requests -> Stages]
    /\ held \in [Envs -> Requests \cup {None}]
    /\ form \in [Requests -> Forms \cup {None}]
    /\ submits \in Nat

\* A form holds an owner it was allowed to name.
FormsAreOwn ==
    \A r \in Requests : pc[r] # "idle" =>
        /\ form[r] \in Forms
        /\ form[r].owner # None => AgentTemplate /\ (form[r].owner # form[r].user => form[r].user \in Admins)

\* The lock of a row is held by the open transaction that deploys to it.
LocksAreHeld ==
    /\ \A r \in Requests : pc[r] \in Open => held[form[r].env] = r
    /\ \A e \in Envs : held[e] # None => pc[held[e]] \in Open /\ form[held[e]].env = e

\* A checked environment stays ready until the row is written.
LockedIsReady == \A r \in Requests : pc[r] \in {"locked", "counted"} => form[r].env \in ready

DeploysIInv ==
    /\ FormsAreTyped /\ FormsAreOwn /\ LocksAreHeld /\ LockedIsReady
    /\ NoJobInALeavingEnvironment /\ SlugsAreUnique /\ OwnAgentsOnly

-----------------------------------------------------------------------------
LEMMA DeploysIInvStarts == DeploysInit => DeploysIInv
BY DEF DeploysInit, DeploysIInv, FormsAreTyped, FormsAreOwn, LocksAreHeld, LockedIsReady, Stages, Open,
   NoJobInALeavingEnvironment, SlugsAreUnique, OwnAgentsOnly

\* A transaction that ends gives back its own lock and no other.
LEMMA UnlockStays ==
    ASSUME None \notin Requests, FormsAreTyped, FormsAreOwn, LocksAreHeld, LockedIsReady, NEW r \in Requests,
           pc' = [pc EXCEPT ![r] = "idle"], held' = Unlocked(r), form' = form, ready' = ready
    PROVE  /\ pc' \in [Requests -> Stages] /\ held' \in [Envs -> Requests \cup {None}]
           /\ FormsAreOwn' /\ LocksAreHeld' /\ LockedIsReady'
<1>1. held' \in [Envs -> Requests \cup {None}] /\ pc' \in [Requests -> Stages]
  BY DEF FormsAreTyped, Unlocked, Stages
<1>2. \A q \in Requests : (q # r => pc'[q] = pc[q]) /\ pc'[r] = "idle"
  BY DEF FormsAreTyped
<1>3. \A e \in Envs : IF held[e] = r THEN held'[e] = None ELSE held'[e] = held[e]
  BY DEF Unlocked
<1>4. FormsAreOwn' /\ LockedIsReady'
  BY <1>2 DEF FormsAreOwn, LockedIsReady
<1>5. ASSUME NEW q \in Requests, pc'[q] \in Open PROVE held'[form'[q].env] = q
  <2>1. q # r /\ pc[q] \in Open
    BY <1>2, <1>5 DEF Open
  <2>2. form[q].env \in Envs
    BY <2>1 DEF FormsAreOwn, Forms, Open
  <2> QED BY <2>1, <2>2, <1>3 DEF LocksAreHeld
<1>6. ASSUME NEW e \in Envs, held'[e] # None PROVE pc'[held'[e]] \in Open /\ form'[held'[e]].env = e
  <2>1. held'[e] = held[e] /\ held[e] # r
    BY <1>3, <1>6
  <2>2. held[e] \in Requests
    BY <2>1, <1>6 DEF FormsAreTyped
  <2> QED BY <2>1, <2>2, <1>2, <1>6 DEF LocksAreHeld
<1> QED BY <1>1, <1>4, <1>5, <1>6 DEF LocksAreHeld

\* What the steps of a transaction do to the forms and the locks.
LEMMA TransactionStays ==
    ASSUME None \notin Requests, FormsAreTyped, FormsAreOwn, LocksAreHeld, LockedIsReady, NEW r \in Requests,
           \/ \E user, owner \in Users, env \in Envs, slug \in Slugs : Submit(r, user, env, slug, owner)
           \/ LockEnvironment(r) \/ CheckAgentLimit(r) \/ CreateApp(r) \/ RollBack(r)
    PROVE  /\ pc' \in [Requests -> Stages] /\ held' \in [Envs -> Requests \cup {None}]
           /\ form' \in [Requests -> Forms \cup {None}] /\ submits' \in Nat
           /\ FormsAreOwn' /\ LocksAreHeld' /\ LockedIsReady'
<1> USE DEF FormsAreTyped, FormsAreOwn, LocksAreHeld, LockedIsReady, Stages, Open
<1>1. ASSUME NEW user \in Users, NEW owner \in Users, NEW env \in Envs, NEW slug \in Slugs,
             Submit(r, user, env, slug, owner)
      PROVE  /\ pc' \in [Requests -> Stages] /\ held' \in [Envs -> Requests \cup {None}]
             /\ form' \in [Requests -> Forms \cup {None}] /\ submits' \in Nat
             /\ FormsAreOwn' /\ LocksAreHeld' /\ LockedIsReady'
  <2> DEFINE f == [user |-> user, env |-> env, slug |-> slug, owner |-> OwnerOf(user, owner)]
  <2>1. f \in Forms /\ (f.owner # None => AgentTemplate /\ (f.owner # f.user => f.user \in Admins))
    BY DEF Forms, OwnerOf
  <2>2. form' = [form EXCEPT ![r] = f] /\ pc' = [pc EXCEPT ![r] = "submitted"] /\ held' = held
        /\ ready' = ready /\ submits' = submits + 1 /\ pc[r] = "idle"
    BY <1>1 DEF Submit
  <2> HIDE DEF f
  <2> QED BY <2>1, <2>2
<1>2. CASE LockEnvironment(r)
  BY <1>2 DEF LockEnvironment, TakesLock, Forms
<1>3. CASE CheckAgentLimit(r)
  BY <1>3 DEF CheckAgentLimit
<1>4. CASE CreateApp(r)
  <2>1. CASE SlugTaken(form[r])
    BY <1>4, <2>1 DEF CreateApp
  <2>2. CASE ~SlugTaken(form[r])
    BY <1>4, <2>2, UnlockStays DEF CreateApp
  <2> QED BY <2>1, <2>2
<1>5. CASE RollBack(r)
  BY <1>5, UnlockStays DEF RollBack
<1> QED BY <1>1, <1>2, <1>3, <1>4, <1>5

\* What they do to the apps: one row at most, of a checked form.
LEMMA TransactionCreates ==
    ASSUME FormsAreTyped, FormsAreOwn, LockedIsReady, NEW r \in Requests,
           \/ \E user, owner \in Users, env \in Envs, slug \in Slugs : Submit(r, user, env, slug, owner)
           \/ LockEnvironment(r) \/ CheckAgentLimit(r) \/ CreateApp(r) \/ RollBack(r)
    PROVE  /\ ready' = ready /\ members' = members
           /\ \/ apps' = apps
              \/ /\ pc[r] = "counted" /\ form[r] \in Forms /\ form[r].env \in ready
                 /\ ~SlugTaken(form[r]) /\ apps' = apps \cup {NewApp(form[r])}
BY DEF FormsAreTyped, FormsAreOwn, LockedIsReady, Submit, LockEnvironment, CheckAgentLimit, CreateApp, RollBack

LEMMA CreatedAppStays ==
    ASSUME DeploysIInv, NEW r \in Requests, pc[r] = "counted", form[r] \in Forms, form[r].env \in ready,
           ready' = ready, ~SlugTaken(form[r]), apps' = apps \cup {NewApp(form[r])}
    PROVE  /\ apps' \subseteq AppRecords
           /\ NoJobInALeavingEnvironment' /\ SlugsAreUnique' /\ OwnAgentsOnly'
<1> DEFINE new == NewApp(form[r])
<1>1. /\ new \in AppRecords /\ new.env = form[r].env /\ new.slug = form[r].slug
      /\ new.owner = form[r].owner /\ new.by = form[r].user
  BY DEF NewApp, Forms, AppRecords
<1>2. \A a \in apps : OrgOf[a.env] = OrgOf[new.env] => a.slug # new.slug
  BY <1>1 DEF SlugTaken, AppsOf
<1>3. (new.owner # None /\ new.owner # new.by) => new.by \in Admins
  BY <1>1 DEF DeploysIInv, FormsAreOwn
<1>4. new.env \in ready /\ apps' = apps \cup {new}
  BY <1>1
<1> HIDE DEF new
<1> QED BY <1>1, <1>2, <1>3, <1>4
        DEF DeploysIInv, FormsAreTyped, NoJobInALeavingEnvironment, SlugsAreUnique, OwnAgentsOnly

\* A job of one app ends or begins: the row keeps everything else.
LEMMA JobStays ==
    ASSUME DeploysIInv, NEW a \in apps, NEW job \in {"idle", "removal"}, ready' = ready, apps' = WithJob(a, job)
    PROVE  /\ apps' \subseteq AppRecords
           /\ NoJobInALeavingEnvironment' /\ SlugsAreUnique' /\ OwnAgentsOnly'
<1> DEFINE b == [a EXCEPT !.job = job]
<1>1. /\ b \in AppRecords /\ b.job = job /\ b.env = a.env /\ b.slug = a.slug /\ b.owner = a.owner /\ b.by = a.by
  BY DEF DeploysIInv, FormsAreTyped, AppRecords
<1>2. apps' = (apps \ {a}) \cup {b}
  BY DEF WithJob
<1> HIDE DEF b
<1> QED BY <1>1, <1>2 DEF DeploysIInv, FormsAreTyped, NoJobInALeavingEnvironment, SlugsAreUnique, OwnAgentsOnly

LEMMA DeploysIInvStays ==
    ASSUME None \notin Requests, DeploysIInv, [DeploysNext]_vars
    PROVE  DeploysIInv'
<1>1. CASE UNCHANGED vars
  BY <1>1 DEF vars, DeploysIInv, FormsAreTyped, FormsAreOwn, LocksAreHeld, LockedIsReady,
     NoJobInALeavingEnvironment, SlugsAreUnique, OwnAgentsOnly
<1>2. ASSUME NEW r \in Requests,
             \/ \E user, owner \in Users, env \in Envs, slug \in Slugs : Submit(r, user, env, slug, owner)
             \/ LockEnvironment(r) \/ CheckAgentLimit(r) \/ CreateApp(r) \/ RollBack(r)
      PROVE  DeploysIInv'
  <2>1. /\ pc' \in [Requests -> Stages] /\ held' \in [Envs -> Requests \cup {None}]
        /\ form' \in [Requests -> Forms \cup {None}] /\ submits' \in Nat
        /\ FormsAreOwn' /\ LocksAreHeld' /\ LockedIsReady'
    BY <1>2, TransactionStays DEF DeploysIInv
  <2>2. /\ ready' = ready /\ members' = members
        /\ \/ apps' = apps
           \/ /\ pc[r] = "counted" /\ form[r] \in Forms /\ form[r].env \in ready
              /\ ~SlugTaken(form[r]) /\ apps' = apps \cup {NewApp(form[r])}
    BY <1>2, TransactionCreates DEF DeploysIInv
  <2>3. apps' \subseteq AppRecords /\ NoJobInALeavingEnvironment' /\ SlugsAreUnique' /\ OwnAgentsOnly'
    <3>1. CASE apps' = apps
      BY <2>2, <3>1 DEF DeploysIInv, FormsAreTyped, NoJobInALeavingEnvironment, SlugsAreUnique, OwnAgentsOnly
    <3>2. CASE apps' # apps
      BY <2>2, <3>2, CreatedAppStays
    <3> QED BY <3>1, <3>2
  <2> QED BY <2>1, <2>2, <2>3 DEF DeploysIInv, FormsAreTyped
<1>3. ASSUME NEW a \in apps, DeployEnds(a) \/ QueueRemoval(a) \/ RemovalEnds(a)
      PROVE  DeploysIInv'
  <2>1. /\ ready' = ready /\ UNCHANGED <<members, held, pc, form, submits>>
        /\ apps' = WithJob(a, "idle") \/ apps' = WithJob(a, "removal") \/ apps' = apps \ {a}
    BY <1>3 DEF DeployEnds, QueueRemoval, RemovalEnds
  <2>2. apps' \subseteq AppRecords /\ NoJobInALeavingEnvironment' /\ SlugsAreUnique' /\ OwnAgentsOnly'
    <3>1. CASE apps' = apps \ {a}
      BY <2>1, <3>1 DEF DeploysIInv, FormsAreTyped, NoJobInALeavingEnvironment, SlugsAreUnique, OwnAgentsOnly
    <3> QED BY <2>1, <3>1, JobStays
  <2> QED BY <2>1, <2>2 DEF DeploysIInv, FormsAreTyped, FormsAreOwn, LocksAreHeld, LockedIsReady
<1>4. ASSUME NEW env \in Envs, QueueTeardown(env)
      PROVE  DeploysIInv'
  <2>1. \A r \in Requests : pc[r] \in Open => form[r].env # env
    BY <1>4 DEF QueueTeardown, DeploysIInv, LocksAreHeld
  <2>2. ready' = ready \ {env} /\ UNCHANGED <<apps, members, held, pc, form, submits>>
        /\ \A a \in apps : a.env = env => a.job = "idle"
    BY <1>4 DEF QueueTeardown
  <2> QED BY <2>1, <2>2 DEF DeploysIInv, FormsAreTyped, FormsAreOwn, LocksAreHeld, LockedIsReady, Open,
          NoJobInALeavingEnvironment, SlugsAreUnique, OwnAgentsOnly
<1>5. ASSUME NEW env \in Envs, TeardownEnds(env)
      PROVE  DeploysIInv'
  BY <1>5 DEF TeardownEnds, DeploysIInv, FormsAreTyped, FormsAreOwn, LocksAreHeld, LockedIsReady,
     NoJobInALeavingEnvironment, SlugsAreUnique, OwnAgentsOnly
<1>6. ASSUME NEW user \in Users, Leaves(user)
      PROVE  DeploysIInv'
  BY <1>6 DEF Leaves, DeploysIInv, FormsAreTyped, FormsAreOwn, LocksAreHeld, LockedIsReady,
     NoJobInALeavingEnvironment, SlugsAreUnique, OwnAgentsOnly
<1> QED BY <1>1, <1>2, <1>3, <1>4, <1>5, <1>6 DEF DeploysNext

LEMMA DeploysInvariant == ASSUME None \notin Requests PROVE DeploysSpec => []DeploysIInv
<1>1. DeploysInit => DeploysIInv
  BY DeploysIInvStarts
<1>2. DeploysIInv /\ [DeploysNext]_vars => DeploysIInv'
  BY DeploysIInvStays
<1> QED BY <1>1, <1>2, PTL DEF DeploysSpec

\* Rows and requests have their types, and a request holds the row of its
\* environment exactly while its transaction is open (select_for_update).
THEOREM DeploysTypes == ASSUME None \notin Requests PROVE DeploysSpec => []DeploysTypeOK
<1>1. DeploysIInv => DeploysTypeOK
  <2> SUFFICES ASSUME DeploysIInv PROVE DeploysTypeOK
    OBVIOUS
  <2>1. ASSUME NEW r \in Requests
        PROVE  /\ pc[r] \in Stages
               /\ pc[r] \in Open <=> \E e \in Envs : held[e] = r
               /\ pc[r] \in {"locked", "counted"} => held[form[r].env] = r
    <3>1. pc[r] \in Open => form[r].env \in Envs
      BY DEF DeploysIInv, FormsAreOwn, Open, Forms
    <3>2. pc[r] \in Open => held[form[r].env] = r
      BY DEF DeploysIInv, LocksAreHeld
    <3>3. (\E e \in Envs : held[e] = r) => pc[r] \in Open
      BY DEF DeploysIInv, LocksAreHeld
    <3>4. pc[r] \in Stages
      BY DEF DeploysIInv, FormsAreTyped
    <3> QED BY <3>1, <3>2, <3>3, <3>4 DEF Open
  <2> QED BY <2>1 DEF DeploysTypeOK, DeploysIInv, FormsAreTyped, Stages, Open
<1> QED BY <1>1, DeploysInvariant, PTL

\* No app is deploying in an environment that was handed to teardown
\* (deploy_from_template and the admission of a teardown lock the same row).
THEOREM NoJobIsLeftBehind == ASSUME None \notin Requests PROVE DeploysSpec => []NoJobInALeavingEnvironment
<1>1. DeploysIInv => NoJobInALeavingEnvironment
  BY DEF DeploysIInv
<1> QED BY <1>1, DeploysInvariant, PTL

\* Two apps of one organization have two slugs, whatever their forms saw
\* (unique_app_slug_per_org).
THEOREM SlugsStayUnique == ASSUME None \notin Requests PROVE DeploysSpec => []SlugsAreUnique
<1>1. DeploysIInv => SlugsAreUnique
  BY DEF DeploysIInv
<1> QED BY <1>1, DeploysInvariant, PTL

\* Only an administrator's form gives an agent to somebody else.
THEOREM AgentsAreTheirDeployers == ASSUME None \notin Requests PROVE DeploysSpec => []OwnAgentsOnly
<1>1. DeploysIInv => OwnAgentsOnly
  BY DEF DeploysIInv
<1> QED BY <1>1, DeploysInvariant, PTL

-----------------------------------------------------------------------------
(* The limit of the plan, for an organization with one environment. *)

LiveIn(S, org) == {a \in S : OrgOf[a.env] = org /\ a.owner # None /\ a.job # "removal"}
Fits(S, org) == MaxAgents[org] # Unlimited => Cardinality(LiveIn(S, org)) <= MaxAgents[org]
HasRoom(S, org) == MaxAgents[org] # Unlimited => Cardinality(LiveIn(S, org)) < MaxAgents[org]

\* An agent that was counted still has its place: nobody else counts meanwhile.
LimitIInv ==
    /\ DeploysIInv
    /\ IsFiniteSet(apps)
    /\ \A org \in Orgs : Fits(apps, org)
    /\ \A r \in Requests : pc[r] = "counted" /\ form[r].owner # None => HasRoom(apps, OrgOf[form[r].env])

LEMMA LiveIsFinite ==
    ASSUME NEW S, IsFiniteSet(S), NEW org
    PROVE  IsFiniteSet(LiveIn(S, org)) /\ Cardinality(LiveIn(S, org)) \in Nat
<1>1. LiveIn(S, org) \in SUBSET S
  BY DEF LiveIn
<1> QED BY <1>1, FS_Subset, FS_CardinalityType

\* Fewer live agents fit where more did.
LEMMA FewerFit ==
    ASSUME NEW S, NEW T, IsFiniteSet(S), IsFiniteSet(T), NEW org \in Orgs,
           Cardinality(LiveIn(T, org)) <= Cardinality(LiveIn(S, org))
    PROVE  (Fits(S, org) => Fits(T, org)) /\ (HasRoom(S, org) => HasRoom(T, org))
<1>1. MaxAgents[org] # Unlimited => MaxAgents[org] \in Nat
  BY DeploysAssumption
<1>2. Cardinality(LiveIn(S, org)) \in Nat /\ Cardinality(LiveIn(T, org)) \in Nat
  BY LiveIsFinite
<1> QED BY <1>1, <1>2 DEF Fits, HasRoom

LEMMA JobKeepsLive ==
    ASSUME NEW a \in apps, a \in AppRecords, a.job # "removal", NEW job \in {"idle", "removal"},
           IsFiniteSet(apps), NEW org \in Orgs
    PROVE  /\ IsFiniteSet(WithJob(a, job))
           /\ Cardinality(LiveIn(WithJob(a, job), org)) <= Cardinality(LiveIn(apps, org))
<1> DEFINE b == [a EXCEPT !.job = job]
           live == LiveIn(apps, org)
           then == LiveIn(WithJob(a, job), org)
<1>1. b.env = a.env /\ b.owner = a.owner
  BY DEF AppRecords
<1>2. WithJob(a, job) = (apps \ {a}) \cup {b}
  BY DEF WithJob
<1> HIDE DEF b
<1>3. IsFiniteSet(WithJob(a, job))
  <2>1. IsFiniteSet(apps \ {a})
    BY FS_RemoveElement
  <2> QED BY <1>2, <2>1, FS_AddElement
<1>4. IsFiniteSet(live) /\ Cardinality(live) \in Nat /\ IsFiniteSet(then) /\ Cardinality(then) \in Nat
  BY <1>3, LiveIsFinite
<1>5. CASE a \in live
  <2>1. then \subseteq (live \ {a}) \cup {b}
    BY <1>2 DEF LiveIn
  <2>2. IsFiniteSet(live \ {a}) /\ Cardinality(live \ {a}) = Cardinality(live) - 1
    BY <1>4, <1>5, FS_RemoveElement
  <2>3. IsFiniteSet((live \ {a}) \cup {b}) /\ Cardinality((live \ {a}) \cup {b}) <= Cardinality(live)
    <3>1. /\ IsFiniteSet((live \ {a}) \cup {b})
          /\ Cardinality((live \ {a}) \cup {b}) =
               IF b \in live \ {a} THEN Cardinality(live \ {a}) ELSE Cardinality(live \ {a}) + 1
      BY <2>2, FS_AddElement
    <3> QED BY <1>4, <2>2, <3>1
  <2>4. Cardinality(then) <= Cardinality((live \ {a}) \cup {b}) /\ Cardinality((live \ {a}) \cup {b}) \in Nat
    BY <2>1, <2>3, FS_Subset, FS_CardinalityType
  <2> QED BY <1>3, <1>4, <2>3, <2>4
<1>6. CASE a \notin live
  <2>1. then \in SUBSET live
    BY <1>1, <1>2, <1>6 DEF LiveIn
  <2> QED BY <1>3, <1>4, <2>1, FS_Subset
<1> QED BY <1>5, <1>6

LEMMA RowsGone ==
    ASSUME NEW T \in SUBSET apps, IsFiniteSet(apps), NEW org \in Orgs
    PROVE  IsFiniteSet(T) /\ Cardinality(LiveIn(T, org)) <= Cardinality(LiveIn(apps, org))
<1>1. LiveIn(T, org) \in SUBSET LiveIn(apps, org)
  BY DEF LiveIn
<1> QED BY <1>1, LiveIsFinite, FS_Subset

\* A new agent takes the place that was counted, in its own organization only.
LEMMA CreatedFits ==
    ASSUME NEW f \in Forms, IsFiniteSet(apps), \A org \in Orgs : Fits(apps, org),
           f.owner # None => HasRoom(apps, OrgOf[f.env])
    PROVE  /\ IsFiniteSet(apps \cup {NewApp(f)})
           /\ \A org \in Orgs : Fits(apps \cup {NewApp(f)}, org)
           /\ \A org \in Orgs \ {OrgOf[f.env]} : LiveIn(apps \cup {NewApp(f)}, org) = LiveIn(apps, org)
           /\ f.owner = None => \A org \in Orgs : LiveIn(apps \cup {NewApp(f)}, org) = LiveIn(apps, org)
<1> DEFINE new == NewApp(f)
<1>1. new.env = f.env /\ new.owner = f.owner
  BY DEF NewApp, Forms
<1> HIDE DEF new
<1>2. IsFiniteSet(apps \cup {new})
  BY FS_AddElement
<1>3. \A org \in Orgs \ {OrgOf[f.env]} : LiveIn(apps \cup {new}, org) = LiveIn(apps, org)
  BY <1>1 DEF LiveIn
<1>4. f.owner = None => \A org \in Orgs : LiveIn(apps \cup {new}, org) = LiveIn(apps, org)
  BY <1>1 DEF LiveIn
<1>5. ASSUME NEW org \in Orgs, org = OrgOf[f.env], f.owner # None PROVE Fits(apps \cup {new}, org)
  <2>1. LiveIn(apps \cup {new}, org) \in SUBSET (LiveIn(apps, org) \cup {new})
    BY DEF LiveIn
  <2>2. IsFiniteSet(LiveIn(apps, org)) /\ Cardinality(LiveIn(apps, org)) \in Nat
    BY LiveIsFinite
  <2>3. /\ IsFiniteSet(LiveIn(apps, org) \cup {new})
        /\ Cardinality(LiveIn(apps, org) \cup {new}) <= Cardinality(LiveIn(apps, org)) + 1
        /\ Cardinality(LiveIn(apps, org) \cup {new}) \in Nat
    <3>1. /\ IsFiniteSet(LiveIn(apps, org) \cup {new})
          /\ Cardinality(LiveIn(apps, org) \cup {new}) =
               IF new \in LiveIn(apps, org) THEN Cardinality(LiveIn(apps, org)) ELSE Cardinality(LiveIn(apps, org)) + 1
      BY <2>2, FS_AddElement
    <3> QED BY <2>2, <3>1
  <2>4. Cardinality(LiveIn(apps \cup {new}, org)) <= Cardinality(LiveIn(apps, org) \cup {new})
    BY <2>1, <2>3, FS_Subset
  <2>5. Cardinality(LiveIn(apps \cup {new}, org)) \in Nat
    BY <1>2, LiveIsFinite
  <2>6. MaxAgents[org] # Unlimited => MaxAgents[org] \in Nat
    BY DeploysAssumption
  <2> QED BY <1>5, <2>2, <2>3, <2>4, <2>5, <2>6 DEF Fits, HasRoom
<1>6. \A org \in Orgs : Fits(apps \cup {new}, org)
  BY <1>3, <1>4, <1>5 DEF Fits
<1> QED BY <1>2, <1>3, <1>4, <1>6 DEF new

LEMMA LimitIInvStays ==
    ASSUME None \notin Requests, ~RemovalMayFail, \A d, e \in Envs : OrgOf[d] = OrgOf[e] => d = e,
           LimitIInv, [DeploysNext]_vars
    PROVE  LimitIInv'
<1> DEFINE Rest == /\ IsFiniteSet(apps') /\ \A org \in Orgs : Fits(apps', org)
                   /\ \A r \in Requests : pc'[r] = "counted" /\ form'[r].owner # None =>
                         HasRoom(apps', OrgOf[form'[r].env])
<1>0. DeploysIInv' /\ DeploysIInv
  BY DeploysIInvStays DEF LimitIInv
<1>a. SUFFICES Rest
  <2>1. (\A org \in Orgs : Fits(apps', org)) => (\A org \in Orgs : Fits(apps, org))'
    BY DEF Fits, LiveIn
  <2>2. (\A r \in Requests : pc'[r] = "counted" /\ form'[r].owner # None => HasRoom(apps', OrgOf[form'[r].env]))
         => (\A r \in Requests : pc[r] = "counted" /\ form[r].owner # None => HasRoom(apps, OrgOf[form[r].env]))'
    BY DEF HasRoom, LiveIn
  <2> QED BY <1>0, <1>a, <2>1, <2>2 DEF LimitIInv
<1>b. \A r \in Requests : pc[r] # "idle" => form[r] \in Forms /\ OrgOf[form[r].env] \in Orgs
  BY <1>0, DeploysAssumption DEF DeploysIInv, FormsAreOwn, Forms
\* The rows shrink or change their jobs, and no form moves.
<1>c. ASSUME UNCHANGED <<pc, form>>, IsFiniteSet(apps'),
             \A org \in Orgs : Cardinality(LiveIn(apps', org)) <= Cardinality(LiveIn(apps, org))
      PROVE  Rest
  <2>1. \A org \in Orgs : Fits(apps', org)
    BY <1>c, FewerFit DEF LimitIInv
  <2>2. \A r \in Requests : pc[r] = "counted" /\ form[r].owner # None => HasRoom(apps', OrgOf[form[r].env])
    BY <1>b, <1>c, FewerFit DEF LimitIInv
  <2> QED BY <1>c, <2>1, <2>2
<1>d. \A org \in Orgs : Cardinality(LiveIn(apps, org)) <= Cardinality(LiveIn(apps, org))
  BY LiveIsFinite DEF LimitIInv
<1>1. CASE UNCHANGED vars
  BY <1>1, <1>c, <1>d DEF vars, LimitIInv
<1>2. ASSUME NEW r \in Requests, NEW user \in Users, NEW owner \in Users, NEW env \in Envs, NEW slug \in Slugs,
             Submit(r, user, env, slug, owner)
      PROVE  Rest
  BY <1>0, <1>2 DEF Submit, LimitIInv, DeploysIInv, FormsAreTyped
<1>3. ASSUME NEW r \in Requests, LockEnvironment(r) PROVE Rest
  BY <1>0, <1>3 DEF LockEnvironment, LimitIInv, DeploysIInv, FormsAreTyped
<1>4. ASSUME NEW r \in Requests, CheckAgentLimit(r) PROVE Rest
  <2>1. apps' = apps /\ form' = form /\ pc[r] = "locked"
        /\ pc' = [pc EXCEPT ![r] = IF AgentTemplate => WithinPlan(OrgOf[form[r].env]) THEN "counted" ELSE "refused"]
    BY <1>4 DEF CheckAgentLimit
  <2>2. ASSUME pc'[r] = "counted", form[r].owner # None PROVE HasRoom(apps, OrgOf[form[r].env])
    <3>1. WithinPlan(OrgOf[form[r].env])
      BY <1>0, <2>1, <2>2 DEF DeploysIInv, FormsAreTyped, FormsAreOwn
    <3>2. LiveAgents(OrgOf[form[r].env]) = LiveIn(apps, OrgOf[form[r].env])
      BY DEF LiveAgents, AppsOf, LiveIn
    <3> QED BY <3>1, <3>2 DEF WithinPlan, HasRoom
  <2>3. \A q \in Requests \ {r} : pc'[q] = pc[q]
    BY <1>0, <2>1 DEF DeploysIInv, FormsAreTyped
  <2> QED BY <2>1, <2>2, <2>3 DEF LimitIInv
<1>5. ASSUME NEW r \in Requests, CreateApp(r) PROVE Rest
  <2>1. form' = form /\ pc[r] = "counted" /\ (\A q \in Requests \ {r} : pc'[q] = pc[q]) /\ pc'[r] # "counted"
    BY <1>0, <1>5 DEF CreateApp, DeploysIInv, FormsAreTyped
  <2>2. CASE apps' = apps
    BY <2>1, <2>2 DEF LimitIInv
  <2>3. CASE apps' = apps \cup {NewApp(form[r])}
    <3>1. form[r] \in Forms /\ (form[r].owner # None => HasRoom(apps, OrgOf[form[r].env]))
      BY <1>b, <2>1 DEF LimitIInv
    <3>2. /\ IsFiniteSet(apps') /\ \A org \in Orgs : Fits(apps', org)
          /\ \A org \in Orgs \ {OrgOf[form[r].env]} : LiveIn(apps', org) = LiveIn(apps, org)
      BY <2>3, <3>1, CreatedFits DEF LimitIInv
    <3>3. ASSUME NEW q \in Requests, pc'[q] = "counted", form[q].owner # None
          PROVE  HasRoom(apps', OrgOf[form[q].env])
      <4>1. q # r /\ pc[q] = "counted"
        BY <2>1, <3>3
      <4>2. held[form[q].env] = q /\ held[form[r].env] = r
        BY <1>0, <2>1, <4>1 DEF DeploysIInv, LocksAreHeld, Open
      <4>3. OrgOf[form[q].env] # OrgOf[form[r].env]
        BY <1>b, <2>1, <4>1, <4>2 DEF Forms
      <4>4. LiveIn(apps', OrgOf[form[q].env]) = LiveIn(apps, OrgOf[form[q].env])
        BY <1>b, <3>2, <4>1, <4>3
      <4> QED BY <3>3, <4>1, <4>4 DEF LimitIInv, HasRoom
    <3> QED BY <2>1, <3>2, <3>3
  <2> QED BY <1>5, <2>2, <2>3 DEF CreateApp
<1>6. ASSUME NEW r \in Requests, RollBack(r) PROVE Rest
  BY <1>0, <1>6 DEF RollBack, LimitIInv, DeploysIInv, FormsAreTyped
<1>7. ASSUME NEW a \in apps, DeployEnds(a) \/ QueueRemoval(a) PROVE Rest
  <2>1. PICK job \in {"idle", "removal"} : apps' = WithJob(a, job)
    BY <1>7 DEF DeployEnds, QueueRemoval
  <2>2. a.job # "removal" /\ a \in AppRecords /\ UNCHANGED <<pc, form>>
    BY <1>0, <1>7 DEF DeployEnds, QueueRemoval, DeploysIInv, FormsAreTyped
  <2>3. /\ IsFiniteSet(apps')
        /\ \A org \in Orgs : Cardinality(LiveIn(apps', org)) <= Cardinality(LiveIn(apps, org))
    <3>1. IsFiniteSet(apps)
      BY DEF LimitIInv
    <3>2. ASSUME NEW org \in Orgs
          PROVE  /\ IsFiniteSet(WithJob(a, job))
                 /\ Cardinality(LiveIn(WithJob(a, job), org)) <= Cardinality(LiveIn(apps, org))
      BY <2>2, <3>1, JobKeepsLive
    <3>3. IsFiniteSet(WithJob(a, job))
      BY <3>1, <3>2, FS_RemoveElement, FS_AddElement DEF WithJob
    <3> QED BY <2>1, <3>2, <3>3
  <2> QED BY <1>c, <2>2, <2>3
<1>8. ASSUME NEW a \in apps, RemovalEnds(a) PROVE Rest
  <2>1. UNCHANGED <<pc, form>> /\ (apps' = apps \ {a})
    BY <1>8 DEF RemovalEnds
  <2>2. /\ IsFiniteSet(apps')
        /\ \A org \in Orgs : Cardinality(LiveIn(apps', org)) <= Cardinality(LiveIn(apps, org))
    <3>1. IsFiniteSet(apps) /\ apps' \in SUBSET apps
      BY <2>1 DEF LimitIInv
    <3>2. IsFiniteSet(apps')
      BY <3>1, FS_Subset
    <3>3. ASSUME NEW org \in Orgs
          PROVE  Cardinality(LiveIn(apps', org)) <= Cardinality(LiveIn(apps, org))
      BY <3>1, RowsGone
    <3> QED BY <3>2, <3>3
  <2> QED BY <1>c, <2>1, <2>2
<1>9. ASSUME NEW env \in Envs, TeardownEnds(env) PROVE Rest
  <2>1. UNCHANGED <<pc, form>> /\ apps' = {a \in apps : a.env # env}
    BY <1>9 DEF TeardownEnds
  <2>2. /\ IsFiniteSet(apps')
        /\ \A org \in Orgs : Cardinality(LiveIn(apps', org)) <= Cardinality(LiveIn(apps, org))
    <3>1. IsFiniteSet(apps) /\ apps' \in SUBSET apps
      BY <2>1 DEF LimitIInv
    <3>2. IsFiniteSet(apps')
      BY <3>1, FS_Subset
    <3>3. ASSUME NEW org \in Orgs
          PROVE  Cardinality(LiveIn(apps', org)) <= Cardinality(LiveIn(apps, org))
      BY <3>1, RowsGone
    <3> QED BY <3>2, <3>3
  <2> QED BY <1>c, <2>1, <2>2
<1>10. CASE (\E env \in Envs : QueueTeardown(env)) \/ (\E user \in Users : Leaves(user))
  BY <1>10, <1>c, <1>d DEF QueueTeardown, Leaves, LimitIInv
<1> QED BY <1>1, <1>2, <1>3, <1>4, <1>5, <1>6, <1>7, <1>8, <1>9, <1>10 DEF DeploysNext

LEMMA LimitInvariant ==
    ASSUME None \notin Requests, ~RemovalMayFail, \A d, e \in Envs : OrgOf[d] = OrgOf[e] => d = e
    PROVE  DeploysSpec => [](LimitIInv /\ AgentsAreWithinPlan)
<1>1. DeploysInit => LimitIInv
  <2>1. \A org \in Orgs : LiveIn({}, org) = {}
    BY DEF LiveIn
  <2>2. \A org \in Orgs : MaxAgents[org] # Unlimited => MaxAgents[org] \in Nat
    BY DeploysAssumption
  <2> QED BY <2>1, <2>2, DeploysIInvStarts, FS_EmptySet DEF DeploysInit, LimitIInv, Fits
<1>2. LimitIInv /\ [DeploysNext]_vars => LimitIInv'
  BY LimitIInvStays
<1>3. LimitIInv => AgentsAreWithinPlan
  <2>1. \A org \in Orgs : LiveAgents(org) = LiveIn(apps, org)
    BY DEF LiveAgents, AppsOf, LiveIn
  <2> QED BY <2>1 DEF LimitIInv, Fits, AgentsAreWithinPlan
<1> QED BY <1>1, <1>2, <1>3, PTL DEF DeploysSpec

\* An organization with one environment never has more agents than its plan,
\* while removals end (_raise_for_agent_limit under the row lock).
THEOREM AgentsStayWithinPlan ==
    ASSUME None \notin Requests, ~RemovalMayFail, \A d, e \in Envs : OrgOf[d] = OrgOf[e] => d = e
    PROVE  DeploysSpec => []AgentsAreWithinPlan
BY LimitInvariant, PTL

\* A new agent is within the plan of its organization, however many forms are
\* submitted together.
THEOREM NewAgentsFitThePlan ==
    ASSUME None \notin Requests, ~RemovalMayFail, \A d, e \in Envs : OrgOf[d] = OrgOf[e] => d = e
    PROVE  DeploysSpec => NewAgentsAreWithinPlan
<1> DEFINE New == \A a \in apps' \ apps :
                    LET org == OrgOf[a.env] IN
                    (a.job = "deploy" /\ a.owner # None /\ MaxAgents[org] # Unlimited) =>
                        Cardinality(LiveAgents(org)') <= MaxAgents[org]
<1>1. ASSUME DeploysIInv', AgentsAreWithinPlan' PROVE New
  <2>1. \A a \in apps' : OrgOf[a.env] \in Orgs
    BY <1>1, DeploysAssumption DEF DeploysIInv, FormsAreTyped, AppRecords
  <2>2. \A org \in Orgs : MaxAgents[org] # Unlimited => Cardinality(LiveAgents(org)') <= MaxAgents[org]
    BY <1>1 DEF AgentsAreWithinPlan
  <2> QED BY <2>1, <2>2
<1>2. DeploysIInv' /\ AgentsAreWithinPlan' => [New]_vars
  BY <1>1
<1>3. NewAgentsAreWithinPlan <=> [][New]_vars
  BY DEF NewAgentsAreWithinPlan
<1>4. LimitIInv => DeploysIInv
  BY DEF LimitIInv
<1> HIDE DEF New
<1> QED BY <1>2, <1>3, <1>4, LimitInvariant, PTL

\* Whatever forms, removals and teardowns interleave, no app is left deploying in an
\* environment that goes, no slug is given twice, and agents are their deployers'.
THEOREM DeploysStaySound == ASSUME None \notin Requests PROVE DeploysSpec => []DeploysAreSound
BY DeploysTypes, NoJobIsLeftBehind, SlugsStayUnique, AgentsAreTheirDeployers, PTL
   DEF DeploysAreSound

-----------------------------------------------------------------------------
(* One slug of the sandbox, for any number of organizations and Apps.      *)

SlugTypes ==
    /\ app \in [Org -> [state : RowState, id : 0 .. MaxApps]]
    /\ claim \in [Org -> RowState]
    /\ deploy \in [Org -> {"idle", "begun", "labelled", "checked", "claimed", "created"}]
    /\ removal \in [0 .. MaxApps -> {"none", "working", "releasing", "given_up"}]
    /\ created \in 0 .. MaxApps

\* UNIQUE(slug), over uncommitted rows too.
OneClaim == \A o, p \in Org : claim[o] # "absent" /\ claim[p] # "absent" => o = p

\* A claim that is there to stay is that of an App that is, and leaves with it.
ClaimsFollowApps ==
    \A o \in Org : /\ claim[o] = "live" => app[o].state = "live"
                   /\ claim[o] = "deleting" => app[o].state = "deleting"

\* An uncommitted App is that of the open transaction, and is no App from before.
InsertsAreOpen ==
    \A o \in Org : /\ app[o].state = "inserting" <=> deploy[o] = "created"
                   /\ app[o].state = "inserting" => app[o].id # 0

SlugIInv == SlugTypes /\ OneClaim /\ ClaimsFollowApps /\ InsertsAreOpen

\* With a hosted zone: past the check of the label the organization has no App, nobody
\* has one from before the claims, and past the claim the transaction holds the slug.
PastLabel == {"labelled", "checked", "claimed", "created"}
DeploysHoldTheSlug ==
    \A o \in Org :
        /\ deploy[o] \in PastLabel => ~AppVisible(o) /\ \A p \in Org : AppVisible(p) => app[p].id # 0
        /\ deploy[o] \in {"claimed", "created"} => claim[o] = "inserting"
NoLateThread == \A i \in 0 .. MaxApps : removal[i] # "given_up"
OwnerIInv == SlugIInv /\ NoLateThread /\ DeploysHoldTheSlug /\ SlugHasOneOwner /\ AppHoldsItsClaim

LEMMA SlugIInvStarts == SlugInit => SlugIInv
BY SlugAssumption DEF SlugInit, SlugIInv, SlugTypes, OneClaim, ClaimsFollowApps, InsertsAreOpen, NoApp, RowState

\* A transaction that ends without effect takes what it inserted with it.
LEMMA RollBackStays ==
    ASSUME SlugIInv, NEW o \in Org, RolledBack(o)
    PROVE  SlugIInv'
<1>1. /\ \A p \in Org : IF p = o THEN deploy'[p] = "idle" ELSE deploy'[p] = deploy[p]
      /\ \A p \in Org : IF p = o /\ claim[p] = "inserting" THEN claim'[p] = "absent" ELSE claim'[p] = claim[p]
      /\ \A p \in Org : IF p = o /\ app[p].state = "inserting" THEN app'[p] = NoApp ELSE app'[p] = app[p]
  BY DEF RolledBack, SlugIInv, SlugTypes
<1>2. SlugTypes'
  BY SlugAssumption DEF RolledBack, SlugIInv, SlugTypes, NoApp, RowState
<1> QED BY <1>1, <1>2 DEF SlugIInv, OneClaim, ClaimsFollowApps, InsertsAreOpen, NoApp

LEMMA DeployStays ==
    ASSUME SlugIInv, NEW o \in Org, DeployStep(o)
    PROVE  SlugIInv'
<1> USE DEF SlugIInv, SlugTypes, OneClaim, ClaimsFollowApps, InsertsAreOpen
<1>1. CASE RolledBack(o)
  BY <1>1, RollBackStays
<1>2. ASSUME NEW s \in {"begun", "labelled", "checked", "claimed"}, deploy[o] # "created",
             deploy' = [deploy EXCEPT ![o] = s], UNCHANGED <<app, claim, removal, created>>
      PROVE  SlugIInv'
  BY <1>2
<1>3. CASE Begin(o) \/ (CheckLabel(o) /\ ~RolledBack(o)) \/ (CheckApps(o) /\ ~RolledBack(o))
           \/ (FindClaim(o) /\ ~RolledBack(o))
  BY <1>2, <1>3 DEF Begin, CheckLabel, CheckApps, FindClaim
<1>4. CASE InsertClaim(o)
  BY <1>4 DEF InsertClaim, RowState
<1>5. CASE InsertApp(o) /\ ~RolledBack(o)
  <2>1. app' = [app EXCEPT ![o] = [state |-> "inserting", id |-> created + 1]] /\ created' = created + 1
        /\ created < MaxApps /\ app[o] = NoApp /\ deploy' = [deploy EXCEPT ![o] = "created"]
        /\ UNCHANGED <<claim, removal>>
    BY <1>5 DEF InsertApp
  <2>2. created + 1 \in 1 .. MaxApps
    BY <2>1, SlugAssumption
  <2>3. SlugTypes'
    BY <2>1, <2>2, SlugAssumption DEF RowState
  <2> QED BY <2>1, <2>2, <2>3 DEF NoApp
<1>6. CASE Commit(o)
  <2>1. /\ \A p \in Org : IF p = o THEN app'[p].state = "live" /\ app'[p].id = app[p].id ELSE app'[p] = app[p]
        /\ \A p \in Org : IF p = o /\ claim[p] = "inserting" THEN claim'[p] = "live" ELSE claim'[p] = claim[p]
        /\ \A p \in Org : IF p = o THEN deploy'[p] = "idle" ELSE deploy'[p] = deploy[p]
    BY <1>6 DEF Commit
  <2>2. SlugTypes'
    BY <1>6 DEF Commit, RowState
  <2>3. deploy[o] = "created"
    BY <1>6 DEF Commit
  <2> QED BY <2>1, <2>2, <2>3
<1> QED BY <1>1, <1>3, <1>4, <1>5, <1>6 DEF DeployStep, Fail

LEMMA RemovalStays ==
    ASSUME SlugIInv, NEW o \in Org, RemovalStep(o)
    PROVE  SlugIInv'
<1> USE DEF SlugIInv, SlugTypes, OneClaim, ClaimsFollowApps, InsertsAreOpen
<1>1. CASE StartRemoval(o)
  BY <1>1 DEF StartRemoval
<1>2. CASE DeleteRows(o)
  BY <1>2 DEF DeleteRows, Release, RowState
<1>3. CASE CommitRemoval(o)
  <2>1. PICK s \in {"none", "given_up"} : removal' = [removal EXCEPT ![app[o].id] = s]
    BY <1>3 DEF CommitRemoval
  <2>2. /\ app' = [app EXCEPT ![o] = NoApp] /\ app[o].state = "deleting"
        /\ claim' = [claim EXCEPT ![o] = IF @ = "deleting" THEN "absent" ELSE @]
        /\ UNCHANGED <<deploy, created>>
    BY <1>3 DEF CommitRemoval
  <2> QED BY <2>1, <2>2, SlugAssumption DEF NoApp, RowState
<1>4. CASE RemovalFails(o)
  BY <1>4 DEF RemovalFails, Committed, RowState
<1>5. ASSUME NEW i \in Ids, LateRelease(o, i) PROVE SlugIInv'
  BY <1>5, SlugAssumption DEF LateRelease, RowState, Ids
<1> QED BY <1>1, <1>2, <1>3, <1>4, <1>5 DEF RemovalStep

LEMMA SlugIInvStays == SlugIInv /\ [SlugNext]_slugVars => SlugIInv'
<1> SUFFICES ASSUME SlugIInv, [SlugNext]_slugVars PROVE SlugIInv'
  OBVIOUS
<1>1. CASE UNCHANGED slugVars
  BY <1>1 DEF slugVars, SlugIInv, SlugTypes, OneClaim, ClaimsFollowApps, InsertsAreOpen
<1> QED BY <1>1, DeployStays, RemovalStays DEF SlugNext

LEMMA SlugInvariant == SlugSpec => []SlugIInv
BY SlugIInvStarts, SlugIInvStays, PTL DEF SlugSpec

\* Rows and transactions have their types, and one owner at most has a claim of the
\* slug, committed or not.
THEOREM SlugTypesHold == SlugSpec => []SlugTypeOK
<1>1. ASSUME SlugIInv PROVE SlugTypeOK
  <2>1. Cardinality({o \in Org : claim[o] # "absent"}) <= 1
    <3> DEFINE S == {o \in Org : claim[o] # "absent"}
    <3>1. CASE S = {}
      BY <3>1, FS_EmptySet
    <3>2. ASSUME NEW p \in S PROVE Cardinality(S) <= 1
      <4>1. S = {p}
        BY <1>1 DEF SlugIInv, OneClaim
      <4> QED BY <4>1, FS_Singleton
    <3> QED BY <3>1, <3>2
  <2> QED BY <1>1, <2>1 DEF SlugTypeOK, SlugIInv, SlugTypes
<1> QED BY <1>1, SlugInvariant, PTL

\* No claim outlives its App (release_sandbox_app_slug in the transaction that deletes
\* the App, the claim in the one that creates it).
THEOREM ClaimsLeaveWithTheirApps == SlugSpec => []ClaimsAreReleased
<1>1. SlugIInv => ClaimsAreReleased
  BY DEF SlugIInv, ClaimsFollowApps, ClaimsAreReleased, AppVisible, Committed
<1> QED BY <1>1, SlugInvariant, PTL

-----------------------------------------------------------------------------
(* One owner *)

LEMMA OwnerIInvStarts == SlugInit => OwnerIInv
BY SlugIInvStarts DEF SlugInit, OwnerIInv, NoLateThread, DeploysHoldTheSlug, PastLabel, SlugHasOneOwner,
   AppHoldsItsClaim, AppVisible, Committed, NoApp

\* What a step of a deployment may do to the Apps that are seen, and to the claims.
LEMMA OwnerDeployStays ==
    ASSUME HostedZone, OwnerIInv, NEW o \in Org, DeployStep(o)
    PROVE  OwnerIInv'
<1> USE DEF OwnerIInv, NoLateThread, DeploysHoldTheSlug, PastLabel, SlugHasOneOwner, AppHoldsItsClaim,
            AppVisible, Committed
<1>0. SlugIInv'
  BY DeployStays
<1>1. CASE RolledBack(o)
  <2>1. /\ removal' = removal
        /\ \A p \in Org : IF p = o THEN deploy'[p] = "idle" ELSE deploy'[p] = deploy[p]
        /\ \A p \in Org : IF p = o /\ claim[p] = "inserting" THEN claim'[p] = "absent" ELSE claim'[p] = claim[p]
        /\ \A p \in Org : IF p = o /\ app[p].state = "inserting" THEN app'[p] = NoApp ELSE app'[p] = app[p]
    BY <1>1 DEF RolledBack, SlugIInv, SlugTypes
  <2> QED BY <1>0, <2>1 DEF NoApp
<1>2. CASE Begin(o)
  BY <1>0, <1>2 DEF Begin, SlugIInv, SlugTypes
<1>3. CASE CheckLabel(o) /\ ~RolledBack(o)
  BY <1>0, <1>3 DEF CheckLabel, LabelFree, SlugIInv, SlugTypes
<1>4. CASE CheckApps(o) /\ ~RolledBack(o)
  BY <1>0, <1>4 DEF CheckApps, SlugIInv, SlugTypes
<1>5. CASE FindClaim(o) /\ ~RolledBack(o)
  \* Its own claim would be that of an App it does not have.
  BY <1>5 DEF FindClaim, SlugIInv, ClaimsFollowApps
<1>6. CASE InsertClaim(o)
  BY <1>0, <1>6 DEF InsertClaim, SlugIInv, SlugTypes
<1>7. CASE InsertApp(o) /\ ~RolledBack(o)
  <2>1. /\ UNCHANGED <<claim, removal>> /\ deploy[o] = "claimed" /\ app[o] = NoApp
        /\ \A p \in Org : IF p = o THEN deploy'[p] = "created" ELSE deploy'[p] = deploy[p]
        /\ \A p \in Org : IF p = o THEN app'[p].state = "inserting" ELSE app'[p] = app[p]
    BY <1>7 DEF InsertApp, SlugIInv, SlugTypes
  <2> QED BY <1>0, <2>1 DEF NoApp
<1>8. CASE Commit(o)
  <2>1. /\ removal' = removal /\ deploy[o] = "created"
        /\ \A p \in Org : IF p = o THEN app'[p].state = "live" /\ app'[p].id = app[p].id ELSE app'[p] = app[p]
        /\ \A p \in Org : IF p = o /\ claim[p] = "inserting" THEN claim'[p] = "live" ELSE claim'[p] = claim[p]
        /\ \A p \in Org : IF p = o THEN deploy'[p] = "idle" ELSE deploy'[p] = deploy[p]
    BY <1>8 DEF Commit, SlugIInv, SlugTypes
  <2>2. claim[o] = "inserting" /\ app[o].id # 0
    BY <2>1 DEF SlugIInv, InsertsAreOpen
  \* Whoever else has an App has a claim, or an App from before the claims.
  <2>3. \A p \in Org : ~AppVisible(p)
    BY <2>1, <2>2 DEF SlugIInv, OneClaim
  \* And whoever else is past the check of the label finds the App has an id.
  <2> QED BY <1>0, <2>1, <2>2, <2>3
<1> QED BY <1>1, <1>2, <1>3, <1>4, <1>5, <1>6, <1>7, <1>8 DEF DeployStep, Fail

LEMMA OwnerRemovalStays ==
    ASSUME ~LateThreads, OwnerIInv, NEW o \in Org, RemovalStep(o)
    PROVE  OwnerIInv'
<1> USE DEF OwnerIInv, NoLateThread, DeploysHoldTheSlug, PastLabel, SlugHasOneOwner, AppHoldsItsClaim,
            AppVisible, Committed, SlugIInv, SlugTypes
<1>0. SlugIInv'
  BY RemovalStays
<1>1. CASE StartRemoval(o)
  BY <1>0, <1>1 DEF StartRemoval
<1>2. CASE DeleteRows(o)
  BY <1>0, <1>2 DEF DeleteRows, Release
<1>3. CASE CommitRemoval(o)
  <2>1. removal' = [removal EXCEPT ![app[o].id] = "none"]
    BY <1>3 DEF CommitRemoval
  <2>2. /\ app' = [app EXCEPT ![o] = NoApp] /\ app[o].state = "deleting"
        /\ claim' = [claim EXCEPT ![o] = IF @ = "deleting" THEN "absent" ELSE @]
        /\ UNCHANGED <<deploy, created>>
    BY <1>3 DEF CommitRemoval
  <2> QED BY <1>0, <2>1, <2>2 DEF NoApp
<1>4. CASE RemovalFails(o)
  BY <1>0, <1>4 DEF RemovalFails
<1>5. ASSUME NEW i \in Ids, LateRelease(o, i) PROVE FALSE
  BY <1>5 DEF LateRelease, Ids
<1> QED BY <1>1, <1>2, <1>3, <1>4, <1>5 DEF RemovalStep

LEMMA OwnerIInvStays ==
    ASSUME HostedZone, ~LateThreads, OwnerIInv, [SlugNext]_slugVars
    PROVE  OwnerIInv'
<1>1. CASE UNCHANGED slugVars
  BY <1>1 DEF slugVars, OwnerIInv, NoLateThread, DeploysHoldTheSlug, SlugHasOneOwner, AppHoldsItsClaim,
     AppVisible, SlugIInv, SlugTypes, OneClaim, ClaimsFollowApps, InsertsAreOpen
<1> QED BY <1>1, OwnerDeployStays, OwnerRemovalStays DEF SlugNext

LEMMA OwnerInvariant == ASSUME HostedZone, ~LateThreads PROVE SlugSpec => []OwnerIInv
<1>1. OwnerIInv /\ [SlugNext]_slugVars => OwnerIInv'
  BY OwnerIInvStays
<1> QED BY <1>1, OwnerIInvStarts, PTL DEF SlugSpec

\* Two organizations never own an App of one slug, though both may pass every check
\* before either commits: the claim decides.
THEOREM SlugsStayWithOneOwner == ASSUME HostedZone, ~LateThreads PROVE SlugSpec => []SlugHasOneOwner
<1>1. OwnerIInv => SlugHasOneOwner
  BY DEF OwnerIInv
<1> QED BY <1>1, OwnerInvariant, PTL

\* An App of the sandbox has its claim for as long as it is seen.
THEOREM AppsHoldTheirClaims == ASSUME HostedZone, ~LateThreads PROVE SlugSpec => []AppHoldsItsClaim
<1>1. OwnerIInv => AppHoldsItsClaim
  BY DEF OwnerIInv
<1> QED BY <1>1, OwnerInvariant, PTL

\* A slug has one owner, whatever deployments and removals of however many
\* organizations overlap.
THEOREM SlugsStaySound == SlugSpec => []SlugsHaveOneOwner
<1>2. CASE HostedZone /\ ~LateThreads
  <2>1. SlugSpec => []SlugHasOneOwner
    BY <1>2, SlugsStayWithOneOwner
  <2>2. SlugSpec => []AppHoldsItsClaim
    BY <1>2, AppsHoldTheirClaims
  <2>3. SlugTypeOK /\ ClaimsAreReleased /\ SlugHasOneOwner /\ AppHoldsItsClaim => SlugsHaveOneOwner
    BY DEF SlugsHaveOneOwner
  <2> QED BY <2>1, <2>2, <2>3, SlugTypesHold, ClaimsLeaveWithTheirApps, PTL
<1>3. CASE ~(HostedZone /\ ~LateThreads)
  <2>1. SlugTypeOK /\ ClaimsAreReleased => SlugsHaveOneOwner
    BY <1>3 DEF SlugsHaveOneOwner
  <2> QED BY <2>1, SlugTypesHold, ClaimsLeaveWithTheirApps, PTL
<1> QED BY <1>2, <1>3

-----------------------------------------------------------------------------
(* The persistent root: the runtime runs on a whole root with its image's  *)
(* code, no leftover is on EFS while it does, and the archive is never a   *)
(* half-written one.  Whole roots and archives are proved for a tar that   *)
(* extracts the marker last; the rest needs no assumption.                 *)

\* ECS runs one task at a time.
OneTask == \A g, h \in Host : ~At(g, "none") /\ ~At(h, "none") => g = h

Synced == {"trapped", "running", "exited", "archiving", "renaming"}

\* Past the sync a root holds the directories of the task's image.
SyncedRoots == \A h \in Host : task[h].stage \in Synced => root[h].runtime = task[h].image

\* From the sweep of its boot to its own checkpoint a task sees no leftover.
Swept ==
    \A h \in Host : task[h].stage \in {"restoring", "initializing", "syncing", "trapped", "running", "exited"}
        => tmp.state = "absent"

\* A restore reads an archive: none is ever removed.
RestoreHasArchive == \A h \in Host : At(h, "restoring") => archive.state # "absent"

RootIInv == RootTypeOK /\ RestoreHasArchive /\ OneTask /\ SyncedRoots /\ Swept

\* A root with the marker is whole, and a task past its boot has one.
MarkedIsWhole == \A h \in Host : root[h].marker => root[h].state = "whole"
BootedIsMarked == \A h \in Host : task[h].stage \in Synced \cup {"syncing"} => root[h].marker
ArchiveAtRestore == \A h \in Host : At(h, "restoring") => archive.state = "whole"
WholeAtRename == \A h \in Host : At(h, "renaming") => tmp.state \in {"absent", "whole"}

WholeIInv ==
    /\ RootIInv
    /\ MarkedIsWhole /\ BootedIsMarked /\ ArchiveAtRestore /\ WholeAtRename
    /\ ArchiveIsWhole

-----------------------------------------------------------------------------
TaskTypeOK ==
    /\ task \in [Host -> Task]
    /\ \A h \in Host : task[h].stage = "none" <=> task[h] = NoTask

LEMMA TaskSet ==
    ASSUME TaskTypeOK, NEW h \in Host, NEW t \in Task, t.stage = "none" <=> t = NoTask,
           task' = [task EXCEPT ![h] = t]
    PROVE  TaskTypeOK'
BY DEF TaskTypeOK

LEMMA TaskGoesTo ==
    ASSUME TaskTypeOK, NEW h \in Host, NEW stage \in Stage \ {"none"}, GoTo(h, stage)
    PROVE  TaskTypeOK'
<1>1. [task[h] EXCEPT !.stage = stage] \in Task
  BY DEF TaskTypeOK, Task
<1>2. [task[h] EXCEPT !.stage = stage].stage = stage
  BY DEF TaskTypeOK, Task
<1>3. [task[h] EXCEPT !.stage = stage] # NoTask
  BY <1>2 DEF NoTask
<1>4. task' = [task EXCEPT ![h] = [task[h] EXCEPT !.stage = stage]]
  BY DEF GoTo, TaskTypeOK
<1> QED BY <1>1, <1>2, <1>3, <1>4, TaskSet

LEMMA TaskEnds ==
    ASSUME TaskTypeOK, NEW h \in Host, task' = [task EXCEPT ![h] = NoTask]
    PROVE  TaskTypeOK'
<1>1. NoTask \in Task
  BY RootAssumption DEF NoTask, Task, Stage
<1> QED BY <1>1, TaskSet DEF NoTask

LEMMA RootTypesStart == RootInit => RootTypeOK
BY RootAssumption DEF RootInit, RootTypeOK, Root, EmptyRoot, Archive, NoArchive, Task, NoTask, Stage, Image, Work

LEMMA RootTypesStay == RootTypeOK /\ RestoreHasArchive /\ [RootNext]_rootVars => RootTypeOK'
<1> SUFFICES ASSUME RootTypeOK, RestoreHasArchive, [RootNext]_rootVars PROVE RootTypeOK'
  OBVIOUS
<1>0. TaskTypeOK
  BY DEF RootTypeOK, TaskTypeOK
<1>a. SUFFICES ASSUME RootNext
               PROVE  /\ root' \in [Host -> Root] /\ archive' \in Archive /\ tmp' \in Archive
                      /\ image' \in Image /\ stored' \in 0 .. MaxWork /\ tasks' \in 0 .. MaxTasks
                      /\ TaskTypeOK'
  <2>1. CASE RootNext
    BY <2>1, <1>a DEF RootTypeOK, TaskTypeOK
  <2>2. CASE UNCHANGED rootVars
    BY <2>2 DEF RootTypeOK, rootVars
  <2> QED BY <2>1, <2>2
<1> USE RootAssumption
<1> DEFINE Typed == /\ root' \in [Host -> Root] /\ archive' \in Archive /\ tmp' \in Archive
                    /\ image' \in Image /\ stored' \in 0 .. MaxWork /\ tasks' \in 0 .. MaxTasks
<1>1. CASE DeployImage
  BY <1>0, <1>1 DEF DeployImage, RootTypeOK, Image, TaskTypeOK
<1>2. ASSUME NEW h \in Host, StartTask(h)
      PROVE  Typed /\ TaskTypeOK'
  <2>1. [stage |-> "booting", image |-> image, term |-> FALSE] \in Task
    BY DEF RootTypeOK, Task, Stage, Image
  <2>2. [stage |-> "booting", image |-> image, term |-> FALSE] # NoTask
    BY DEF NoTask
  <2>3. TaskTypeOK'
    BY <1>0, <1>2, <2>1, <2>2, TaskSet DEF StartTask
  <2> QED BY <1>2, <2>3 DEF StartTask, RootTypeOK
<1>3. ASSUME NEW h \in Host, RequestTermination(h)
      PROVE  Typed /\ TaskTypeOK'
  <2>1. [task[h] EXCEPT !.term = TRUE] \in Task /\ [task[h] EXCEPT !.term = TRUE].stage = task[h].stage
    BY DEF RootTypeOK, Task
  <2>2. task' = [task EXCEPT ![h] = [task[h] EXCEPT !.term = TRUE]] /\ task[h].stage # "none"
    BY <1>3 DEF RequestTermination, RootTypeOK
  <2>3. [task[h] EXCEPT !.term = TRUE] # NoTask
    BY <2>1, <2>2 DEF NoTask
  <2>4. TaskTypeOK'
    BY <1>0, <2>1, <2>2, <2>3, TaskSet
  <2> QED BY <1>3, <2>4 DEF RequestTermination, RootTypeOK
<1>4. ASSUME NEW h \in Host, Kill(h) \/ LoseHost(h)
      PROVE  Typed /\ TaskTypeOK'
  <2>1. TaskTypeOK'
    BY <1>0, <1>4, TaskEnds DEF Kill, LoseHost
  <2>2. EmptyRoot \in Root
    BY DEF EmptyRoot, Root
  <2>3. root' \in [Host -> Root]
    BY <1>4, <2>2 DEF Kill, LoseHost, RootTypeOK
  <2> QED BY <1>4, <2>1, <2>3 DEF Kill, LoseHost, RootTypeOK
<1>5. ASSUME NEW h \in Host, Boot(h)
      PROVE  Typed /\ TaskTypeOK'
  <2>1. TaskTypeOK'
    BY <1>0, <1>5, TaskGoesTo DEF Boot, Stage
  <2>2. root' \in [Host -> Root]
    BY <1>5 DEF Boot, RootTypeOK, Root
  <2> QED BY <1>5, <2>1, <2>2 DEF Boot, Sweep, RootTypeOK, Archive, NoArchive
<1>6. ASSUME NEW h \in Host, ExtractMarker(h)
      PROVE  Typed /\ TaskTypeOK'
  BY <1>0, <1>6 DEF ExtractMarker, RootTypeOK, Root, TaskTypeOK
<1>7. ASSUME NEW h \in Host, Restore(h)
      PROVE  Typed /\ TaskTypeOK'
  <2>1. TaskTypeOK'
    BY <1>0, <1>7, TaskGoesTo DEF Restore, Stage
  <2>2. archive.state \in {"partial", "whole"} /\ archive.works \subseteq Work
    BY <1>7 DEF Restore, RestoreHasArchive, RootTypeOK, Archive
  <2>3. [root[h] EXCEPT !.marker = TRUE, !.state = archive.state,
                        !.works = root[h].works \union archive.works] \in Root
    BY <2>2 DEF RootTypeOK, Root
  <2>4. root' \in [Host -> Root]
    BY <1>7, <2>3 DEF Restore, RootTypeOK
  <2> QED BY <1>7, <2>1, <2>4 DEF Restore, RootTypeOK
<1>8. ASSUME NEW h \in Host, Initialize(h) \/ SyncImageDirs(h) \/ LaunchRuntime(h)
      PROVE  Typed /\ TaskTypeOK'
  <2>1. TaskTypeOK'
    BY <1>0, <1>8, TaskGoesTo DEF Initialize, SyncImageDirs, LaunchRuntime, Stage
  <2>2. task[h].image \in 0 .. MaxImage
    BY DEF RootTypeOK, Task
  <2> QED BY <1>8, <2>1, <2>2 DEF Initialize, SyncImageDirs, LaunchRuntime, RootTypeOK, Root
<1>9. ASSUME NEW h \in Host, StoreWork(h)
      PROVE  Typed /\ TaskTypeOK'
  <2>1. stored + 1 \in Work
    BY <1>9 DEF StoreWork, RootTypeOK, Work
  <2>2. root' \in [Host -> Root]
    BY <1>9, <2>1 DEF StoreWork, RootTypeOK, Root
  <2> QED BY <1>0, <1>9, <2>1, <2>2 DEF StoreWork, RootTypeOK, Work, TaskTypeOK
<1>10. ASSUME NEW h \in Host, RuntimeExits(h)
       PROVE  Typed /\ TaskTypeOK'
  <2>1. TaskTypeOK'
    BY <1>0, <1>10, TaskGoesTo, TaskEnds DEF RuntimeExits, Stage
  <2> QED BY <1>10, <2>1 DEF RuntimeExits, RootTypeOK
<1>11. ASSUME NEW h \in Host, BeginArchive(h) \/ EndArchive(h) \/ RenameArchive(h)
       PROVE  Typed /\ TaskTypeOK'
  <2>1. TaskTypeOK'
    BY <1>0, <1>11, TaskGoesTo, TaskEnds DEF BeginArchive, EndArchive, RenameArchive, Stage
  <2>2. CASE BeginArchive(h)
    BY <2>1, <2>2 DEF BeginArchive, RootTypeOK, Archive
  <2>3. CASE EndArchive(h)
    <3>1. root[h].works \subseteq Work
      BY DEF RootTypeOK, Root
    <3>2. [state |-> IF root[h].state = "whole" THEN "whole" ELSE "partial", works |-> root[h].works] \in Archive
      BY <3>1 DEF Archive
    <3> QED BY <2>1, <2>3, <3>2 DEF EndArchive, RootTypeOK
  <2>4. CASE RenameArchive(h)
    BY <2>1, <2>4 DEF RenameArchive, RootTypeOK, Archive, NoArchive
  <2> QED BY <1>11, <2>2, <2>3, <2>4
<1> QED BY <1>a, <1>1, <1>2, <1>3, <1>4, <1>5, <1>6, <1>7, <1>8, <1>9, <1>10, <1>11 DEF RootNext, RunnerStep

-----------------------------------------------------------------------------
LEMMA OneTaskStays == RootTypeOK /\ OneTask /\ [RootNext]_rootVars => OneTask'
<1> SUFFICES ASSUME RootTypeOK, OneTask, [RootNext]_rootVars PROVE OneTask'
  OBVIOUS
<1>1. CASE \E h \in Host : StartTask(h)
  BY <1>1 DEF StartTask, OneTask, At, RootTypeOK
<1>2. CASE \A h \in Host : At(h, "none") => At(h, "none")'
  BY <1>2 DEF OneTask
<1>3. ASSUME NEW h \in Host, RequestTermination(h) \/ Kill(h) \/ LoseHost(h) \/ RunnerStep(h)
      PROVE  \A g \in Host : At(g, "none") => At(g, "none")'
  <2>1. ASSUME NEW g \in Host \ {h} PROVE task'[g] = task[g]
    BY <1>3, <2>1 DEF RootTypeOK, RequestTermination, Kill, LoseHost, RunnerStep, Boot, ExtractMarker, Restore,
          Initialize, SyncImageDirs, LaunchRuntime, StoreWork, RuntimeExits, BeginArchive, EndArchive,
          RenameArchive, GoTo
  <2>2. ~At(h, "none") \/ LoseHost(h)
    BY <1>3 DEF At, RequestTermination, Kill, RunnerStep, Boot, ExtractMarker, Restore,
          Initialize, SyncImageDirs, LaunchRuntime, StoreWork, RuntimeExits, BeginArchive, EndArchive,
          RenameArchive
  <2>3. LoseHost(h) => At(h, "none")'
    BY DEF LoseHost, At, NoTask, RootTypeOK
  <2> QED BY <2>1, <2>2, <2>3 DEF At
<1>4. CASE DeployImage \/ UNCHANGED rootVars
  BY <1>4 DEF DeployImage, rootVars, OneTask, At
<1> QED BY <1>1, <1>2, <1>3, <1>4 DEF RootNext

LEMMA BootSteps ==
    ASSUME RootTypeOK, NEW h \in Host, Boot(h)
    PROVE  /\ tmp'.state = "absent" /\ archive' = archive
           /\ \A g \in Host \ {h} : task'[g] = task[g] /\ root'[g] = root[g]
           /\ \/ root[h].marker /\ root' = root /\ task'[h].stage = "syncing"
              \/ /\ ~root[h].marker /\ ~root'[h].marker /\ root'[h].state = "partial"
                 /\ \/ task'[h].stage = "restoring" /\ archive.state # "absent"
                    \/ task'[h].stage = "initializing" /\ archive.state = "absent"
<1>1. tmp'.state = "absent" /\ archive' = archive
  BY DEF Boot, Sweep, NoArchive
<1>2. CASE root[h].marker
  <2>1. task' = [task EXCEPT ![h] = [task[h] EXCEPT !.stage = "syncing"]] /\ root' = root
    BY <1>2 DEF Boot, GoTo, RootTypeOK
  <2>2. task'[h] = [task[h] EXCEPT !.stage = "syncing"] /\ task[h] \in Task
    BY <2>1 DEF RootTypeOK
  <2>3. task'[h].stage = "syncing"
    BY <2>2 DEF Task
  <2> QED BY <1>1, <1>2, <2>1, <2>3 DEF RootTypeOK
<1>3. CASE ~root[h].marker
  <2>1. root' = [root EXCEPT ![h] = [root[h] EXCEPT !.state = "partial"]]
    BY <1>3 DEF Boot, RootTypeOK
  <2>2. task' = [task EXCEPT ![h].stage = IF archive.state # "absent" THEN "restoring" ELSE "initializing"]
    BY <1>3 DEF Boot, GoTo
  <2>3. root'[h] = [root[h] EXCEPT !.state = "partial"] /\ root[h] \in Root
    BY <2>1 DEF RootTypeOK
  <2>4. ~root'[h].marker /\ root'[h].state = "partial"
    BY <1>3, <2>3 DEF Root
  <2>5. task'[h].stage = IF archive.state # "absent" THEN "restoring" ELSE "initializing"
    BY <2>2 DEF RootTypeOK, Task
  <2> QED BY <1>1, <1>3, <2>1, <2>2, <2>4, <2>5 DEF RootTypeOK
<1> QED BY <1>2, <1>3

LEMMA ExitSteps ==
    ASSUME RootTypeOK, NEW h \in Host, RuntimeExits(h)
    PROVE  /\ root' = root /\ tmp' = tmp /\ archive' = archive /\ task[h].stage = "running"
           /\ \A g \in Host \ {h} : task'[g] = task[g]
           /\ \/ task'[h].stage = "exited" /\ task'[h].image = task[h].image
              \/ task'[h].stage = "none"
<1>1. root' = root /\ tmp' = tmp /\ archive' = archive /\ task[h].stage = "running"
  BY DEF RuntimeExits, At
<1>2. CASE task[h].term
  BY <1>1, <1>2 DEF RuntimeExits, GoTo, RootTypeOK, Task
<1>3. CASE ~task[h].term
  <2>1. task' = [task EXCEPT ![h] = NoTask]
    BY <1>3 DEF RuntimeExits
  <2> QED BY <1>1, <2>1 DEF NoTask, RootTypeOK
<1> QED BY <1>2, <1>3

LEMMA RootIInvStays == RootIInv /\ [RootNext]_rootVars => RootIInv'
<1> SUFFICES ASSUME RootIInv, [RootNext]_rootVars PROVE RootIInv'
  OBVIOUS
<1> DEFINE Rest == RestoreHasArchive /\ SyncedRoots /\ Swept
<1>0. RootTypeOK' /\ OneTask'
  BY RootTypesStay, OneTaskStays DEF RootIInv
<1> SUFFICES Rest'
  BY <1>0 DEF RootIInv
<1> USE DEF RootIInv, RootTypeOK, RestoreHasArchive, SyncedRoots, Swept, Synced, At, GoTo
<1>1. CASE DeployImage \/ UNCHANGED rootVars
  BY <1>1 DEF DeployImage, rootVars
<1>2. ASSUME NEW h \in Host, StartTask(h) PROVE Rest'
  BY <1>2 DEF StartTask
<1>3. ASSUME NEW h \in Host, RequestTermination(h) PROVE Rest'
  BY <1>3 DEF RequestTermination
<1>4. ASSUME NEW h \in Host, Kill(h) \/ LoseHost(h) PROVE Rest'
  BY <1>4 DEF Kill, LoseHost, NoTask, EmptyRoot
<1>5. ASSUME NEW h \in Host, Boot(h) PROVE Rest'
  BY <1>5, BootSteps
<1>6. ASSUME NEW h \in Host, ExtractMarker(h) PROVE Rest'
  BY <1>6 DEF ExtractMarker, Root
<1>7. ASSUME NEW h \in Host, Restore(h) PROVE Rest'
  <2>1. tmp' = tmp /\ archive' = archive
    BY <1>7 DEF Restore
  <2>2. ASSUME NEW g \in Host \ {h} PROVE task'[g] = task[g] /\ root'[g] = root[g]
    BY <1>7, <2>2 DEF Restore
  <2>3. task'[h].stage = "syncing" /\ task[h].stage = "restoring"
    BY <1>7 DEF Restore
  <2> QED BY <2>1, <2>2, <2>3
<1>8. ASSUME NEW h \in Host, Initialize(h) PROVE Rest'
  BY <1>8 DEF Initialize, Root
<1>9. ASSUME NEW h \in Host, SyncImageDirs(h) PROVE Rest'
  BY <1>9 DEF SyncImageDirs, Root
<1>10. ASSUME NEW h \in Host, LaunchRuntime(h) PROVE Rest'
  BY <1>10 DEF LaunchRuntime
<1>11. ASSUME NEW h \in Host, StoreWork(h) PROVE Rest'
  BY <1>11 DEF StoreWork, Root
<1>12. ASSUME NEW h \in Host, RuntimeExits(h) PROVE Rest'
  BY <1>12, ExitSteps
<1>13. ASSUME NEW h \in Host, BeginArchive(h) PROVE Rest'
  BY <1>13 DEF BeginArchive, OneTask
<1>14. ASSUME NEW h \in Host, EndArchive(h) PROVE Rest'
  BY <1>14 DEF EndArchive, OneTask
<1>15. ASSUME NEW h \in Host, RenameArchive(h) PROVE Rest'
  BY <1>15 DEF RenameArchive, NoTask, NoArchive, OneTask
<1> QED BY <1>1, <1>2, <1>3, <1>4, <1>5, <1>6, <1>7, <1>8, <1>9, <1>10, <1>11, <1>12, <1>13, <1>14, <1>15
        DEF RootNext, RunnerStep

LEMMA RootIInvStarts == RootInit => RootIInv
BY RootTypesStart DEF RootInit, RootIInv, RestoreHasArchive, OneTask, SyncedRoots, Swept, Synced, At,
   NoTask, NoArchive, EmptyRoot

LEMMA RootIInvAlways == RootSpec => []RootIInv
<1>1. RootInit => RootIInv
  BY RootIInvStarts
<1>2. RootIInv /\ [RootNext]_rootVars => RootIInv'
  BY RootIInvStays
<1> QED BY <1>1, <1>2, PTL DEF RootSpec

\* Instances, archives and runner tasks are what their types say.
THEOREM RootTypes == RootSpec => []RootTypeOK
<1>1. RootIInv => RootTypeOK
  BY DEF RootIInv
<1> QED BY <1>1, RootIInvAlways, PTL

\* Whatever root an instance kept, the code the runtime runs is that of the image
\* its task was started with (sync_image_owned_dirs before the launch).
THEOREM RuntimesRunTheirImage == RootSpec => []RunsItsImage
<1>1. RootIInv => RunsItsImage
  BY DEF RootIInv, RunsItsImage, SyncedRoots, Synced, At
<1> QED BY <1>1, RootIInvAlways, PTL

\* Leftovers of killed shutdowns are gone before the runtime runs
\* (report_stale_checkpoint_tmp_files).
THEOREM LeftoversAreGone == RootSpec => []LeftoversAreSwept
<1>1. RootIInv => LeftoversAreSwept
  BY DEF RootIInv, LeftoversAreSwept, Swept, At
<1> QED BY <1>1, RootIInvAlways, PTL

-----------------------------------------------------------------------------
LEMMA WholeIInvStays == ~MarkerEarly /\ WholeIInv /\ [RootNext]_rootVars => WholeIInv'
<1> SUFFICES ASSUME ~MarkerEarly, WholeIInv, [RootNext]_rootVars PROVE WholeIInv'
  OBVIOUS
<1> DEFINE Rest == MarkedIsWhole /\ BootedIsMarked /\ ArchiveAtRestore /\ WholeAtRename /\ ArchiveIsWhole
<1>0. RootIInv'
  BY RootIInvStays DEF WholeIInv
<1> SUFFICES Rest'
  BY <1>0 DEF WholeIInv
<1> USE DEF WholeIInv, RootIInv, RootTypeOK, MarkedIsWhole, BootedIsMarked, ArchiveAtRestore, WholeAtRename,
        ArchiveIsWhole, Synced, At, GoTo
<1>1. CASE DeployImage \/ UNCHANGED rootVars
  BY <1>1 DEF DeployImage, rootVars
<1>2. ASSUME NEW h \in Host, StartTask(h) PROVE Rest'
  BY <1>2 DEF StartTask
<1>3. ASSUME NEW h \in Host, RequestTermination(h) PROVE Rest'
  BY <1>3 DEF RequestTermination
<1>4. ASSUME NEW h \in Host, Kill(h) \/ LoseHost(h) PROVE Rest'
  BY <1>4 DEF Kill, LoseHost, NoTask, EmptyRoot
<1>5. ASSUME NEW h \in Host, Boot(h) PROVE Rest'
  BY <1>5, BootSteps DEF Archive
<1>6. ASSUME NEW h \in Host, ExtractMarker(h) PROVE Rest'
  BY <1>6 DEF ExtractMarker
<1>7. ASSUME NEW h \in Host, Restore(h) PROVE Rest'
  <2>1. tmp' = tmp /\ archive' = archive
    BY <1>7 DEF Restore
  <2>2. ASSUME NEW g \in Host \ {h} PROVE task'[g] = task[g] /\ root'[g] = root[g]
    BY <1>7, <2>2 DEF Restore
  <2>3. root'[h].state = "whole" /\ root'[h].marker
    BY <1>7 DEF Restore, Root
  <2>4. task'[h].stage = "syncing"
    BY <1>7 DEF Restore
  <2> QED BY <2>1, <2>2, <2>3, <2>4
<1>8. ASSUME NEW h \in Host, Initialize(h) PROVE Rest'
  BY <1>8 DEF Initialize, Root
<1>9. ASSUME NEW h \in Host, SyncImageDirs(h) PROVE Rest'
  BY <1>9 DEF SyncImageDirs, Root
<1>10. ASSUME NEW h \in Host, LaunchRuntime(h) PROVE Rest'
  BY <1>10 DEF LaunchRuntime
<1>11. ASSUME NEW h \in Host, StoreWork(h) PROVE Rest'
  BY <1>11 DEF StoreWork, Root
<1>12. ASSUME NEW h \in Host, RuntimeExits(h) PROVE Rest'
  BY <1>12, ExitSteps
<1>13. ASSUME NEW h \in Host, BeginArchive(h) PROVE Rest'
  BY <1>13 DEF BeginArchive, OneTask
<1>14. ASSUME NEW h \in Host, EndArchive(h) PROVE Rest'
  BY <1>14 DEF EndArchive, OneTask
<1>15. ASSUME NEW h \in Host, RenameArchive(h) PROVE Rest'
  BY <1>15 DEF RenameArchive, NoTask, NoArchive, OneTask
<1> QED BY <1>1, <1>2, <1>3, <1>4, <1>5, <1>6, <1>7, <1>8, <1>9, <1>10, <1>11, <1>12, <1>13, <1>14, <1>15
        DEF RootNext, RunnerStep

LEMMA WholeIInvStarts == RootInit => WholeIInv
BY RootIInvStarts DEF RootInit, WholeIInv, MarkedIsWhole, BootedIsMarked, ArchiveAtRestore, WholeAtRename,
   ArchiveIsWhole, Synced, At, NoTask, NoArchive, EmptyRoot

LEMMA WholeIInvAlways == ASSUME ~MarkerEarly PROVE RootSpec => []WholeIInv
<1>1. RootInit => WholeIInv
  BY WholeIInvStarts
<1>2. WholeIInv /\ [RootNext]_rootVars => WholeIInv'
  BY WholeIInvStays
<1> QED BY <1>1, <1>2, PTL DEF RootSpec

\* A shutdown killed at any step leaves the previous archive or the new one
\* (checkpoint_persistent_root), if tar extracts the marker last.
THEOREM ArchivesAreWhole == ASSUME ~MarkerEarly PROVE RootSpec => []ArchiveIsWhole
<1>1. WholeIInv => ArchiveIsWhole
  BY DEF WholeIInv
<1> QED BY <1>1, WholeIInvAlways, PTL

\* The runtime never runs on a root that a killed restore or initialization left
\* half copied (persistent_root_initialized), if tar extracts the marker last.
THEOREM RuntimesRunOnWholeRoots == ASSUME ~MarkerEarly PROVE RootSpec => []RunsOnWholeRoot
<1>1. WholeIInv => RunsOnWholeRoot
  BY DEF WholeIInv, RunsOnWholeRoot, MarkedIsWhole, BootedIsMarked, Synced, At
<1> QED BY <1>1, WholeIInvAlways, PTL

\* Whichever step of a boot, a restore, a checkpoint or a sweep is cut, archives and
\* roots in use are whole, and the runtime is the image's.
THEOREM RootsStaySound == ASSUME ~MarkerEarly PROVE RootSpec => []RootsAreSound
BY RootTypes, ArchivesAreWhole, RuntimesRunOnWholeRoots, RuntimesRunTheirImage, LeftoversAreGone, PTL
   DEF RootsAreSound

-----------------------------------------------------------------------------
(* The migration: phases fail and are run in any order and any number of   *)
(* times.  What is proved is of a staging begun with the service gone.     *)

\* Until finalize the service is gone, and what is staged is the archive.
Alone == progress \in {"alone", "staged", "cleared"}
ServiceIsGone == Alone => desired = 0 /\ \A h \in Host : At(h, "none")
ArchiveIsStaged == progress \in {"staged", "cleared"} => archive = [state |-> "whole", works |-> {0}]

\* An instance that was cleared meanwhile stays so.
ClearedRoots ==
    /\ op = "clearing" => progress # "started"
    /\ op = "clearing" /\ Alone => \A h \in Host \ toClear : root[h] = EmptyRoot
    /\ progress = "cleared" => \A h \in Host : root[h] = EmptyRoot

\* A task that boots after the migration takes the staged state with it, wherever
\* it is killed, and saves no less.
Landed ==
    /\ archive.state = "whole" /\ 0 \in archive.works
    /\ \A h \in Host : root[h].marker => root[h].state = "whole" /\ 0 \in root[h].works
    /\ BootedIsMarked
    /\ \A h \in Host : ~At(h, "initializing")
    /\ (\E h \in Host : At(h, "renaming")) /\ tmp.state # "absent" => tmp.state = "whole" /\ 0 \in tmp.works

MigIInv ==
    /\ RootTypeOK /\ RestoreHasArchive /\ OneTask
    /\ MigTypeOK
    /\ ServiceIsGone /\ ArchiveIsStaged /\ ClearedRoots
    /\ progress = "started" => Landed

-----------------------------------------------------------------------------
LEMMA MigIInvStarts == MigInit /\ MigrationAssumption => MigIInv
<1> SUFFICES ASSUME MigInit, MigrationAssumption PROVE MigIInv
  OBVIOUS
<1>1. RootTypeOK /\ RestoreHasArchive /\ OneTask
  BY RootIInvStarts DEF MigInit, RootIInv
<1>2. MigTypeOK
  <2>1. /\ NoState \in [uploaded : BOOLEAN, prev : 0 .. 1]
        /\ 0 \in 0 .. MaxTasks /\ 0 \in 0 .. MaxPhases /\ 1 \in 0 .. 1
    BY RootAssumption DEF NoState, MigrationAssumption
  <2> QED BY <2>1 DEF MigInit, MigTypeOK, Op
<1> QED BY <1>1, <1>2 DEF MigInit, MigIInv, ServiceIsGone, ArchiveIsStaged, ClearedRoots, Alone

LEMMA RestoreKeepsItsArchive ==
    ASSUME RootTypeOK, RestoreHasArchive, NEW h \in Host,
           StartTask(h) \/ RequestTermination(h) \/ Kill(h) \/ LoseHost(h) \/ RunnerStep(h)
    PROVE  RestoreHasArchive'
<1>1. archive.state # "absent" => archive'.state # "absent"
  BY DEF StartTask, RequestTermination, Kill, LoseHost, RunnerStep, Boot, ExtractMarker, Restore, Initialize,
     SyncImageDirs, LaunchRuntime, StoreWork, RuntimeExits, BeginArchive, EndArchive, RenameArchive
<1>2. \A g \in Host \ {h} : task'[g] = task[g]
  BY DEF StartTask, RequestTermination, Kill, LoseHost, RunnerStep, Boot, ExtractMarker, Restore, Initialize,
     SyncImageDirs, LaunchRuntime, StoreWork, RuntimeExits, BeginArchive, EndArchive, RenameArchive, GoTo, RootTypeOK
<1> USE DEF RootTypeOK, At, GoTo, RestoreHasArchive
<1>3. CASE StartTask(h)
  BY <1>1, <1>2, <1>3 DEF StartTask
<1>4. CASE RequestTermination(h)
  BY <1>1, <1>2, <1>4 DEF RequestTermination
<1>5. CASE Kill(h) \/ LoseHost(h)
  BY <1>1, <1>2, <1>5 DEF Kill, LoseHost, NoTask
<1>6. CASE Boot(h)
  BY <1>6, BootSteps
<1>7. CASE ExtractMarker(h) \/ StoreWork(h)
  BY <1>1, <1>2, <1>7 DEF ExtractMarker, StoreWork
<1>8. CASE Restore(h) \/ Initialize(h) \/ SyncImageDirs(h) \/ LaunchRuntime(h) \/ BeginArchive(h) \/ EndArchive(h)
  <2>1. task'[h].stage # "restoring"
    BY <1>8 DEF Restore, Initialize, SyncImageDirs, LaunchRuntime, BeginArchive, EndArchive, Task
  <2> QED BY <1>1, <1>2, <2>1
<1>9. CASE RuntimeExits(h)
  BY <1>1, <1>2, <1>9, ExitSteps
<1>10. CASE RenameArchive(h)
  BY <1>1, <1>2, <1>10 DEF RenameArchive, NoTask
<1> QED BY <1>3, <1>4, <1>5, <1>6, <1>7, <1>8, <1>9, <1>10 DEF RunnerStep

\* What happens without a task: an instance can be lost, no more.
LEMMA NoTaskNoStep ==
    ASSUME RootTypeOK, \A g \in Host : At(g, "none"), NEW h \in Host,
           RequestTermination(h) \/ Kill(h) \/ LoseHost(h) \/ RunnerStep(h)
    PROVE  /\ archive' = archive
           /\ \A g \in Host : At(g, "none")'
           /\ \A g \in Host : root'[g] = root[g] \/ root'[g] = EmptyRoot
<1>1. LoseHost(h)
  BY DEF At, RequestTermination, Kill, RunnerStep, Boot, ExtractMarker, Restore, Initialize, SyncImageDirs,
     LaunchRuntime, StoreWork, RuntimeExits, BeginArchive, EndArchive, RenameArchive
<1> QED BY <1>1 DEF LoseHost, At, NoTask, RootTypeOK

LEMMA LandedStays ==
    ASSUME ~MarkerEarly, RootTypeOK, OneTask, Landed, NEW h \in Host,
           StartTask(h) \/ RequestTermination(h) \/ Kill(h) \/ LoseHost(h) \/ RunnerStep(h)
    PROVE  Landed'
<1> USE DEF RootTypeOK, BootedIsMarked, Synced, Landed, At, GoTo
<1>1. CASE StartTask(h)
  BY <1>1 DEF StartTask
<1>2. CASE RequestTermination(h)
  BY <1>2 DEF RequestTermination
<1>3. CASE Kill(h) \/ LoseHost(h)
  BY <1>3 DEF Kill, LoseHost, NoTask, EmptyRoot
<1>4. CASE Boot(h)
  BY <1>4, BootSteps
<1>5. CASE ExtractMarker(h)
  BY <1>5 DEF ExtractMarker
<1>6. CASE Restore(h)
  <2>1. tmp' = tmp /\ archive' = archive
    BY <1>6 DEF Restore
  <2>2. ASSUME NEW g \in Host \ {h} PROVE task'[g] = task[g] /\ root'[g] = root[g]
    BY <1>6, <2>2 DEF Restore
  <2>3. 0 \in root'[h].works /\ root'[h].state = "whole" /\ root'[h].marker
    BY <1>6 DEF Restore, Root
  <2>4. task'[h].stage = "syncing"
    BY <1>6 DEF Restore
  <2> QED BY <2>1, <2>2, <2>3, <2>4
<1>7. CASE Initialize(h)
  BY <1>7 DEF Initialize
<1>8. CASE SyncImageDirs(h)
  BY <1>8 DEF SyncImageDirs, Root
<1>9. CASE LaunchRuntime(h)
  BY <1>9 DEF LaunchRuntime
<1>10. CASE StoreWork(h)
  BY <1>10 DEF StoreWork, Root
<1>11. CASE RuntimeExits(h)
  BY <1>11, ExitSteps
<1>12. CASE BeginArchive(h)
  BY <1>12 DEF BeginArchive, OneTask
<1>13. CASE EndArchive(h)
  BY <1>13 DEF EndArchive, OneTask
<1>14. CASE RenameArchive(h)
  BY <1>14 DEF RenameArchive, NoTask, NoArchive, OneTask
<1> QED BY <1>1, <1>2, <1>3, <1>4, <1>5, <1>6, <1>7, <1>8, <1>9, <1>10, <1>11, <1>12, <1>13, <1>14
        DEF RunnerStep

\* The service, the runner and the instances move, the command waits.
LEMMA TasksMove ==
    ASSUME ~MarkerEarly, MigIInv, ServiceStep \/ LoggedStep
    PROVE  MigIInv'
<1>1. PICK h \in Host : \/ StartTask(h) /\ desired = 1
                        \/ RequestTermination(h) \/ Kill(h) \/ LoseHost(h) \/ RunnerStep(h)
  BY DEF ServiceStep, LoggedStep, MigIInv, MigTypeOK
<1>2. /\ UNCHANGED <<desired, state, op, stager, late, found, toClear, watched, phases, progress>>
      /\ stopping' \subseteq stopping
      /\ restored' \subseteq restored \cup {tasks}
  BY DEF ServiceStep, LoggedStep, StoppedAreGone, opVars
<1>3. RootTypeOK' /\ RestoreHasArchive' /\ OneTask'
  BY <1>1, RootTypesStay, RestoreKeepsItsArchive, OneTaskStays DEF RootNext, MigIInv
<1>4. MigTypeOK'
  BY <1>2 DEF MigIInv, MigTypeOK, RootTypeOK
<1>5. CASE Alone
  <2>1. desired = 0 /\ \A g \in Host : At(g, "none")
    BY <1>5 DEF MigIInv, ServiceIsGone
  <2>2. /\ archive' = archive
        /\ \A g \in Host : At(g, "none")'
        /\ \A g \in Host : root'[g] = root[g] \/ root'[g] = EmptyRoot
    BY <1>1, <2>1, NoTaskNoStep DEF MigIInv
  <2> QED BY <1>2, <1>3, <1>4, <1>5, <2>1, <2>2 DEF MigIInv, ServiceIsGone, ArchiveIsStaged, ClearedRoots, Alone
<1>6. CASE progress = "started"
  <2>1. Landed'
    BY <1>1, <1>6, LandedStays DEF MigIInv
  <2> QED BY <1>2, <1>3, <1>4, <1>6, <2>1 DEF MigIInv, ServiceIsGone, ArchiveIsStaged, ClearedRoots, Alone
<1>7. CASE ~Alone /\ progress # "started"
  BY <1>2, <1>3, <1>4, <1>7 DEF MigIInv, ServiceIsGone, ArchiveIsStaged, ClearedRoots, Alone
<1> QED BY <1>5, <1>6, <1>7

\* The command ends, begins or fails a phase, and touches neither EFS nor a root.
CommandStep ==
    \/ Upload \/ Cleanup \/ StageArchive \/ StopDest \/ Drained \/ StagerFails \/ StagerSeen
    \/ HostClear \/ Finalize \/ Watch \/ RestoreSeen \/ PhaseFails

LEMMA CommandTypes == ASSUME MigrationAssumption, RootTypeOK, MigTypeOK, CommandStep PROVE MigTypeOK'
<1>0. /\ tasks \in 0 .. MaxTasks /\ MaxTasks \in Nat /\ MaxPhases \in Nat
      /\ state \in [uploaded : BOOLEAN, prev : 0 .. 1] /\ found \in 0 .. 1
  BY RootAssumption DEF MigrationAssumption, RootTypeOK, MigTypeOK
<1>1. state' \in [uploaded : BOOLEAN, prev : 0 .. 1]
  <2>2. CASE Upload \/ Cleanup \/ Drained
    <3>1. state' \in {[state EXCEPT !.uploaded = TRUE], NoState, [state EXCEPT !.prev = found]}
      BY <2>2 DEF Upload, Cleanup, Drained
    <3>2. [state EXCEPT !.uploaded = TRUE] \in [uploaded : BOOLEAN, prev : 0 .. 1]
      BY <1>0
    <3>3. [state EXCEPT !.prev = found] \in [uploaded : BOOLEAN, prev : 0 .. 1]
      BY <1>0
    <3>4. NoState \in [uploaded : BOOLEAN, prev : 0 .. 1]
      BY DEF NoState
    <3> QED BY <3>1, <3>2, <3>3, <3>4
  <2>3. CASE ~(Upload \/ Cleanup \/ Drained)
    <3>1. state' = state
      BY <2>3 DEF CommandStep, StageArchive, StopDest, StagerFails, StagerSeen, HostClear, Finalize, Watch, RestoreSeen,
         PhaseFails
    <3> QED BY <1>0, <3>1
  <2> QED BY <2>2, <2>3
<1>2. stopping' = stopping /\ restored' = restored
  BY DEF CommandStep, Upload, Cleanup, StageArchive, StopDest, Drained, StagerFails, StagerSeen, HostClear, Finalize,
     Watch, RestoreSeen, PhaseFails
<1>3. /\ desired' \in {desired, 0, state.prev} /\ found' \in {found, desired, 1}
      /\ stager' \in {stager, "running", "none"} /\ watched' \in {watched, tasks, 0}
  BY DEF CommandStep, Upload, Cleanup, StageArchive, StopDest, Drained, StagerFails, StagerSeen, HostClear, Finalize,
     Watch, RestoreSeen, PhaseFails, RunStager
<1>4. late' = late \/ late' = (late \/ (op = "staging" /\ stager = "running"))
  BY DEF CommandStep, Upload, Cleanup, StageArchive, StopDest, Drained, StagerFails, StagerSeen, HostClear, Finalize,
     Watch, RestoreSeen, PhaseFails
<1>5. phases' = phases \/ (phases < MaxPhases /\ phases' = phases + 1)
  BY DEF CommandStep, Upload, Cleanup, StageArchive, StopDest, Drained, StagerFails, StagerSeen, HostClear, Finalize,
     Watch, RestoreSeen, PhaseFails, BeginPhase
<1>6. progress' \in {progress, "none", "alone", "started"}
  BY DEF CommandStep, Upload, Cleanup, StageArchive, StopDest, Drained, StagerFails, StagerSeen, HostClear, Finalize,
     Watch, RestoreSeen, PhaseFails, RunStager
<1>7. /\ op' \in {op, "idle", "draining", "staging", "clearing", "waiting"}
      /\ toClear' \in {toClear, {}, Host}
      /\ op' # "clearing" => toClear' = {}
  BY DEF MigTypeOK, CommandStep, Upload, Cleanup, StageArchive, StopDest, Drained, StagerFails, StagerSeen, HostClear,
     ActiveHosts, Finalize, Watch, RestoreSeen, PhaseFails, BeginPhase
<1>8. late' \in BOOLEAN
  BY <1>4 DEF MigTypeOK
<1>9. desired' \in 0 .. 1 /\ found' \in 0 .. 1 /\ watched' \in 0 .. MaxTasks /\ phases' \in 0 .. MaxPhases
  <2>1. state.prev \in 0 .. 1 /\ desired \in 0 .. 1 /\ watched \in 0 .. MaxTasks /\ phases \in 0 .. MaxPhases
    BY <1>0 DEF MigTypeOK
  <2> QED BY <1>0, <1>3, <1>5, <2>1
<1> QED BY <1>1, <1>2, <1>3, <1>6, <1>7, <1>8, <1>9 DEF MigTypeOK, Op

LEMMA CommandMoves ==
    ASSUME MigrationAssumption, MigIInv, CommandStep
    PROVE  MigIInv'
<1>1. UNCHANGED rootVars
  BY DEF CommandStep, Upload, Cleanup, StageArchive, StopDest, Drained, StagerFails, StagerSeen, HostClear, Finalize,
     Watch, RestoreSeen, PhaseFails
<1>2. MigTypeOK'
  BY CommandTypes DEF MigIInv
<1>3. RootTypeOK' /\ RestoreHasArchive' /\ OneTask' /\ (Landed => Landed')
  BY <1>1 DEF MigIInv, rootVars, RootTypeOK, RestoreHasArchive, OneTask, Landed, BootedIsMarked, At
<1> SUFFICES ServiceIsGone' /\ ArchiveIsStaged' /\ ClearedRoots' /\ (progress' = "started" => Landed')
  BY <1>2, <1>3 DEF MigIInv
<1>4. UNCHANGED <<root, archive, tmp, task>>
  BY <1>1 DEF rootVars
<1> USE <1>4 DEF ServiceIsGone, ArchiveIsStaged, ClearedRoots, Alone, At, BeginPhase
<1>5. CASE Upload \/ Cleanup \/ StagerFails \/ StagerSeen \/ Watch \/ RestoreSeen \/ PhaseFails
  <2>1. UNCHANGED <<desired, progress>> /\ ((op' = op /\ toClear' = toClear) \/ op' = "idle")
    BY <1>5 DEF Upload, Cleanup, StagerFails, StagerSeen, Watch, RestoreSeen, PhaseFails
  <2> QED BY <1>3, <2>1 DEF MigIInv
<1>6. CASE StageArchive \/ Drained
  <2>1. /\ UNCHANGED desired /\ op' = "staging"
        /\ progress' = IF desired = 0 /\ \A h \in Host : At(h, "none") THEN "alone" ELSE "none"
    BY <1>6 DEF StageArchive, Drained, RunStager
  <2> QED BY <2>1
<1>7. CASE StopDest
  BY <1>3, <1>7 DEF StopDest, MigIInv
<1>8. CASE HostClear
  BY <1>8 DEF HostClear, ActiveHosts, MigIInv
<1>9. CASE Finalize
  <2>1. /\ op' = "waiting"
        /\ progress' = IF progress \in {"cleared", "started"} THEN "started" ELSE "none"
    BY <1>9 DEF Finalize
  <2>2. progress = "cleared" => Landed
    BY DEF MigIInv, Landed, BootedIsMarked, Synced, EmptyRoot
  <2> QED BY <1>3, <2>1, <2>2 DEF MigIInv
<1> QED BY <1>5, <1>6, <1>7, <1>8, <1>9 DEF CommandStep

\* A stager writes EFS, also one that a phase has given up.
LEMMA StagerMoves ==
    ASSUME MigIInv, StagerClean \/ StagerMove
    PROVE  MigIInv'
<1>1. UNCHANGED <<root, task, image, stored, tasks, desired, stopping, state, op, late, found, toClear, watched,
                  restored, phases>>
  BY DEF StagerClean, StagerMove, migVars, opVars
<1>2. \/ archive' = archive /\ tmp' = NoArchive /\ stager' = stager /\ progress' = progress
      \/ /\ archive' = [state |-> "whole", works |-> {0}] /\ tmp' = tmp /\ stager' \in {stager, "done"}
         /\ progress' = IF progress = "alone" THEN "staged" ELSE progress
  BY DEF StagerClean, StagerMove, migVars, opVars
<1>3. NoArchive \in Archive /\ [state |-> "whole", works |-> {0}] \in Archive
  BY RootAssumption DEF NoArchive, Archive, Work
<1>4. RootTypeOK'
  BY <1>1, <1>2, <1>3 DEF MigIInv, RootTypeOK
<1>5. RestoreHasArchive' /\ OneTask'
  BY <1>1, <1>2 DEF MigIInv, RestoreHasArchive, OneTask, At
<1>6. MigTypeOK'
  BY <1>1, <1>2 DEF MigIInv, MigTypeOK
<1>7. ServiceIsGone' /\ ArchiveIsStaged' /\ ClearedRoots'
  BY <1>1, <1>2 DEF MigIInv, ServiceIsGone, ArchiveIsStaged, ClearedRoots, Alone, At
<1>8. Landed => Landed'
  BY <1>1, <1>2 DEF Landed, BootedIsMarked, NoArchive, At
<1> QED BY <1>2, <1>4, <1>5, <1>6, <1>7, <1>8 DEF MigIInv

LEMMA ClearMoves ==
    ASSUME MigIInv, NEW h \in Host, ClearHost(h)
    PROVE  MigIInv'
<1>1. /\ UNCHANGED <<archive, tmp, task, image, stored, tasks>>
      /\ UNCHANGED <<desired, stopping, state, stager, late, found, watched, restored, phases>>
      /\ root' = [root EXCEPT ![h] = EmptyRoot]
      /\ toClear' = toClear \ {h} /\ h \in toClear /\ op = "clearing"
      /\ \/ op' = "idle" /\ toClear = {h} /\ progress' = IF progress = "staged" THEN "cleared" ELSE progress
         \/ op' = op /\ progress' = progress /\ toClear # {h}
  BY DEF ClearHost
<1>2. EmptyRoot \in Root
  BY RootAssumption DEF EmptyRoot, Root
<1>3. root \in [Host -> Root]
  BY DEF MigIInv, RootTypeOK
<1>4. \A g \in Host : root'[g] = IF g = h THEN EmptyRoot ELSE root[g]
  BY <1>1, <1>3
<1>5. RootTypeOK'
  BY <1>1, <1>2, <1>3 DEF MigIInv, RootTypeOK
<1>6. RestoreHasArchive' /\ OneTask'
  BY <1>1 DEF MigIInv, RestoreHasArchive, OneTask, At
<1>7. MigTypeOK'
  BY <1>1 DEF MigIInv, MigTypeOK, Op
<1>8. progress # "started" /\ progress' # "started"
  BY <1>1 DEF MigIInv, ClearedRoots
<1>9. ServiceIsGone' /\ ArchiveIsStaged'
  BY <1>1 DEF MigIInv, ServiceIsGone, ArchiveIsStaged, Alone, At
<1>10. ClearedRoots'
  <2>1. Alone /\ toClear = {h} => \A g \in Host : root'[g] = EmptyRoot
    BY <1>1, <1>4 DEF MigIInv, ClearedRoots
  <2> QED BY <1>1, <1>4, <1>8, <2>1 DEF MigIInv, ClearedRoots, Alone
<1> QED BY <1>5, <1>6, <1>7, <1>8, <1>9, <1>10 DEF MigIInv

LEMMA MigIInvStays ==
    ASSUME MigrationAssumption, ~MarkerEarly, MigIInv, [MigNext]_<<rootVars, migVars>>
    PROVE  MigIInv'
<1>1. CASE ServiceStep \/ LoggedStep
  BY <1>1, TasksMove
<1>2. CASE CommandStep
  BY <1>2, CommandMoves
<1>3. CASE StagerClean \/ StagerMove
  BY <1>3, StagerMoves
<1>4. CASE \E h \in Host : ClearHost(h)
  BY <1>4, ClearMoves
<1> USE DEF MigIInv, MigTypeOK, ServiceIsGone, ArchiveIsStaged, ClearedRoots, Alone, Landed, RootTypeOK,
        RestoreHasArchive, OneTask, BootedIsMarked, At
<1>5. CASE UNCHANGED <<rootVars, migVars>>
  BY <1>5 DEF rootVars, migVars, opVars
<1>6. CASE \E h \in Host : Stop(h)
  BY <1>6 DEF Stop, rootVars, opVars
<1> QED BY <1>1, <1>2, <1>3, <1>4, <1>5, <1>6 DEF MigNext, PhaseStep, CommandStep

\* Whatever phases of humr_hermes_migrate ran before, fail or are run again, whatever
\* stagers they left, and wherever tasks and instances are lost meanwhile, a staging
\* begun with the service gone, then host-clear and finalize bring the agent onto the
\* staged state for good: if tar extracts the marker last.
THEOREM RootsSurvive ==
    ASSUME MigrationAssumption, ~MarkerEarly
    PROVE  MigSpec => []RootSurvives
<1>1. MigInit => MigIInv
  BY MigIInvStarts
<1>2. MigIInv /\ [MigNext]_<<rootVars, migVars>> => MigIInv'
  BY MigIInvStays
<1>3. MigIInv => RootSurvives
  BY DEF MigIInv, RootSurvives, ServiceIsGone, ArchiveIsStaged, Alone, Landed, BootedIsMarked, Synced, At
<1> QED BY <1>1, <1>2, <1>3, PTL DEF MigSpec

-----------------------------------------------------------------------------
(* One instance: every task finds the root of the one before.              *)

\* What was saved is in a root that is initialized, and in what a shutdown is
\* about to save, which is no more than the root holds.
KeptIInv ==
    /\ WholeIInv
    /\ archive.state = "absent" => archive.works = {}
    /\ \A h \in Host : At(h, "initializing") => archive.state = "absent"
    /\ \A h \in Host : root[h].marker => archive.works \subseteq root[h].works
    /\ tmp.state = "whole" => archive.works \subseteq tmp.works
    /\ \A h \in Host : At(h, "renaming") /\ tmp.state = "whole" => tmp.works \subseteq root[h].works

\* The replacement task continues where the stopped one ended, as long as there is
\* one instance to place it on.
THEOREM CheckpointsAreKept ==
    ASSUME ~MarkerEarly, \A g, h \in Host : g = h
    PROVE  RootSpec => []CheckpointIsKept
<1>1. RootInit => KeptIInv
  BY WholeIInvStarts DEF RootInit, KeptIInv, NoTask, NoArchive, EmptyRoot, At
<1>2. ASSUME KeptIInv, [RootNext]_rootVars PROVE KeptIInv'
  <2>0. WholeIInv'
    BY <1>2, WholeIInvStays DEF KeptIInv
  <2> DEFINE Rest ==
          /\ archive.state = "absent" => archive.works = {}
          /\ \A h \in Host : At(h, "initializing") => archive.state = "absent"
          /\ \A h \in Host : root[h].marker => archive.works \subseteq root[h].works
          /\ tmp.state = "whole" => archive.works \subseteq tmp.works
          /\ \A h \in Host : At(h, "renaming") /\ tmp.state = "whole" => tmp.works \subseteq root[h].works
  <2> SUFFICES Rest'
    BY <2>0 DEF KeptIInv
  <2> USE <1>2 DEF KeptIInv, WholeIInv, RootIInv, RootTypeOK, BootedIsMarked, WholeAtRename, ArchiveIsWhole, Synced,
          At, GoTo
  <2>1. CASE DeployImage \/ UNCHANGED rootVars
    BY <2>1 DEF DeployImage, rootVars
  <2>2. ASSUME NEW h \in Host, StartTask(h) \/ RequestTermination(h) PROVE Rest'
    <3>1. CASE StartTask(h)
      BY <3>1 DEF StartTask
    <3>2. CASE RequestTermination(h)
      BY <3>2 DEF RequestTermination
    <3> QED BY <2>2, <3>1, <3>2
  <2>3. ASSUME NEW h \in Host, Kill(h) \/ LoseHost(h) PROVE Rest'
    BY <2>3 DEF Kill, LoseHost, NoTask, EmptyRoot
  <2>4. ASSUME NEW h \in Host, Boot(h) PROVE Rest'
    BY <2>4, BootSteps
  <2>5. ASSUME NEW h \in Host, ExtractMarker(h) PROVE Rest'
    BY <2>5 DEF ExtractMarker
  <2>6. ASSUME NEW h \in Host, Restore(h) PROVE Rest'
    <3>1. tmp' = tmp /\ archive' = archive
      BY <2>6 DEF Restore
    <3>2. task'[h].stage = "syncing"
      BY <2>6 DEF Restore
    <3>3. root'[h].works = root[h].works \cup archive.works
      BY <2>6 DEF Restore, Root
    <3> QED BY <3>1, <3>2, <3>3
  <2>7. ASSUME NEW h \in Host, Initialize(h) PROVE Rest'
    BY <2>7 DEF Initialize, Root
  <2>8. ASSUME NEW h \in Host, SyncImageDirs(h) \/ LaunchRuntime(h) PROVE Rest'
    <3>1. CASE SyncImageDirs(h)
      BY <3>1 DEF SyncImageDirs, Root
    <3>2. CASE LaunchRuntime(h)
      BY <3>2 DEF LaunchRuntime
    <3> QED BY <2>8, <3>1, <3>2
  <2>9. ASSUME NEW h \in Host, StoreWork(h) PROVE Rest'
    BY <2>9 DEF StoreWork, Root
  <2>10. ASSUME NEW h \in Host, RuntimeExits(h) PROVE Rest'
    BY <2>10, ExitSteps
  <2>11. ASSUME NEW h \in Host, BeginArchive(h) PROVE Rest'
    BY <2>11 DEF BeginArchive
  <2>12. ASSUME NEW h \in Host, EndArchive(h) PROVE Rest'
    BY <2>12 DEF EndArchive
  <2>13. ASSUME NEW h \in Host, RenameArchive(h) PROVE Rest'
    BY <2>13 DEF RenameArchive, NoTask, NoArchive
  <2> QED BY <2>1, <2>2, <2>3, <2>4, <2>5, <2>6, <2>7, <2>8, <2>9, <2>10, <2>11, <2>12, <2>13, <1>2
          DEF RootNext, RunnerStep
<1>3. KeptIInv => CheckpointIsKept
  BY DEF KeptIInv, CheckpointIsKept, WholeIInv, BootedIsMarked, Synced, At
<1> QED BY <1>1, <1>2, <1>3, PTL DEF RootSpec
=============================================================================
