--------------------------- MODULE AccessPolicies ---------------------------
(***************************************************************************)
(* The access policies of one organization: the attributes of its people   *)
(* and groups, the tags of its workspaces, apps and shared credentials, and *)
(* the policies between them, as services/abac_service.py seeds them, the  *)
(* security pages edit them, the removal of an app drops them and          *)
(* humr_reset_org_abac restores them while all of that goes on.            *)
(***************************************************************************)
EXTENDS Naturals, Sequences

-----------------------------------------------------------------------------
(* The attribute based access engine of services/abac_service.py as pure   *)
(* operators: the matching of one policy, the verdict on one resource, and *)
(* the three evaluation paths that have to agree with each other, namely   *)
(* the check of one resource, the filter of a listing and the filter of    *)
(* the shared credentials.                                                 *)
(*                                                                         *)
(* A pair <<key, value>> is an attribute of a user or a tag of a resource. *)
(* A clause of a policy is [key, side, value]: on side "own" the value is  *)
(* a literal, on any other side it is the key the reference "$side.key"    *)
(* names.  A policy has its name, the type of resource it is about, two    *)
(* sets of clauses and a set of actions [act, deny].                       *)

\* ACTION_HIERARCHY: what an admin action includes.
Implied(act) ==
    CASE act = "workspace:admin" -> {"workspace:view", "workspace:edit"}
      [] act = "environment:admin" ->
            {"environment:view", "environment:deploy", "environment:approve"}
      [] OTHER -> {}

Literal(k, v) == [key |-> k, side |-> "own", value |-> v]
Reference(k, s, v) == [key |-> k, side |-> s, value |-> v]

\* _is_wildcard: the sole clause that matches everything.
Wildcard == {Literal("*", "*")}

\* _validate_no_mixed_wildcard and _validate_references: a wildcard stands
\* alone and a clause never refers to its own side.
ValidConditions(conds, self) ==
    /\ Literal("*", "*") \in conds => conds = Wildcard
    /\ \A c \in conds : c.side # self

\* A Policy row.
IsPolicy(p) ==
    p = [name |-> p.name, type |-> p.type, identity |-> p.identity,
         resource |-> p.resource, actions |-> p.actions]

\* _conditions_match: every clause holds of the own pairs; a reference takes
\* the values the other side has under the key it names, and fails when that
\* side is not at hand.
Matches(conds, own, others) ==
    \/ conds = Wildcard
    \/ \A c \in conds :
         IF c.side = "own" THEN <<c.key, c.value>> \in own
         ELSE /\ c.side \in DOMAIN others
              /\ \E pair \in others[c.side] :
                    pair[1] = c.value /\ <<c.key, pair[2]>> \in own

\* What the policies that apply allow together: the grants with what they
\* imply, less the denials.
Verdict(P) ==
    LET granted == {a.act : a \in {b \in UNION {p.actions : p \in P} : ~b.deny}}
        denied == {a.act : a \in {b \in UNION {p.actions : p \in P} : b.deny}}
    IN  (UNION {{act} \cup Implied(act) : act \in granted}) \ denied

\* The identity and the resource conditions of p match on this resource.
Applies(p, attrs, tags) ==
    /\ Matches(p.identity, attrs, [resource |-> tags])
    /\ Matches(p.resource, tags, [identity |-> attrs])

\* evaluate_policies and check_action: the policies P are those of the type
\* of the resource.
Allowed(P, attrs, tags) == Verdict({p \in P : Applies(p, attrs, tags)})

\* evaluate_policies_unscoped: no resource at hand yet.
Unscoped(P, attrs) ==
    Verdict({p \in P : Matches(p.identity, attrs, [none |-> {}]) /\ p.resource = Wildcard})

-----------------------------------------------------------------------------
\* filter_permitted_resources

RefersToResource(p) == \E c \in p.identity : c.side = "resource"

Denies(p) == \E a \in p.actions : a.deny

\* The policies a listing has to look at: the identity conditions match, or
\* cannot be decided before the resource is known.
Candidates(P, attrs) ==
    {p \in P : RefersToResource(p) \/ Matches(p.identity, attrs, [none |-> {}])}

\* The candidates that apply to every resource.
Blanket(P, attrs) ==
    {p \in Candidates(P, attrs) : p.resource = Wildcard /\ ~RefersToResource(p)}

\* Bug: the short cut does not look for denials on some of the resources.
ShortcutHasty(P, attrs, act) == act \in Verdict(Blanket(P, attrs))

\* The listing is returned as it is.
Shortcut(P, attrs, act) ==
    /\ act \in Verdict(Blanket(P, attrs))
    /\ \A p \in Candidates(P, attrs) : p.resource # Wildcard => ~Denies(p)

\* The resources of tagsOf (a function from resource to tags) that the user
\* has the action on.
Permitted(P, attrs, tagsOf, act) ==
    IF Shortcut(P, attrs, act) THEN DOMAIN tagsOf
    ELSE {r \in DOMAIN tagsOf :
            act \in Allowed(Candidates(P, attrs), attrs, tagsOf[r])}

\* The listing by its definition: check_action on every resource.
PermittedByCheck(P, attrs, tagsOf, act) ==
    {r \in DOMAIN tagsOf : act \in Allowed(P, attrs, tagsOf[r])}

\* A denial for everything whose identity conditions refer to the resource:
\* the one kind of policy the short cut does not see.
BlindDenial(p) == p.resource = Wildcard /\ RefersToResource(p) /\ Denies(p)

-----------------------------------------------------------------------------
\* filter_permitted_credentials: one credential with its tags, for a user and
\* the app that asks.
MayUse(P, attrs, appTags, tags) ==
    LET applies == {p \in P :
            /\ Matches(p.identity, attrs, [resource |-> tags, app |-> appTags])
            /\ Matches(p.resource, tags, [identity |-> attrs, app |-> appTags])}
        acts == UNION {p.actions : p \in applies}
    IN  /\ [act |-> "credential:use", deny |-> FALSE] \in acts
        /\ [act |-> "credential:use", deny |-> TRUE] \notin acts

-----------------------------------------------------------------------------

CONSTANTS
    Users, Groups,     \* the people of the organization and its groups
    FirstAdmin,        \* the user the organization was bootstrapped for
    Workspaces, Apps,  \* workspace slugs and app slugs
    Home,              \* the workspace of the app with this slug
    Credentials,       \* shared credentials
    EditPairs,         \* the attributes the security pages add and remove
    EditTags,          \* the tags the tag forms add and remove
    AdminPolicies,     \* the policies the policy form writes
    MaxPageEdits       \* edits by the admins

ASSUME AccessAssumption ==
    /\ FirstAdmin \in Users
    /\ Home \in [Apps -> Workspaces]
    /\ MaxPageEdits \in Nat
    /\ Workspaces \cap Apps = {} /\ Workspaces \cap Credentials = {} /\ Apps \cap Credentials = {}
    /\ \A p \in AdminPolicies :
         /\ IsPolicy(p)
         /\ ValidConditions(p.identity, "identity")
         /\ ValidConditions(p.resource, "resource")

VARIABLES
    attrs,       \* IdentityAttribute rows by user
    groupOf,     \* GroupMembership rows <<user, group>>
    groupAttrs,  \* GroupAttribute rows by group
    policies,    \* Policy rows
    live,        \* the app slugs with an App row
    owner,       \* of a live app: the owner of an agent, or Everyone
    tags,        \* ResourceTag rows by workspace, app slug and credential
    scope,       \* of a shared credential: what it is shared with
    reset,       \* the run of humr_reset_org_abac: where it is, apps left
    edited,      \* policies or tags were edited since the last full reset began
    pageEdits

accessVars == <<attrs, groupOf, groupAttrs, policies, live, owner, tags, scope,
                reset, edited, pageEdits>>

Everyone == "everyone"

Scopes == [kind : {"everyone"}, target : {Everyone}]
             \cup [kind : {"user"}, target : Users]
             \cup [kind : {"workspace"}, target : Workspaces]

\* get_effective_attributes and get_effective_tags.
Attributes(u) ==
    {<<"authenticated", "true">>} \cup attrs[u]
      \cup UNION {groupAttrs[g] : g \in {h \in Groups : <<u, h>> \in groupOf}}

EffectiveTags(r) == tags[r] \cup (IF r \in Apps THEN tags[Home[r]] ELSE {})

PoliciesOf(type) == {p \in policies : p.type = type}

MayDo(u, type, act, r) == act \in Allowed(PoliciesOf(type), Attributes(u), EffectiveTags(r))

MayUseCredential(u, a, c) ==
    MayUse(PoliciesOf("credential"), Attributes(u), EffectiveTags(a), tags[c])

\* is_org_admin, which require_org_admin asks for every security page.
IsAdmin(u) == <<"org-role", "admin">> \in Attributes(u)

GrantOf(act) == {[act |-> act, deny |-> FALSE]}

SeedPolicy(name, type, identity, resource, acts) ==
    [name |-> <<"seed", name, type>>, type |-> type, identity |-> identity,
     resource |-> resource, actions |-> UNION {GrantOf(a) : a \in acts}]

RolePolicy(role, type, acts) ==
    SeedPolicy(role, type, {Literal("org-role", role)}, Wildcard, acts)

\* The policies of bootstrap_organization; those about environments are of the
\* same form as those about workspaces.
SeedPolicies ==
    {RolePolicy("admin", "workspace", {"workspace:admin"}),
     RolePolicy("admin", "app", {"app:use"}),
     RolePolicy("member", "workspace", {"workspace:view", "workspace:edit"}),
     RolePolicy("viewer", "workspace", {"workspace:view"}),
     SeedPolicy("owner", "app", {Reference("username", "resource", "owner")},
                {Literal("app-type", "personal-assistant")}, {"app:use"}),
     SeedPolicy("to-everyone", "credential", {Literal("authenticated", "true")},
                {Literal("sharing-scope", "everyone")}, {"credential:use"}),
     SeedPolicy("to-user", "credential",
                {Reference("username", "resource", "shared-with-user")},
                {Literal("sharing-scope", "user")}, {"credential:use"}),
     SeedPolicy("to-workspace", "credential", {Literal("authenticated", "true")},
                {Reference("shared-with-workspace", "app", "workspace-name")},
                {"credential:use"})}

\* The open access policy of create_default_app_policy.
DefaultPolicy(a) ==
    [name |-> <<"default", a, "app">>, type |-> "app", identity |-> Wildcard,
     resource |-> {Literal("app-name", a)}, actions |-> GrantOf("app:use")]

Names(P) == {p.name : p \in P}

\* Policy.objects.get_or_create, by the name that is unique in an organization.
GetOrCreate(P, seeds) == P \cup {p \in seeds : p.name \notin Names(P)}

\* create_default_app_policy skips the templates behind the policy proxy.
DefaultPolicies(a, who) == IF who = Everyone THEN {DefaultPolicy(a)} ELSE {}

\* _delete_matching_policies: a resource condition names the app.
NamesApp(p, a) == p.type = "app" /\ Literal("app-name", a) \in p.resource

\* sync_shared_credential_tags clears the tags and writes those of the scope.
ScopeTags(c, s) ==
    {<<"sharing-scope", s.kind>>}
      \cup (IF s.kind = "everyone" THEN {}
            ELSE {<<IF s.kind = "user" THEN "shared-with-user"
                    ELSE "shared-with-workspace", s.target>>})

NoReset == [pc |-> "idle", apps |-> {}]

\* The organization after bootstrap_organization: the other people joined as
\* members, a workspace carries its name as a tag.
AccessInit ==
    /\ attrs = [u \in Users |-> {<<"username", u>>,
                  <<"org-role", IF u = FirstAdmin THEN "admin" ELSE "member">>}]
    /\ groupOf = {} /\ groupAttrs = [g \in Groups |-> {}]
    /\ policies = SeedPolicies
    /\ live = {} /\ owner = [a \in Apps |-> Everyone]
    /\ scope = [c \in Credentials |-> [kind |-> "everyone", target |-> Everyone]]
    /\ tags = [r \in Workspaces \cup Apps \cup Credentials |->
                 IF r \in Workspaces THEN {<<"workspace-name", r>>}
                 ELSE IF r \in Credentials THEN {<<"sharing-scope", "everyone">>} ELSE {}]
    /\ reset = NoReset /\ edited = FALSE /\ pageEdits = 0

-----------------------------------------------------------------------------
\* An admin works on the security pages.
ByAdmin ==
    /\ pageEdits < MaxPageEdits /\ pageEdits' = pageEdits + 1
    /\ \E u \in Users : IsAdmin(u)

PeopleUnchanged == UNCHANGED <<attrs, groupOf, groupAttrs>>

\* security_people_attribute_add and security_people_attribute_remove.
EditAttribute(u, pair) ==
    /\ ByAdmin
    /\ \/ attrs' = [attrs EXCEPT ![u] = @ \cup {pair}]
       \/ attrs' = [attrs EXCEPT ![u] = @ \ {pair}]
    /\ UNCHANGED <<groupOf, groupAttrs, policies, live, owner, tags, scope, reset, edited>>

\* security_group_attribute_add and security_group_attribute_remove.
EditGroup(g, pair) ==
    /\ ByAdmin
    /\ \/ groupAttrs' = [groupAttrs EXCEPT ![g] = @ \cup {pair}]
       \/ groupAttrs' = [groupAttrs EXCEPT ![g] = @ \ {pair}]
    /\ UNCHANGED <<attrs, groupOf, policies, live, owner, tags, scope, reset, edited>>

\* The member forms of a group and of a person.
EditMember(u, g) ==
    /\ ByAdmin
    /\ \/ groupOf' = groupOf \cup {<<u, g>>}
       \/ groupOf' = groupOf \ {<<u, g>>}
    /\ UNCHANGED <<attrs, groupAttrs, policies, live, owner, tags, scope, reset, edited>>

\* security_group_delete: the attributes and the memberships cascade.
DeleteGroup(g) ==
    /\ ByAdmin
    /\ groupAttrs' = [groupAttrs EXCEPT ![g] = {}]
    /\ groupOf' = {m \in groupOf : m[2] # g}
    /\ UNCHANGED <<attrs, policies, live, owner, tags, scope, reset, edited>>

\* security_policy_create: the name has to be free.
CreatePolicy(p) ==
    /\ ByAdmin
    /\ p.name \notin Names(policies)
    /\ policies' = policies \cup {p} /\ edited' = TRUE
    /\ PeopleUnchanged /\ UNCHANGED <<live, owner, tags, scope, reset>>

\* security_policy_detail: an existing policy gets the content of the form; it
\* keeps its name unless the form has another one that is free.
EditPolicy(old, p) ==
    /\ ByAdmin
    /\ \E name \in {old.name} \cup ({p.name} \ Names(policies)) :
         policies' = (policies \ {old}) \cup {[p EXCEPT !.name = name]}
    /\ edited' = TRUE
    /\ PeopleUnchanged /\ UNCHANGED <<live, owner, tags, scope, reset>>

\* security_policy_delete.
DeletePolicy(p) ==
    /\ ByAdmin
    /\ policies' = policies \ {p} /\ edited' = TRUE
    /\ PeopleUnchanged /\ UNCHANGED <<live, owner, tags, scope, reset>>

\* app_tags_save and workspace_tags_save, which ask for workspace:admin on the
\* workspace: the form's tags replace the tags.
SaveTags(u, r, pair) ==
    /\ pageEdits < MaxPageEdits /\ pageEdits' = pageEdits + 1
    /\ r \in live \cup Workspaces
    /\ MayDo(u, "workspace", "workspace:admin", IF r \in Apps THEN Home[r] ELSE r)
    /\ \/ tags' = [tags EXCEPT ![r] = @ \cup {pair}]
       \/ tags' = [tags EXCEPT ![r] = @ \ {pair}]
       \/ r \in Apps /\ tags' = [tags EXCEPT ![r] = @ \ {<<"app-name", r>>}]
    /\ edited' = TRUE
    /\ PeopleUnchanged /\ UNCHANGED <<policies, live, owner, scope, reset>>

-----------------------------------------------------------------------------
\* deploy_from_template, in one transaction: the App row, whose signal runs
\* create_default_app_policy, and the template's tags and the owner's.
CreateApp(a, who) ==
    /\ a \notin live
    /\ live' = live \cup {a}
    /\ owner' = [owner EXCEPT ![a] = who]
    /\ tags' = [tags EXCEPT ![a] = {<<"app-name", a>>} \cup
                  (IF who = Everyone THEN {}
                   ELSE {<<"app-type", "personal-assistant">>, <<"owner", who>>})]
    /\ policies' = GetOrCreate(policies, DefaultPolicies(a, who))
    /\ PeopleUnchanged /\ UNCHANGED <<scope, reset, edited, pageEdits>>

\* The end of execute_app_remove, in one transaction: the policies that name
\* the app, then the row, whose tags cascade.
RemoveApp(a) ==
    /\ a \in live
    /\ policies' = {p \in policies : ~NamesApp(p, a)}
    /\ live' = live \ {a}
    /\ owner' = [owner EXCEPT ![a] = Everyone]
    /\ tags' = [tags EXCEPT ![a] = {}]
    /\ PeopleUnchanged /\ UNCHANGED <<scope, reset, edited, pageEdits>>

\* A shared credential is saved with a scope; the signal rewrites its tags.
ShareCredential(c, s) ==
    /\ scope' = [scope EXCEPT ![c] = s]
    /\ tags' = [tags EXCEPT ![c] = ScopeTags(c, s)]
    /\ PeopleUnchanged /\ UNCHANGED <<policies, live, owner, reset, edited, pageEdits>>

-----------------------------------------------------------------------------
\* humr_reset_org_abac, whose steps commit one by one.

ResetDelete ==
    /\ reset.pc \in {"idle", "broken"}
    /\ policies' = {} /\ edited' = FALSE
    /\ reset' = [pc |-> "seed", apps |-> {}]
    /\ PeopleUnchanged /\ UNCHANGED <<live, owner, tags, scope, pageEdits>>

\* bootstrap_organization and the list of the apps.
ResetSeed ==
    /\ reset.pc = "seed"
    /\ policies' = GetOrCreate(policies, SeedPolicies)
    /\ attrs' = [attrs EXCEPT ![FirstAdmin] =
                   @ \cup {<<"org-role", "admin">>, <<"username", FirstAdmin>>}]
    /\ reset' = [pc |-> "apps", apps |-> live]
    /\ UNCHANGED <<groupOf, groupAttrs, live, owner, tags, scope, edited, pageEdits>>

\* create_default_app_policy for one app; its template does not change.
ResetApp(a) ==
    /\ reset.pc = "apps" /\ a \in reset.apps /\ a \in live
    /\ tags' = [tags EXCEPT ![a] = @ \cup {<<"app-name", a>>}]
    /\ policies' = GetOrCreate(policies, DefaultPolicies(a, owner[a]))
    /\ reset' = [reset EXCEPT !.apps = @ \ {a}]
    /\ PeopleUnchanged /\ UNCHANGED <<live, owner, scope, edited, pageEdits>>

ResetDone ==
    /\ reset.pc = "apps" /\ reset.apps = {}
    /\ reset' = NoReset
    /\ PeopleUnchanged
    /\ UNCHANGED <<policies, live, owner, tags, scope, edited, pageEdits>>

\* The command dies, or meets an app that was removed after it was listed.
ResetBreaks ==
    /\ reset.pc \in {"seed", "apps"}
    /\ reset' = [pc |-> "broken", apps |-> {}]
    /\ PeopleUnchanged
    /\ UNCHANGED <<policies, live, owner, tags, scope, edited, pageEdits>>

AccessNext ==
    \/ \E u \in Users, pair \in EditPairs : EditAttribute(u, pair)
    \/ \E g \in Groups, pair \in EditPairs : EditGroup(g, pair)
    \/ \E u \in Users, g \in Groups : EditMember(u, g)
    \/ \E g \in Groups : DeleteGroup(g)
    \/ \E p \in AdminPolicies : CreatePolicy(p)
    \/ \E old \in policies, p \in AdminPolicies : EditPolicy(old, p)
    \/ \E p \in policies : DeletePolicy(p)
    \/ \E u \in Users, r \in Workspaces \cup Apps, pair \in EditTags : SaveTags(u, r, pair)
    \/ \E a \in Apps, who \in Users \cup {Everyone} : CreateApp(a, who)
    \/ \E a \in Apps : RemoveApp(a)
    \/ \E c \in Credentials, s \in Scopes : ShareCredential(c, s)
    \/ ResetDelete \/ ResetSeed \/ ResetDone \/ ResetBreaks
    \/ \E a \in Apps : ResetApp(a)

AccessSpec == AccessInit /\ [][AccessNext]_accessVars

-----------------------------------------------------------------------------
\* The variables stay in their sets, and a policy name is used once.
AccessTypeOK ==
    /\ DOMAIN attrs = Users /\ DOMAIN groupAttrs = Groups
    /\ groupOf \subseteq Users \X Groups
    /\ live \subseteq Apps /\ owner \in [Apps -> Users \cup {Everyone}]
    /\ scope \in [Credentials -> Scopes]
    /\ DOMAIN tags = Workspaces \cup Apps \cup Credentials
    /\ reset \in [pc : {"idle", "seed", "apps", "broken"}, apps : SUBSET Apps]
    /\ edited \in BOOLEAN /\ pageEdits \in 0..MaxPageEdits
    /\ \A p \in policies : /\ ValidConditions(p.identity, "identity")
                           /\ ValidConditions(p.resource, "resource")
    /\ \A p, q \in policies : p.name = q.name => p = q

\* What is listed under a type, for the filter.
Listing(type) == IF type = "app" THEN live ELSE Workspaces

Listed(u, type, act) ==
    Permitted(PoliciesOf(type), Attributes(u),
              [r \in Listing(type) |-> EffectiveTags(r)], act)

\* filter_permitted_resources, with its candidates and its short cut, returns
\* exactly the resources check_action allows, whatever the admins wrote: a
\* listing neither hides what a page would show nor shows what it would refuse.
FilterIsExact ==
    \A u \in Users :
      /\ \A act \in {"app:use"} :
           Listed(u, "app", act) = {a \in live : MayDo(u, "app", act, a)}
      /\ \A act \in {"workspace:view", "workspace:edit", "workspace:admin"} :
           Listed(u, "workspace", act)
             = {w \in Workspaces : MayDo(u, "workspace", act, w)}

MeantFor(u, a) == owner[a] \in {Everyone, u} \/ IsAdmin(u)

\* As long as no admin has written policies or tags, an agent is used by its
\* owner and the admins only, whatever was deployed under its name before and
\* in the middle of a reset: no policy of an earlier app opens it.
AgentsArePersonal ==
    ~edited => \A u \in Users, a \in live : MayDo(u, "app", "app:use", a) => MeantFor(u, a)

\* After bootstrap, and again after every completed reset, everyone can use the
\* apps that are open and the owner the agent: apps that were deployed or
\* removed while the reset ran included.
SeedsGiveAccess ==
    (~edited /\ reset.pc = "idle") =>
        \A u \in Users, a \in live : MeantFor(u, a) => MayDo(u, "app", "app:use", a)

SharedWith(u, a, c) ==
    \/ scope[c].kind = "everyone"
    \/ scope[c].kind = "user" /\ scope[c].target = u
    \/ scope[c].kind = "workspace" /\ scope[c].target = Home[a]

\* A shared credential is given to exactly the apps its present scope names,
\* however often it was shared anew.
CredentialsFollowScope ==
    (~edited /\ reset.pc = "idle") =>
        \A u \in Users, a \in live, c \in Credentials :
            MayUseCredential(u, a, c) <=> SharedWith(u, a, c)

\* Someone who may create workspaces finds every workspace editable, new ones
\* too, unless a policy denies it on some of them: evaluate_policies_unscoped
\* promises nothing the check of the created resource takes back.
UnscopedIsKept ==
    \A u \in Users :
      ("workspace:edit" \in Unscoped(PoliciesOf("workspace"), Attributes(u))
         /\ \A p \in PoliciesOf("workspace") : ~Denies(p))
      => \A w \in Workspaces : MayDo(u, "workspace", "workspace:edit", w)

\* No policy of the admins is a denial that the short cut does not see.
NoBlindDenials == \A p \in AdminPolicies : ~BlindDenial(p)

\* The admins leave alone the attribute and the tags that the seeds are about.
SeedTags == {"app-name", "app-type", "owner", "workspace-name",
             "sharing-scope", "shared-with-user", "shared-with-workspace"}
SeedKeysAreKept ==
    /\ \A pair \in EditPairs : pair[1] # "username"
    /\ \A pair \in EditTags : pair[1] \notin SeedTags

\* A listing shows exactly what the check of each resource allows, an agent is its
\* owner's, a reset gives back the access of the seeds and a shared credential
\* follows its scope: of an organization whose admins write no blind denial and
\* leave the keys of the seeds alone.
AccessIsDecided ==
    /\ AccessTypeOK /\ UnscopedIsKept
    /\ NoBlindDenials => FilterIsExact
    /\ SeedKeysAreKept => AgentsArePersonal /\ SeedsGiveAccess /\ CredentialsFollowScope
=============================================================================
