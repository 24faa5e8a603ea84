----------------------------- MODULE MCConsole -----------------------------
(***************************************************************************)
(* The security pages of the control plane, for TLC: requests for AWS      *)
(* permissions, the access policies of an organization, the way people     *)
(* join it and the proxy that enforces its decisions.  The parts share no  *)
(* state: a behaviour is one of a single part, and the others rest in an   *)
(* initial state.                                                          *)
(***************************************************************************)
EXTENDS PermissionRequests, AccessPolicies, Memberships, PolicyProxy, TLC

CONSTANTS
    Parts, Pair

VARIABLE
    part   \* the component that moves, chosen once and for all

\* AccessPolicies: what the admins edit and write.
Homes == [notes |-> "lab"]
RoleOrTeam == {<<"org-role", "admin">>, <<"team", "red">>}
Team == {<<"team", "red">>}

Only(k, v) == {[key |-> k, side |-> "own", value |-> v]}
Everything == Only("*", "*")
SameTeam == {[key |-> "team", side |-> "resource", value |-> "team"]}
Custom(name, type, identity, resource, act, deny) ==
    [name |-> <<"custom", name>>, type |-> type, identity |-> identity,
     resource |-> resource, actions |-> {[act |-> act, deny |-> deny]}]

\* A grant by team, a denial of some workspaces, a grant of some, and a denial for
\* some people without resource conditions.
PlainPolicies ==
    {Custom("team", "app", SameTeam, Everything, "app:use", FALSE),
     Custom("frozen", "workspace", Everything, Only("team", "red"), "workspace:edit", TRUE),
     Custom("red", "workspace", Everything, Only("team", "red"), "workspace:admin", FALSE),
     Custom("ban", "app", Only("team", "red"), {}, "app:use", TRUE)}

Init ==
    /\ part \in Parts
    /\ PermInit
    /\ part # "permissions" => role.exists
    /\ AccessInit
    /\ MembershipInit
    /\ ProxyInit

\* One component takes a step of its own, the others rest.
OthersRest ==
    /\ part' = part
    /\ IF part = "permissions" THEN TRUE ELSE UNCHANGED permVars
    /\ IF part = "access" THEN TRUE ELSE UNCHANGED accessVars
    /\ IF part = "memberships" THEN TRUE ELSE UNCHANGED memberVars
    /\ IF part = "proxy" THEN TRUE ELSE UNCHANGED proxyVars

Next ==
    \/ part = "permissions" /\ PermNext /\ OthersRest
    \/ part = "access" /\ AccessNext /\ OthersRest
    \/ part = "memberships" /\ MembershipNext /\ OthersRest
    \/ part = "proxy" /\ ProxyNext /\ OthersRest

allVars == <<part, permVars, accessVars, memberVars, proxyVars>>

Spec == Init /\ [][Next]_allVars

\* Requests in flight and visits are alike.
Symmetric == Permutations(Pair)
=============================================================================
