---------------------------- MODULE Memberships -----------------------------
(***************************************************************************)
(* How people join one organization: by an invitation in an organization   *)
(* that signs in with WorkOS (views/invites.py, views/onboarding.py,       *)
(* auth_callback), by the first login in one with its own OIDC provider     *)
(* (oidc_callback), and materialize_membership, which every way ends in.    *)
(* A request commits its statements one by one outside transaction.atomic, *)
(* so a request that dies in between leaves what it has written.            *)
(***************************************************************************)
EXTENDS Naturals, FiniteSets

CONSTANTS
    Provider,      \* "workos" or "oidc"
    People,        \* people, each with one e-mail address and one identity
    Founder,       \* the admin of a WorkOS organization, the bootstrap admin of
                   \* an OIDC one
    Existing,      \* people with a User row before they meet this organization
    Invites,       \* invitation rows
    MaxEdits,      \* edits of roles by the admins
    MaxCrashes     \* requests that die

ASSUME MembershipAssumption ==
    /\ Provider \in {"workos", "oidc"}
    /\ Founder \in People /\ Existing \subseteq People
    /\ MaxEdits \in Nat /\ MaxCrashes \in Nat

VARIABLES
    user,       \* the people with a User row
    linked,     \* those whose row carries the identity of this provider
    current,    \* those whose current_organization is this organization
    member,     \* OrganizationMembership.role, or "none"
    roles,      \* the org-role attributes
    bootstrap,  \* bootstrap_admin_email is set
    default,    \* default_org_role
    invite,     \* invitation rows
    session,    \* what the request of a person holds between two of its steps
    revoking,   \* invitations a revoke has read as pending
    edits, crashes

memberVars == <<user, linked, current, member, roles, bootstrap, default, invite,
                session, revoking, edits, crashes>>

Roles == {"admin", "member", "viewer"}
NoInvite == [to |-> Founder, state |-> "none", accepted |-> FALSE, revoked |-> FALSE]
Idle == [pc |-> "idle", invite |-> {}]

OIDC == Provider = "oidc"

MembershipInit ==
    LET in == IF OIDC THEN {} ELSE {Founder}
    IN  /\ user = in \cup Existing
        /\ linked = in /\ current = in
        /\ member = [p \in People |-> IF p \in in THEN "admin" ELSE "none"]
        /\ roles = [p \in People |-> IF p \in in THEN {"admin"} ELSE {}]
        /\ bootstrap = OIDC /\ default = "member"
        /\ invite = [i \in Invites |-> NoInvite]
        /\ session = [p \in People |-> Idle]
        /\ revoking = {}
        /\ edits = 0 /\ crashes = 0

\* materialize_membership, in one transaction: a membership that exists keeps
\* its role, and the attribute of that role is there afterwards.
Materialize(p, role) ==
    LET kept == IF member[p] = "none" THEN role ELSE member[p]
    IN  /\ member' = [member EXCEPT ![p] = kept]
        /\ roles' = [roles EXCEPT ![p] = @ \cup {kept}]

\* invite_status: the invitation can still be used.
Consumable(i) == invite[i].state = "sent" /\ ~invite[i].accepted /\ ~invite[i].revoked

\* An org admin works: require_org_admin.
SomeAdmin == \E p \in People : member[p] # "none" /\ "admin" \in roles[p]

-----------------------------------------------------------------------------
\* The settings pages.

\* create_invite: not for an address that is a member already.
CreateInvite(i, p) ==
    /\ ~OIDC /\ SomeAdmin
    /\ invite[i].state = "none" /\ member[p] = "none"
    /\ invite' = [invite EXCEPT ![i].to = p, ![i].state = "sent"]
    /\ UNCHANGED <<user, linked, current, member, roles, bootstrap, default,
                   session, revoking, edits, crashes>>

Expire(i) ==
    /\ invite[i].state = "sent"
    /\ invite' = [invite EXCEPT ![i].state = "expired"]
    /\ UNCHANGED <<user, linked, current, member, roles, bootstrap, default,
                   session, revoking, edits, crashes>>

\* revoke_invite reads the row and saves revoked_at if it was pending then.
RevokeRead(i) ==
    /\ SomeAdmin /\ invite[i].state # "none"
    /\ ~invite[i].accepted /\ ~invite[i].revoked
    /\ revoking' = revoking \cup {i}
    /\ UNCHANGED <<user, linked, current, member, roles, bootstrap, default, invite,
                   session, edits, crashes>>

RevokeSave(i) ==
    /\ i \in revoking
    /\ revoking' = revoking \ {i}
    /\ invite' = [invite EXCEPT ![i].revoked = TRUE]
    /\ UNCHANGED <<user, linked, current, member, roles, bootstrap, default,
                   session, edits, crashes>>

\* security_people_attribute_add and _remove on a member's org-role.
EditRole(p, role) ==
    /\ edits < MaxEdits /\ edits' = edits + 1
    /\ SomeAdmin /\ member[p] # "none"
    /\ \/ roles' = [roles EXCEPT ![p] = @ \cup {role}]
       \/ roles' = [roles EXCEPT ![p] = @ \ {role}]
    /\ UNCHANGED <<user, linked, current, member, bootstrap, default, invite,
                   session, revoking, crashes>>

\* security_people_default_role, for a role the seeds or an attribute know.
SetDefaultRole(role) ==
    /\ edits < MaxEdits /\ edits' = edits + 1
    /\ SomeAdmin
    /\ default' = role
    /\ UNCHANGED <<user, linked, current, member, roles, bootstrap, invite,
                   session, revoking, crashes>>

-----------------------------------------------------------------------------
\* WorkOS: auth_callback, accept_invite and onboarding.

\* auth_callback finds no row with the identity: the session goes to
\* onboarding.  A person whose row is linked is logged in.
SignIn(p) ==
    /\ ~OIDC /\ session[p].pc = "idle" /\ p \notin linked
    /\ session' = [session EXCEPT ![p].pc = "pending"]
    /\ UNCHANGED <<user, linked, current, member, roles, bootstrap, default, invite,
                   revoking, edits, crashes>>

\* onboarding without an invitation: a new User and another organization of
\* their own; the username has to be free.
OnboardAlone(p) ==
    /\ ~OIDC /\ session[p].pc = "pending" /\ p \notin user
    /\ user' = user \cup {p} /\ linked' = linked \cup {p}
    /\ session' = [session EXCEPT ![p] = Idle]
    /\ UNCHANGED <<current, member, roles, bootstrap, default, invite, revoking,
                   edits, crashes>>

\* _pending_invite_for_session and accept_invite up to the transaction: the
\* invitation is consumable and sent to the address that is signed in.
AcceptRead(p, i) ==
    /\ ~OIDC /\ Consumable(i) /\ invite[i].to = p
    /\ \/ session[p].pc = "pending"
       \/ session[p].pc = "idle" /\ p \in linked
    /\ session' = [session EXCEPT ![p] =
                     [pc |-> IF @.pc = "pending" THEN "onboard" ELSE "accept",
                      invite |-> {i}]]
    /\ UNCHANGED <<user, linked, current, member, roles, bootstrap, default, invite,
                   revoking, edits, crashes>>

\* Bug: the User row commits before the membership.
AcceptCommitUser(p) ==
    \E i \in session[p].invite :
      /\ session' = [session EXCEPT ![p] = Idle]
      /\ user' = user \cup {p} /\ linked' = linked \cup {p} /\ current' = current \cup {p}
      /\ IF session[p].pc = "onboard" THEN UNCHANGED <<member, roles, invite>>
         ELSE /\ Materialize(p, "member")
              /\ invite' = [invite EXCEPT ![i].accepted = TRUE]
      /\ UNCHANGED <<bootstrap, default, revoking, edits, crashes>>

\* _onboarding_via_invite and _accept_invite_for_user, in one transaction: the
\* User row (a row with the address is linked), the membership, the mark on
\* the invitation as it was read, and the current organization.
AcceptCommit(p) ==
    \E i \in session[p].invite :
      /\ session' = [session EXCEPT ![p] = Idle]
      /\ user' = user \cup {p} /\ linked' = linked \cup {p}
      /\ current' = current \cup {p}
      /\ Materialize(p, "member")
      /\ invite' = [invite EXCEPT ![i].accepted = TRUE]
      /\ UNCHANGED <<bootstrap, default, revoking, edits, crashes>>

-----------------------------------------------------------------------------
\* OIDC: oidc_callback.  Someone with a linked row and a membership is logged
\* in; someone with a linked row and none is refused.

\* _find_user_by_org_email: the row of a member, or of the bootstrap admin.
FoundByEmail(p) == p \in user /\ (member[p] # "none" \/ (bootstrap /\ p = Founder))

\* The identity is written onto a row that was found by its address.
OidcLink(p) ==
    /\ OIDC /\ session[p].pc = "idle" /\ p \notin linked
    /\ FoundByEmail(p)
    /\ linked' = linked \cup {p}
    /\ session' = [session EXCEPT ![p].pc = IF member[p] = "none" THEN "bootstrap" ELSE "idle"]
    /\ UNCHANGED <<user, current, member, roles, bootstrap, default, invite, revoking,
                   edits, crashes>>

\* A new row; its username, the address, has to be free.
OidcCreate(p) ==
    /\ OIDC /\ session[p].pc = "idle" /\ p \notin user
    /\ user' = user \cup {p} /\ linked' = linked \cup {p} /\ current' = current \cup {p}
    /\ session' = [session EXCEPT ![p].pc =
                     IF bootstrap /\ p = Founder THEN "bootstrap" ELSE "join"]
    /\ UNCHANGED <<member, roles, bootstrap, default, invite, revoking, edits, crashes>>

\* The membership of a new user, with the role the request read.
OidcJoin(p) ==
    /\ session[p].pc = "join"
    /\ Materialize(p, default)
    /\ session' = [session EXCEPT ![p] = Idle]
    /\ UNCHANGED <<user, linked, current, bootstrap, default, invite, revoking, edits,
                   crashes>>

\* bootstrap_organization.
OidcBootstrap(p) ==
    /\ session[p].pc = "bootstrap"
    /\ Materialize(p, "admin")
    /\ session' = [session EXCEPT ![p].pc = "clear"]
    /\ UNCHANGED <<user, linked, current, bootstrap, default, invite, revoking, edits,
                   crashes>>

\* The bootstrap address is cleared.
OidcClear(p) ==
    /\ session[p].pc = "clear"
    /\ bootstrap' = FALSE
    /\ session' = [session EXCEPT ![p] = Idle]
    /\ UNCHANGED <<user, linked, current, member, roles, default, invite, revoking,
                   edits, crashes>>

\* The request of p dies with its worker.
RequestDies(p) ==
    /\ crashes < MaxCrashes /\ crashes' = crashes + 1
    /\ session[p] # Idle
    /\ session' = [session EXCEPT ![p] = Idle]
    /\ UNCHANGED <<user, linked, current, member, roles, bootstrap, default, invite,
                   revoking, edits>>

OidcStep(p) == OidcLink(p) \/ OidcCreate(p) \/ OidcJoin(p) \/ OidcBootstrap(p) \/ OidcClear(p)

MembershipNext ==
    \/ \E i \in Invites, p \in People : CreateInvite(i, p) \/ AcceptRead(p, i)
    \/ \E i \in Invites : Expire(i) \/ RevokeRead(i) \/ RevokeSave(i)
    \/ \E p \in People, role \in Roles : EditRole(p, role)
    \/ \E role \in Roles : SetDefaultRole(role)
    \/ \E p \in People : SignIn(p) \/ OnboardAlone(p) \/ AcceptCommit(p)
    \/ \E p \in People : OidcStep(p)
    \/ \E p \in People : RequestDies(p)

MembershipSpec == MembershipInit /\ [][MembershipNext]_memberVars

\* People keep trying to log in, and a request that runs ends.
MembershipFairness == \A p \in People : WF_memberVars(OidcStep(p))

MembershipFairSpec == MembershipSpec /\ MembershipFairness

-----------------------------------------------------------------------------
\* The variables stay in their sets.
MembershipTypeOK ==
    /\ linked \subseteq user /\ current \subseteq user /\ user \subseteq People
    /\ member \in [People -> Roles \cup {"none"}]
    /\ roles \in [People -> SUBSET Roles]
    /\ bootstrap \in BOOLEAN /\ default \in Roles
    /\ \A i \in Invites : invite[i].state \in {"none", "sent", "expired"}
    /\ revoking \subseteq Invites
    /\ \A p \in People : session[p].pc \in {"idle", "pending", "onboard", "accept",
                                             "join", "bootstrap", "clear"}

\* Nobody is left halfway into the organization: a user whose organization it
\* is has a membership as soon as the request that brought them is over.
NobodyHalfIn ==
    \A p \in People : (p \in current /\ session[p].pc = "idle") => member[p] # "none"

\* Everyone but the founder came in by an invitation sent to their own address.
InvitedOnly ==
    ~OIDC => \A p \in People \ {Founder} :
        member[p] # "none" => \E i \in Invites : invite[i].to = p /\ invite[i].accepted

\* While no admin edits roles or the default, nobody but the bootstrap admin is
\* an admin, in whatever order the first people log in.
OneFirstAdmin ==
    edits = 0 => \A p \in People : "admin" \in roles[p] => p = Founder

\* All of these.  (A request that dies between the row of a new user and the
\* membership leaves that user halfway into an organization with its own provider.)
MembershipsAreWhole ==
    /\ MembershipTypeOK
    /\ (~OIDC \/ MaxCrashes = 0) => NobodyHalfIn
    /\ InvitedOnly
    /\ OneFirstAdmin

\* Whoever keeps logging in becomes a member, the bootstrap admin with a row of
\* an earlier organization included; an unrelated row with the same address
\* keeps its owner out.
LoginsAdmit ==
    OIDC => \A p \in (People \ Existing) \cup {Founder} : <>(member[p] # "none")

\* An invitation ends in one way: revoking an accepted one changes nothing, and
\* a revoked one admits nobody.
AcceptedOrRevoked == \A i \in Invites : ~(invite[i].accepted /\ invite[i].revoked)

\* Somebody who is a member already gets no further role unless an admin edits.
RejoinAddsNoRole ==
    [][\A p \in People : (member[p] # "none" /\ edits' = edits) => roles'[p] \subseteq roles[p]]_memberVars
=============================================================================
