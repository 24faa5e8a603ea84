---------------------------- MODULE SharedLogins ----------------------------
(***************************************************************************)
(* The logins an organization shares with its members (and the platform    *)
(* with every customer) at one provider: admins who connect, reconnect,    *)
(* re-target and delete them while brokers have their refresh tokens       *)
(* rotated under a row lock.                                               *)
(***************************************************************************)
EXTENDS Naturals, FiniteSets

CONSTANTS
    Admin,          \* requests of administrators that can be under way at once
    Scope,          \* who may receive a login: "everyone", "user", "workspace", "platform"
    MaxRows,        \* bound on the rows ever created
    MaxLogins,      \* bound on the logins ever approved
    MaxTurns,       \* bound on the rotations of one refresh token
    Retargets,      \* whether admins change who receives a login
    MayDie          \* whether a process may die while it refreshes

ASSUME SharedAssumption ==
    /\ Scope \subseteq {"everyone", "user", "workspace", "platform"} /\ Scope # {}
    /\ MaxRows \in Nat \ {0} /\ MaxLogins \in Nat \ {0} /\ MaxTurns \in Nat \ {0}
    /\ Retargets \in BOOLEAN /\ MayDie \in BOOLEAN

VARIABLES
    share,      \* IntegrationSharedCredential and PlatformSharedCredential
    turns,      \* at the provider: the newest rotation of each login, 0 for none
    withdrawn,  \* at the provider: the logins that are revoked
    holder,     \* the refresh that holds the lock of each row
    request     \* the admins: a device login in the session, an edit under way

sharedVars == <<share, turns, withdrawn, holder, request>>

ShareId == 1 .. MaxRows
Login == 1 .. MaxLogins
LoginToken == [grant : Login, rotation : 1 .. MaxTurns]
NoLogin == [grant |-> 0, rotation |-> 0]

\* cache: the grant whose access token is cached, 0 for none that is fresh.
Share == [state : {"absent", "shared", "deleted"}, scope : Scope, token : LoginToken \cup {NoLogin},
          cache : 0 .. MaxLogins]
NoShare == [state |-> "absent", scope |-> CHOOSE s \in Scope : TRUE, token |-> NoLogin, cache |-> 0]

Unlocked == [stage |-> "none", next |-> NoLogin]
\* edit: the row that is edited or reconnected, 0 for a new one; loaded: what was read of it.
NoRequest == [stage |-> "idle", scope |-> CHOOSE s \in Scope : TRUE, edit |-> 0, grant |-> 0, loaded |-> NoShare]

Shared == {i \in ShareId : share[i].state = "shared"}

SharedTypeOK ==
    /\ share \in [ShareId -> Share]
    /\ \A i, j \in Shared : share[i].scope = share[j].scope => i = j
    /\ turns \in [Login -> 0 .. MaxTurns]
    /\ withdrawn \subseteq {g \in Login : turns[g] > 0}
    /\ holder \in [ShareId -> [stage : {"none", "locked", "response", "rejected"},
                           next : LoginToken \cup {NoLogin}]]
    /\ request \in [Admin -> [stage : {"idle", "login", "approved", "storing", "retargeting"},
                              scope : Scope, edit : 0 .. MaxRows, grant : 0 .. MaxLogins, loaded : Share]]

SharedInit ==
    /\ share = [i \in ShareId |-> NoShare]
    /\ turns = [g \in Login |-> 0]
    /\ withdrawn = {}
    /\ holder = [i \in ShareId |-> Unlocked]
    /\ request = [a \in Admin |-> NoRequest]

Accepted(t) == t # NoLogin /\ t.grant \notin withdrawn /\ t.rotation = turns[t.grant]
Free(i) == holder[i] = Unlocked

-----------------------------------------------------------------------------
\* Device logins.

\* integrations_org_shared_keys_add: the target and the device code go into the session.
StartLogin(a, scope) ==
    /\ request[a].stage = "idle"
    /\ request' = [request EXCEPT ![a] = [NoRequest EXCEPT !.stage = "login", !.scope = scope]]
    /\ UNCHANGED <<share, turns, withdrawn, holder>>

\* integrations_org_shared_login_reconnect: the target is the row's, as of now.
StartReconnect(a, i) ==
    /\ request[a].stage = "idle"
    /\ share[i].state = "shared"
    /\ request' = [request EXCEPT ![a] =
          [NoRequest EXCEPT !.stage = "login", !.scope = share[i].scope, !.edit = i]]
    /\ UNCHANGED <<share, turns, withdrawn, holder>>

\* A poll that finds the login approved has exchanged the code for a refresh token.
Approved(a, g) ==
    /\ request[a].stage = "login"
    /\ turns[g] = 0 /\ \A h \in Login : h < g => turns[h] > 0
    /\ turns' = [turns EXCEPT ![g] = 1]
    /\ request' = [request EXCEPT ![a].stage = "approved", ![a].grant = g]
    /\ UNCHANGED <<share, withdrawn, holder>>

\* Cancelled, timed out, or failed at the provider.
LoginEnds(a) ==
    /\ request[a].stage = "login"
    /\ request' = [request EXCEPT ![a] = NoRequest]
    /\ UNCHANGED <<share, turns, withdrawn, holder>>

\* _store_completed reads the row it replaces the token of, if it is still there.
LoadForStore(a) ==
    LET i == request[a].edit IN
    /\ request[a].stage = "approved"
    /\ request' = [request EXCEPT ![a].stage = "storing",
                      ![a].edit = IF i # 0 /\ share[i].state = "shared" THEN i ELSE 0,
                      ![a].loaded = IF i # 0 /\ share[i].state = "shared" THEN share[i] ELSE NoShare]
    /\ UNCHANGED <<share, turns, withdrawn, holder>>

\* Another row has the target, which the check or the constraint finds.
Taken(scope, i) == \E j \in Shared \ {i} : share[j].scope = scope

\* A row does not move between the tables of the organizations and the platform.
ChangesTier(a) ==
    request[a].edit # 0 /\ (request[a].loaded.scope = "platform") # (request[a].scope = "platform")

\* Bug: the cached access token of the login that is replaced stays.
CacheKept(a, token) == request[a].loaded.cache
\* A cache goes with the credentials it was made from.
CacheAfter(a, token) == IF token # request[a].loaded.token THEN 0 ELSE request[a].loaded.cache

\* upsert_share: a new row, or the whole of the loaded one with the new values.  A save
\* waits for the row's lock, and brings a row back that was deleted meanwhile.
Upsert(a, token) ==
    LET i == request[a].edit IN
    \/ /\ ChangesTier(a) \/ Taken(request[a].scope, i)
       /\ UNCHANGED share
    \/ /\ ~ChangesTier(a) /\ ~Taken(request[a].scope, i)
       /\ i = 0
       /\ \E j \in ShareId :
             /\ share[j].state = "absent" /\ \A k \in ShareId : k < j => share[k].state # "absent"
             /\ share' = [share EXCEPT ![j] = [state |-> "shared", scope |-> request[a].scope,
                                           token |-> token, cache |-> 0]]
    \/ /\ ~ChangesTier(a) /\ ~Taken(request[a].scope, i)
       /\ i # 0
       /\ Free(i)
       /\ share' = [share EXCEPT ![i] = [state |-> "shared", scope |-> request[a].scope,
                                     token |-> token, cache |-> CacheAfter(a, token)]]

StoreLogin(a) ==
    /\ request[a].stage = "storing"
    /\ Upsert(a, [grant |-> request[a].grant, rotation |-> 1])
    /\ request' = [request EXCEPT ![a] = NoRequest]
    /\ UNCHANGED <<turns, withdrawn, holder>>

-----------------------------------------------------------------------------
\* Editing and deleting.

\* integrations_org_shared_keys_edit of a login reads the row ...
LoadForEdit(a, i, scope) ==
    /\ Retargets
    /\ request[a].stage = "idle"
    /\ share[i].state = "shared"
    /\ request' = [request EXCEPT ![a] =
          [stage |-> "retargeting", scope |-> scope, edit |-> i, grant |-> 0, loaded |-> share[i]]]
    /\ UNCHANGED <<share, turns, withdrawn, holder>>

\* ... and _save_login_target writes it back, with the credentials it has read.
Retarget(a) ==
    /\ request[a].stage = "retargeting"
    /\ Upsert(a, request[a].loaded.token)
    /\ request' = [request EXCEPT ![a] = NoRequest]
    /\ UNCHANGED <<turns, withdrawn, holder>>

Delete(i) ==
    /\ share[i].state = "shared"
    /\ Free(i)
    /\ share' = [share EXCEPT ![i] = [NoShare EXCEPT !.state = "deleted"]]
    /\ UNCHANGED <<turns, withdrawn, holder, request>>

-----------------------------------------------------------------------------
\* run_shared_refresh_exchange.

\* No fresh token is cached: the row is locked, and read again.
Lock(i) ==
    /\ share[i].state = "shared" /\ share[i].cache = 0
    /\ Free(i)
    /\ holder' = [holder EXCEPT ![i].stage = "locked"]
    /\ UNCHANGED <<share, turns, withdrawn, request>>

\* The provider rotates the token, or rejects one that does not work.
Exchange(i) ==
    LET t == share[i].token IN
    /\ holder[i].stage = "locked"
    /\ \/ /\ Accepted(t) /\ turns[t.grant] < MaxTurns
          /\ turns' = [turns EXCEPT ![t.grant] = @ + 1]
          /\ holder' = [holder EXCEPT ![i] =
                [stage |-> "response", next |-> [t EXCEPT !.rotation = turns[t.grant] + 1]]]
       \/ /\ ~Accepted(t)
          /\ holder' = [holder EXCEPT ![i].stage = "rejected"]
          /\ UNCHANGED turns
    /\ UNCHANGED <<share, withdrawn, request>>

\* The rotated token and the cached access token are saved, and the lock is released.
Commit(i) ==
    /\ holder[i].stage = "response"
    /\ share' = [share EXCEPT ![i].token = holder[i].next, ![i].cache = holder[i].next.grant]
    /\ holder' = [holder EXCEPT ![i] = Unlocked]
    /\ UNCHANGED <<turns, withdrawn, request>>

\* Revoked: the row stays, without a cache, until an admin reconnects it.
Rejected(i) ==
    /\ holder[i].stage = "rejected"
    /\ share' = [share EXCEPT ![i].cache = 0]
    /\ holder' = [holder EXCEPT ![i] = Unlocked]
    /\ UNCHANGED <<turns, withdrawn, request>>

\* The provider is in trouble; or (Lossy) the process dies with the rotation in its hands.
RefreshFails(i) ==
    /\ ~Free(i)
    /\ holder[i].stage = "locked" \/ MayDie
    /\ holder' = [holder EXCEPT ![i] = Unlocked]
    /\ UNCHANGED <<share, turns, withdrawn, request>>

\* What is left of a cached access token is less than the margin.
CacheLapses(i) ==
    /\ share[i].cache # 0
    /\ Free(i)
    /\ share' = [share EXCEPT ![i].cache = 0]
    /\ UNCHANGED <<turns, withdrawn, holder, request>>

LoginRevoked(g) ==
    /\ turns[g] > 0 /\ g \notin withdrawn
    /\ withdrawn' = withdrawn \cup {g}
    /\ UNCHANGED <<share, turns, holder, request>>

-----------------------------------------------------------------------------

SharedNext ==
    \/ \E a \in Admin :
          \/ LoginEnds(a) \/ LoadForStore(a) \/ StoreLogin(a) \/ Retarget(a)
          \/ \E scope \in Scope : StartLogin(a, scope) \/ \E i \in ShareId : LoadForEdit(a, i, scope)
          \/ \E i \in ShareId : StartReconnect(a, i)
          \/ \E g \in Login : Approved(a, g)
    \/ \E i \in ShareId :
          Delete(i) \/ Lock(i) \/ Exchange(i) \/ Commit(i) \/ Rejected(i) \/ RefreshFails(i) \/ CacheLapses(i)
    \/ \E g \in Login : LoginRevoked(g)

SharedSpec == SharedInit /\ [][SharedNext]_sharedVars

-----------------------------------------------------------------------------
\* Properties.

\* A cached access token belongs to the login the row holds: a reconnect never leaves the
\* account it replaced in service.
CacheIsOfTheLogin == \A i \in Shared : share[i].cache # 0 => share[i].cache = share[i].token.grant

\* Brokers never orphan a shared login: between refreshes the row holds the newest rotation
\* of its token, unless the grant itself is revoked.
RotatedTokenIsKept ==
    \A i \in Shared : Free(i) => Accepted(share[i].token) \/ share[i].token.grant \in withdrawn

\* However admins and refreshes overlap, a target has one login and what is cached is of
\* the login the row holds; and while nobody re-targets a login nor dies in a refresh, the
\* row holds the newest rotation.
SharedLoginsStayValid ==
    /\ SharedTypeOK
    /\ CacheIsOfTheLogin
    /\ ~Retargets /\ ~MayDie => RotatedTokenIsKept

\* A reconnect replaces the refresh token of a login and leaves its target alone.
ReconnectKeepsTarget ==
    [][\A a \in Admin, i \in ShareId :
          /\ request[a].stage = "storing" /\ request[a].edit = i /\ request'[a].stage = "idle"
          /\ share[i].state = "shared"
          => share'[i].scope = share[i].scope]_sharedVars
=============================================================================
