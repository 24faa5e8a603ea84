--------------------------- MODULE SetupSessions ---------------------------
(***************************************************************************)
(* The setup sessions of the credential vault.  An app's broker asks for   *)
(* a signed token that binds the app by id, its owner and what the form    *)
(* showed; the browser then submits with that token alone, so that app and *)
(* owner are looked up again.  Meanwhile the app changes hands, is removed *)
(* and created anew under its slug, and its owner disconnects.             *)
(*                                                                         *)
(* One slug of one environment and one provider.  What is stored, and how  *)
(* a submission is handled, is the providers': SlackSetup, TelegramSetup.  *)
(***************************************************************************)
EXTENDS Naturals, FiniteSets

CONSTANTS
    Users,          \* members of the organization who own the app, one after the other
    Sessions,       \* the setup dialogs ever opened
    MaxApps,        \* bound on the apps ever created under the slug
    MaxMoves,       \* bound on the changes of owner
    MaxDisconnects, \* bound on the disconnects
    None            \* no owner, no row, no session

ASSUME SessionAssumption ==
    /\ MaxApps \in Nat \ {0} /\ MaxMoves \in Nat /\ MaxDisconnects \in Nat
    /\ None \notin Users

VARIABLES
    app,        \* App: its id (0 when none has the slug) and the value of its owner tag
    session,    \* the signed token of each dialog, None before it is minted
    expired,    \* the sessions whose token is older than half an hour
    credential, \* IntegrationUserCredential: the row of each owner
    spent       \* moves and disconnects so far, for the bounds

sessionVars == <<app, session, expired, credential, spent>>

SessionTypeOK ==
    /\ app \in [id : 0 .. MaxApps, created : 0 .. MaxApps, owner : Users \cup {None}]
    /\ app.id \in {0, app.created} /\ (app.id = 0 => app.owner = None)
    /\ expired \subseteq Sessions
    /\ DOMAIN session = Sessions /\ DOMAIN credential = Users
    /\ spent \in [moves : 0 .. MaxMoves, disconnects : 0 .. MaxDisconnects]

SessionInit ==
    /\ app \in [id : {1}, created : {1}, owner : Users]
    /\ session = [s \in Sessions |-> None]
    /\ expired = {}
    /\ credential = [u \in Users |-> None]
    /\ spent = [moves |-> 0, disconnects |-> 0]

-----------------------------------------------------------------------------
(* The app *)

\* The tags are replaced in two statements: in between the app has no owner.
DeleteTags ==
    /\ app.id # 0 /\ app.owner # None /\ spent.moves < MaxMoves
    /\ app' = [app EXCEPT !.owner = None]
    /\ spent' = [spent EXCEPT !.moves = @ + 1]
    /\ UNCHANGED <<session, expired, credential>>

CreateTags ==
    /\ app.id # 0 /\ app.owner = None
    /\ \E u \in Users : app' = [app EXCEPT !.owner = u]
    /\ UNCHANGED <<session, expired, credential, spent>>

\* The owners' rows survive the removal.
RemoveApp ==
    /\ app.id # 0
    /\ app' = [app EXCEPT !.id = 0, !.owner = None]
    /\ UNCHANGED <<session, expired, credential, spent>>

CreateApp ==
    /\ app.id = 0 /\ app.created < MaxApps
    /\ \E u \in Users : app' = [id |-> app.created + 1, created |-> app.created + 1, owner |-> u]
    /\ UNCHANGED <<session, expired, credential, spent>>

-----------------------------------------------------------------------------
(* The sessions *)

\* seen is the row that schema() built the form from.
Mint(s) ==
    /\ session[s] = None /\ app.owner # None
    /\ session' = [session EXCEPT ![s] =
            [user |-> app.owner, app |-> app.id, seen |-> credential[app.owner]]]
    /\ UNCHANGED <<app, expired, credential, spent>>

Expire(s) ==
    /\ session[s] # None /\ s \notin expired
    /\ expired' = expired \cup {s}
    /\ UNCHANGED <<app, session, credential, spent>>

\* Bug: the token is not compared with the app's owner of today.
ResolvesForAnyOwner(s) ==
    /\ session[s] # None /\ s \notin expired
    /\ session[s].app = app.id
    /\ app.owner # None

\* A request with the token of s is taken, for the owner of the app.
Resolves(s) ==
    /\ session[s] # None /\ s \notin expired
    /\ session[s].app = app.id
    /\ session[s].user = app.owner

Disconnect ==
    /\ app.owner # None /\ spent.disconnects < MaxDisconnects
    /\ credential' = [credential EXCEPT ![app.owner] = None]
    /\ spent' = [spent EXCEPT !.disconnects = @ + 1]
    /\ UNCHANGED <<app, session, expired>>

SessionNext ==
    \/ DeleteTags \/ CreateTags \/ RemoveApp \/ CreateApp
    \/ \E s \in Sessions : Expire(s)
=============================================================================
