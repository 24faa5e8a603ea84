---------------------------- MODULE GoogleConnect ----------------------------
(***************************************************************************)
(* The Google credentials of one user: consent flows that complete late,   *)
(* narrowings and disconnects that must not be undone by them, and the     *)
(* refreshes that find a grant dead.  A flow gets at most one refresh      *)
(* token, which bears the number of the flow.                              *)
(***************************************************************************)
EXTENDS Naturals, FiniteSets

CONSTANTS
    App,            \* (environment, app) pairs the user connects
    Account,        \* Google accounts of the user
    Session,        \* browser sessions of the user
    MaxFlows,       \* bound on the flows ever started
    MaxPending,     \* _MAX_PENDING_FLOWS
    MaxTime,        \* bound on the stamps the user's steps give out
    MayHideSub,     \* whether an exchange may come back without an id_token
    NoAccount, NoSession

GoogleAssumption ==
    /\ MaxFlows \in Nat \ {0} /\ MaxPending \in Nat \ {0} /\ MaxTime \in Nat
    /\ MayHideSub \in BOOLEAN
    /\ NoAccount \notin Account /\ NoSession \notin Session

VARIABLES
    clock,          \* counts the stamps given out: no two are equal
    row,            \* IntegrationUserCredential of each app
    flow,           \* the flows, in the order they started
    alive,          \* at Google: the refresh tokens that still work
    narrowing,      \* the session whose narrowing holds the lock of the app's row
    revoking,       \* tokens of disconnected rows, still to be revoked at Google
    refresh,        \* the refresh of each app that is under way
    revoked         \* history: when the user last revoked each account through each
                    \* row; nothing once the mark of the row was overwritten unseen

googleVars == <<clock, row, flow, alive, narrowing, revoking, refresh, revoked>>

Flow == 1 .. MaxFlows
NoToken == 0
Token == Flow \cup {NoToken}
\* A refresh blanks every token at most once, beyond the bound.
Time == 0 .. MaxTime + MaxFlows

\* A tombstone is a row without a token; epoch is its revoked_at_epoch, 0 for none.
Credential == [exists : BOOLEAN, token : Token, sub : Account \cup {NoAccount}, epoch : Time]
NoRow == [exists |-> FALSE, token |-> NoToken, sub |-> NoAccount, epoch |-> 0]

\* prior: the token fingerprinted at the start.  account, sub and gives are known once
\* the code is exchanged: who consented, what the id_token says of it, and whether a
\* refresh token came with it.  seen: the rows of the callback's SELECT FOR UPDATE.
PendingFlow ==
    [stage : {"unused", "pending", "exchanged", "selected", "done"},
     session : Session \cup {NoSession}, app : App, mode : {"connect", "narrow"},
     started : Time, prior : Token, account : Account \cup {NoAccount},
     sub : Account \cup {NoAccount}, gives : BOOLEAN, seen : SUBSET App]

Idle == [stage |-> "idle", token |-> NoToken, verdict |-> "none"]

GoogleTypeOK ==
    /\ clock \in Time
    /\ row \in [App -> Credential]
    /\ \A a \in App : ~row[a].exists => row[a] = NoRow
    /\ flow \in [Flow -> PendingFlow]
    /\ alive \subseteq {f \in Flow : flow[f].gives}
    /\ narrowing \in [App -> Session \cup {NoSession}]
    /\ revoking \subseteq Flow
    /\ refresh \in [App -> [stage : {"idle", "sent", "answered"}, token : Token,
                            verdict : {"none", "live", "dead", "unavailable"}]]
    /\ revoked \in [App -> [Account -> Time]]
    /\ \A f \in Flow : \A a \in flow[f].seen : row[a].exists
    /\ \A s \in Session :
          Cardinality({f \in Flow : flow[f].stage = "pending" /\ flow[f].session = s}) <= MaxPending

GoogleInit ==
    /\ clock = 0
    /\ row = [a \in App |-> NoRow]
    /\ flow = [f \in Flow |-> [stage |-> "unused", session |-> NoSession, app |-> CHOOSE a \in App : TRUE,
                               mode |-> "connect", started |-> 0, prior |-> NoToken,
                               account |-> NoAccount, sub |-> NoAccount, gives |-> FALSE, seen |-> {}]]
    /\ alive = {}
    /\ narrowing = [a \in App |-> NoSession]
    /\ revoking = {}
    /\ refresh = [a \in App |-> Idle]
    /\ revoked = [a \in App |-> [c \in Account |-> 0]]

-----------------------------------------------------------------------------
\* Rows and flows.

Unlocked(a) == narrowing[a] = NoSession
Pending(s) == {f \in Flow : flow[f].stage = "pending" /\ flow[f].session = s}

\* Google revokes by account: one token takes all of its account with it.
RevokedWith(k) == {j \in Flow : flow[j].account = flow[k].account}

\* The account a row stands for.
OwnerOf(r) == IF r.token # NoToken THEN flow[r.token].account ELSE r.sub

Blanked(r, now) == [r EXCEPT !.token = NoToken, !.epoch = now]
\* credentials and scope are blanked, the metadata stay and get a new epoch.
Tombstone(r, now) == Blanked(r, now)

\* The user revokes, now, the account that row a stands for.
Revokes(a) ==
    revoked' = [revoked EXCEPT ![a] = [c \in Account |-> IF c = OwnerOf(row[a]) THEN clock + 1 ELSE @[c]]]

\* What a session that is at its cap throws away for a new flow: the oldest one.
Forgotten(pending) ==
    IF Cardinality(pending) < MaxPending THEN {}
    ELSE {f \in pending : \A g \in pending : flow[f].started <= flow[g].started}

\* _redirect_to_consent with _stash_flow: f is the next flow, drop the ones the session
\* has just thrown away.
Redirect(f, s, a, mode, now, prior, drop) ==
    LET lost == drop \cup Forgotten(Pending(s) \ drop) IN
    flow' = [g \in Flow |->
        CASE g = f -> [flow[g] EXCEPT !.stage = "pending", !.session = s, !.app = a,
                                      !.mode = mode, !.started = now, !.prior = prior]
          [] g \in lost -> [flow[g] EXCEPT !.stage = "done"]
          [] OTHER -> flow[g]]

IsNext(f) == flow[f].stage = "unused" /\ \A g \in Flow : g < f => flow[g].stage # "unused"

-----------------------------------------------------------------------------
\* The user.

\* integrations_user_google_start; also a narrowing that has nothing left to narrow.
Start(s, a) ==
    /\ clock < MaxTime
    /\ \E f \in Flow :
          /\ IsNext(f)
          /\ Redirect(f, s, a, "connect", clock + 1, row[a].token, {})
    /\ clock' = clock + 1
    /\ UNCHANGED <<row, alive, narrowing, revoking, refresh, revoked>>

\* Google sends the browser back: the flow leaves the session and its code is exchanged.
Exchange(f, c, sub, gives) ==
    /\ flow[f].stage = "pending"
    /\ sub \in {c} \cup (IF MayHideSub THEN {NoAccount} ELSE {})
    /\ flow' = [flow EXCEPT ![f].stage = "exchanged", ![f].account = c, ![f].sub = sub,
                            ![f].gives = gives]
    /\ alive' = IF gives THEN alive \cup {f} ELSE alive
    /\ UNCHANGED <<clock, row, narrowing, revoking, refresh, revoked>>

\* Consent denied, no code, the app lost, or an exchange that fails.
FlowFails(f) ==
    /\ flow[f].stage = "pending"
    /\ flow' = [flow EXCEPT ![f].stage = "done"]
    /\ UNCHANGED <<clock, row, alive, narrowing, revoking, refresh, revoked>>

\* The rows that the callback's SELECT ... FOR UPDATE finds.  A row that another callback
\* inserts from here on is not among them, and is not locked.
Select(f) ==
    /\ flow[f].stage = "exchanged"
    /\ flow' = [flow EXCEPT ![f].stage = "selected", ![f].seen = {a \in App : row[a].exists}]
    /\ UNCHANGED <<clock, row, alive, narrowing, revoking, refresh, revoked>>

\* Bug: the guard looks at the row of the flow's own app only.
OwnRowOnly(f) == {a \in flow[f].seen : a = flow[f].app}
\* The rows whose epochs count: those of the account, and those of no known account.
AccountRows(f) ==
    {a \in flow[f].seen : flow[f].sub = NoAccount \/ row[a].sub \in {NoAccount, flow[f].sub}}

LastEpoch(f) ==
    LET epochs == {row[a].epoch : a \in AccountRows(f)} IN
    IF epochs = {} THEN 0 ELSE CHOOSE e \in epochs : \A d \in epochs : d <= e

RevokedSinceStart(f) == LastEpoch(f) > flow[f].started

\* Only the token seen at the start, and only for the account that consented.
Preservable(f) ==
    /\ flow[f].mode = "connect"
    /\ flow[f].app \in flow[f].seen
    /\ row[flow[f].app].token # NoToken
    /\ row[flow[f].app].token = flow[f].prior
    /\ flow[f].sub # NoAccount
    /\ row[flow[f].app].sub = flow[f].sub

\* The rest of the locked transaction: once the rows found are locked, the guard looks
\* at them (with the values they have by then) and update_or_create writes the flow's own
\* row, waiting for its lock if the row was inserted meanwhile.  The locks last from here
\* to the commit, in which nobody else touches the rows: one step.  A row is never
\* deleted, so that the prior row is never gone.
Complete(f) ==
    LET a == flow[f].app IN
    /\ flow[f].stage = "selected"
    /\ \A b \in flow[f].seen : Unlocked(b)
    /\ flow' = [flow EXCEPT ![f].stage = "done", ![f].seen = {}]
    /\ \/ /\ RevokedSinceStart(f)
          /\ alive' \in {alive, alive \ RevokedWith(f)}
          /\ UNCHANGED <<row, revoked>>
       \/ /\ ~RevokedSinceStart(f)
          /\ (flow[f].gives /\ Unlocked(a)) \/ Preservable(f)
          /\ row' = [row EXCEPT ![a] = [exists |-> TRUE, sub |-> flow[f].sub, epoch |-> LastEpoch(f),
                                        token |-> IF flow[f].gives THEN f ELSE @.token]]
          /\ revoked' = IF a \in flow[f].seen THEN revoked
                        ELSE [revoked EXCEPT ![a] = [c \in Account |-> 0]]
          /\ UNCHANGED alive
       \/ /\ ~RevokedSinceStart(f)
          /\ ~flow[f].gives /\ ~Preservable(f)
          /\ UNCHANGED <<row, alive, revoked>>
    /\ UNCHANGED <<clock, narrowing, revoking, refresh>>

-----------------------------------------------------------------------------
\* Narrowing.

\* integrations_user_google_narrow locks the row and has Google revoke its grant.
Revoke(s, a) ==
    /\ Unlocked(a)
    /\ row[a].token # NoToken
    /\ narrowing' = [narrowing EXCEPT ![a] = s]
    /\ alive' = alive \ RevokedWith(row[a].token)
    /\ UNCHANGED <<clock, row, flow, revoking, refresh, revoked>>

\* Google did not confirm, whether or not it revoked; or the request died.
NarrowUnconfirmed(s, a) ==
    \/ /\ Unlocked(a) /\ row[a].token # NoToken
       /\ alive' = alive \ RevokedWith(row[a].token)
       /\ UNCHANGED <<clock, row, flow, narrowing, revoking, refresh, revoked>>
    \/ /\ narrowing[a] = s
       /\ narrowing' = [narrowing EXCEPT ![a] = NoSession]
       /\ UNCHANGED <<clock, row, flow, alive, revoking, refresh, revoked>>

\* Confirmed: the row becomes a tombstone, the session's flows for the app are void and a
\* fresh one starts.
Narrow(s, a) ==
    /\ narrowing[a] = s
    /\ clock + 2 <= MaxTime
    /\ \E f \in Flow :
          /\ IsNext(f)
          /\ Redirect(f, s, a, "narrow", clock + 2, NoToken, {g \in Pending(s) : flow[g].app = a})
    /\ row' = [row EXCEPT ![a] = Tombstone(@, clock + 1)]
    /\ Revokes(a)
    /\ clock' = clock + 2
    /\ narrowing' = [narrowing EXCEPT ![a] = NoSession]
    /\ UNCHANGED <<alive, revoking, refresh>>

-----------------------------------------------------------------------------
\* Disconnecting.

\* disconnect_user_integration, up to the commit.
Disconnect(a) ==
    /\ Unlocked(a)
    /\ row[a].exists
    /\ clock < MaxTime
    /\ row' = [row EXCEPT ![a] = Tombstone(@, clock + 1)]
    /\ revoking' = IF row[a].token # NoToken THEN revoking \cup {row[a].token} ELSE revoking
    /\ Revokes(a)
    /\ clock' = clock + 1
    /\ UNCHANGED <<flow, alive, narrowing, refresh>>

\* The best-effort revocation at Google after it.
RevokeUpstream(k) ==
    /\ k \in revoking
    /\ revoking' = revoking \ {k}
    /\ alive' \in {alive, alive \ RevokedWith(k)}
    /\ UNCHANGED <<clock, row, flow, narrowing, refresh, revoked>>

\* The user takes the access back in the settings of the account at Google.
RevokedAtGoogle(c) ==
    /\ alive' = {k \in alive : flow[k].account # c}
    /\ alive' # alive
    /\ UNCHANGED <<clock, row, flow, narrowing, revoking, refresh, revoked>>

-----------------------------------------------------------------------------
\* Refreshing: read the row, ask Google, write if the row still holds the token.

RefreshReads(a) ==
    /\ refresh[a].stage = "idle"
    /\ row[a].token # NoToken
    /\ refresh' = [refresh EXCEPT ![a] = [stage |-> "sent", token |-> row[a].token, verdict |-> "none"]]
    /\ UNCHANGED <<clock, row, flow, alive, narrowing, revoking, revoked>>

RefreshAnswered(a) ==
    /\ refresh[a].stage = "sent"
    /\ refresh' = [refresh EXCEPT ![a].stage = "answered",
                      ![a].verdict = IF refresh[a].token \in alive THEN "live" ELSE "dead"]
    /\ UNCHANGED <<clock, row, flow, alive, narrowing, revoking, revoked>>

RefreshFails(a) ==
    /\ refresh[a].stage = "sent"
    /\ refresh' = [refresh EXCEPT ![a] = Idle]
    /\ UNCHANGED <<clock, row, flow, alive, narrowing, revoking, revoked>>

\* The compare-and-swap on the token that was exchanged.
StillHolds(a) == row[a].token = refresh[a].token

\* A dead token blanks the row; a live one only refreshes what the model leaves out.
RefreshWrites(a) ==
    /\ refresh[a].stage = "answered"
    /\ Unlocked(a)
    /\ refresh' = [refresh EXCEPT ![a] = Idle]
    /\ IF refresh[a].verdict = "dead" /\ StillHolds(a)
       THEN /\ row' = [row EXCEPT ![a] = Tombstone(@, clock + 1)]
            /\ clock' = clock + 1
       ELSE UNCHANGED <<row, clock>>
    /\ UNCHANGED <<flow, alive, narrowing, revoking, revoked>>

-----------------------------------------------------------------------------

RefreshStep(a) == RefreshReads(a) \/ RefreshAnswered(a) \/ RefreshFails(a) \/ RefreshWrites(a)

GoogleNext ==
    \/ \E s \in Session, a \in App :
          Start(s, a) \/ Revoke(s, a) \/ NarrowUnconfirmed(s, a) \/ Narrow(s, a)
    \/ \E f \in Flow :
          \/ \E c \in Account, sub \in Account \cup {NoAccount}, gives \in BOOLEAN :
                Exchange(f, c, sub, gives)
          \/ FlowFails(f) \/ Select(f) \/ Complete(f) \/ RevokeUpstream(f)
    \/ \E a \in App : Disconnect(a) \/ RefreshStep(a)
    \/ \E c \in Account : RevokedAtGoogle(c)

GoogleSpec == GoogleInit /\ [][GoogleNext]_googleVars

\* A broker asks for its tokens over and over, a request that holds a lock ends, and
\* Google answers now and then.
GoogleFairness ==
    \A a \in App :
        /\ WF_googleVars(RefreshReads(a))
        /\ SF_googleVars(RefreshAnswered(a))
        /\ SF_googleVars(RefreshWrites(a))
        /\ WF_googleVars(\E s \in Session : narrowing[a] = s /\ NarrowUnconfirmed(s, a))

LiveGoogleSpec == GoogleSpec /\ GoogleFairness

-----------------------------------------------------------------------------
\* Properties.

\* What the user revoked stays revoked, as far as the lock reaches: a callback stores the
\* token of an account only if its flow started after the last narrowing or disconnect
\* of that account in any row which its SELECT found, whatever happened to the row until
\* the callback had its lock.
NoResurrection ==
    \A a \in App : LET f == row'[a].token IN
       f # row[a].token /\ f # NoToken =>
           \A b \in flow[f].seen : flow[f].started > revoked[b][flow[f].account]

\* provider_google.py:629-636: "the guard's read can't go stale before the write commits",
\* and completing a flow whose consent predates a revocation "would resurrect a grant the
\* user just destroyed".  The same of every row, those first connected after the SELECT
\* included, which it cannot lock.
NothingIsResurrected ==
    [][\A a \in App : LET f == row'[a].token IN
          f # row[a].token /\ f # NoToken =>
              \A b \in App : flow[f].started > revoked[b][flow[f].account]]_googleVars

\* The token of a row and the account the row shows are one grant, however many flows of
\* two accounts complete in whatever order.
RowIsOneGrant ==
    \A a \in App :
        row[a].token # NoToken /\ row[a].sub # NoAccount => flow[row[a].token].account = row[a].sub

\* Only a revocation by the user or a dead token disconnects an app: a verdict on an
\* earlier token never costs a credential that was reconnected meanwhile.
HealthyIsKept ==
    \A a \in App :
       row[a].token # NoToken /\ row'[a].token = NoToken /\ revoked' = revoked =>
           row[a].token \notin alive

\* A credential whose grant is dead at Google does not stay connected for ever.
DeadIsNoticed ==
    \A a \in App : row[a].token # NoToken /\ row[a].token \notin alive
                       ~> row[a].token = NoToken \/ row[a].token \in alive
=============================================================================
