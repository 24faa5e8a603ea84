------------------------------ MODULE UserOAuth ------------------------------
(***************************************************************************)
(* One user's OAuth credential at a provider whose refresh tokens rotate:  *)
(* brokers that refresh it at the same time, answers that are lost, a user *)
(* who reconnects and disconnects meanwhile.                               *)
(***************************************************************************)
EXTENDS Naturals, FiniteSets

CONSTANTS
    Provider,       \* "github", "x", "openai-codex" or "nous"
    Refresher,      \* requests of the batched refresh endpoint that can be under way at once
    MaxGrants,      \* bound on the consents ever given
    MaxRotations,   \* bound on the rotations of one grant
    Lossy           \* whether answers can be lost and processes die

ASSUME OAuthAssumption ==
    /\ Provider \in {"github", "x", "openai-codex", "nous"}
    /\ MaxGrants \in Nat \ {0} /\ MaxRotations \in Nat \ {0} /\ Lossy \in BOOLEAN

VARIABLES
    held,       \* the refresh token in the user's IntegrationUserCredential
    newest,     \* at the provider: the newest rotation of each grant, 0 for none
    revoked,    \* at the provider: the grants that are revoked
    storing,    \* grants whose callback or device completion has yet to store them
    job,        \* the refreshes
    ended       \* the grants the user has disconnected

oauthVars == <<held, newest, revoked, storing, job, ended>>

Grant == 1 .. MaxGrants
OAuthToken == [grant : Grant, rotation : 1 .. MaxRotations]
NoToken == [grant |-> 0, rotation |-> 0]

Idle == [stage |-> "idle", token |-> NoToken, next |-> NoToken, verdict |-> "none"]
Outcome == {"has_token", "absent", "transient"}

\* told: the outcome of a request that is over.
OAuthTypeOK ==
    /\ held \in OAuthToken \cup {NoToken}
    /\ newest \in [Grant -> 0 .. MaxRotations]
    /\ revoked \subseteq {g \in Grant : newest[g] > 0}
    /\ storing \subseteq Grant
    /\ ended \subseteq Grant
    /\ job \in [Refresher -> [stage : {"idle", "sent", "answered"} \cup Outcome,
                              token : OAuthToken \cup {NoToken}, next : OAuthToken \cup {NoToken},
                              verdict : {"none", "response", "unusable", "revoked", "error"}]]
    /\ held # NoToken => held.rotation <= newest[held.grant]

OAuthInit ==
    /\ held = NoToken
    /\ newest = [g \in Grant |-> 0]
    /\ revoked = {}
    /\ storing = {}
    /\ job = [r \in Refresher |-> Idle]
    /\ ended = {}

\* The provider accepts the newest token of a grant that is not revoked.
Valid(t) == t # NoToken /\ t.grant \notin revoked /\ t.rotation = newest[t.grant]

-----------------------------------------------------------------------------
\* What an answer means.  An answer is a status and an error code, "" for none.

\* What the providers answer about a token that does not work any more ...
Rejections ==
    CASE Provider = "github" -> {<<200, "bad_refresh_token">>}
      [] Provider = "x" -> {<<400, "invalid_request">>, <<400, "invalid_grant">>}
      [] Provider = "openai-codex" -> {<<400, "invalid_grant">>, <<401, "token_expired">>}
      [] Provider = "nous" -> {<<400, "invalid_grant">>, <<401, "invalid_token">>}
\* ... and when they cannot answer: overloaded, broken, throttled.
Failures == {<<500, "">>, <<429, "slow_down">>, <<403, "">>, <<200, "">>}

\* _exchange_refresh_token of GitHub: the body decides, and only under a 200.
GithubVerdict(answer) ==
    IF answer[1] # 200 THEN "error"
    ELSE IF answer[2] \in {"bad_refresh_token", "bad_credentials", "unauthorized_client", "invalid_grant"}
         THEN "revoked" ELSE "error"

\* exchange_refresh_token: a status and a code that both count as revoking.
SharedVerdict(answer, statuses, codes) ==
    IF answer[1] # 200 /\ answer[1] \in statuses /\ answer[2] \in codes THEN "revoked" ELSE "error"

\* The verdict on an answer that brought no token.
Verdict(answer) ==
    CASE Provider = "github" -> GithubVerdict(answer)
      [] Provider = "x" -> SharedVerdict(answer, {400}, {"invalid_request", "invalid_grant"})
      [] Provider = "openai-codex" ->
            SharedVerdict(answer, {400, 401}, {"invalid_grant", "token_expired", "invalid_token"})
      [] Provider = "nous" ->
            SharedVerdict(answer, {400, 401}, {"invalid_grant", "invalid_token", "refresh_token_reused"})

-----------------------------------------------------------------------------
\* Connecting and disconnecting.

\* The callback (or the broker's device flow) exchanges the code for a first token ...
Consent(g) ==
    /\ newest[g] = 0 /\ \A h \in Grant : h < g => newest[h] > 0
    /\ newest' = [newest EXCEPT ![g] = 1]
    /\ storing' = storing \cup {g}
    /\ UNCHANGED <<held, revoked, job, ended>>

\* ... and stores it over whatever the row holds.
Store(g) ==
    /\ g \in storing
    /\ storing' = storing \ {g}
    /\ held' = [grant |-> g, rotation |-> 1]
    /\ UNCHANGED <<newest, revoked, job, ended>>

\* The row is deleted; the revocation at the provider that follows may fail.
DisconnectLogin ==
    /\ held # NoToken
    /\ held' = NoToken
    /\ ended' = ended \cup {held.grant}
    /\ revoked' \in {revoked, revoked \cup {held.grant}}
    /\ UNCHANGED <<newest, storing, job>>

\* The user revokes the grant at the provider.
RevokedAtProvider(g) ==
    /\ newest[g] > 0 /\ g \notin revoked
    /\ revoked' = revoked \cup {g}
    /\ UNCHANGED <<held, newest, storing, job, ended>>

-----------------------------------------------------------------------------
\* Refreshing: refresh_outcome of GitHub, run_refresh_exchange of the others.

Finish(r, outcome) == job' = [job EXCEPT ![r] = [Idle EXCEPT !.stage = outcome]]

\* A new request reads the row.
Read(r) ==
    /\ job[r].stage \notin {"sent", "answered"}
    /\ IF held = NoToken THEN Finish(r, "absent")
       ELSE job' = [job EXCEPT ![r] = [Idle EXCEPT !.stage = "sent", !.token = held]]
    /\ UNCHANGED <<held, newest, revoked, storing, ended>>

\* A token that works is rotated.  The response may be one the provider module cannot
\* use, or be lost on the way.
Rotate(r) ==
    LET g == job[r].token.grant
        next == [grant |-> g, rotation |-> newest[g] + 1] IN
    /\ job[r].stage = "sent"
    /\ Valid(job[r].token)
    /\ newest[g] < MaxRotations
    /\ newest' = [newest EXCEPT ![g] = @ + 1]
    /\ \E verdict \in {"response"} \cup (IF Lossy THEN {"unusable", "error"} ELSE {}) :
          job' = [job EXCEPT ![r].stage = "answered", ![r].verdict = verdict, ![r].next = next]
    /\ UNCHANGED <<held, revoked, storing, ended>>

\* A token that does not work is rejected; a provider in trouble fails any.
Refuse(r) ==
    /\ job[r].stage = "sent"
    /\ \E answer \in Failures \cup (IF Valid(job[r].token) THEN {} ELSE Rejections) :
          job' = [job EXCEPT ![r].stage = "answered", ![r].verdict = Verdict(answer)]
    /\ UNCHANGED <<held, newest, revoked, storing, ended>>

\* Bug: the row is written whatever it holds by now.
AnyRow(r) == held # NoToken

\* The compare-and-swap: the row still holds the token that was exchanged.
StillHolds(r) == held = job[r].token

\* Revoked: the row goes if it still holds the token.
DeleteRevoked(r) ==
    /\ job[r].stage = "answered" /\ job[r].verdict = "revoked"
    /\ \/ StillHolds(r) /\ held' = NoToken /\ Finish(r, "absent")
       \/ ~StillHolds(r) /\ UNCHANGED held /\ Finish(r, "transient")
    /\ UNCHANGED <<newest, revoked, storing, ended>>

\* A response: the rotated token replaces the one that was exchanged.  A lost swap still
\* serves the access token it got.
StoreRotated(r) ==
    /\ job[r].stage = "answered" /\ job[r].verdict = "response"
    /\ IF StillHolds(r) THEN held' = job[r].next ELSE UNCHANGED held
    /\ Finish(r, "has_token")
    /\ UNCHANGED <<newest, revoked, storing, ended>>

GiveUp(r) ==
    /\ job[r].stage = "answered" /\ job[r].verdict \in {"error", "unusable"}
    /\ Finish(r, "transient")
    /\ UNCHANGED <<held, newest, revoked, storing, ended>>

\* The web process dies, or the callback does before it stores.
Die(r) ==
    /\ Lossy
    /\ job[r].stage \in {"sent", "answered"}
    /\ job' = [job EXCEPT ![r] = Idle]
    /\ UNCHANGED <<held, newest, revoked, storing, ended>>

StoreLost(g) ==
    /\ Lossy
    /\ g \in storing
    /\ storing' = storing \ {g}
    /\ UNCHANGED <<held, newest, revoked, job, ended>>

-----------------------------------------------------------------------------

OAuthNext ==
    \/ \E g \in Grant : Consent(g) \/ Store(g) \/ StoreLost(g) \/ RevokedAtProvider(g)
    \/ DisconnectLogin
    \/ \E r \in Refresher :
          \/ Read(r) \/ Rotate(r) \/ Refuse(r) \/ Die(r)
          \/ DeleteRevoked(r) \/ StoreRotated(r) \/ GiveUp(r)

OAuthSpec == OAuthInit /\ [][OAuthNext]_oauthVars

\* The broker asks over and over, a request ends (the exchange has a timeout), and the
\* provider does reject a bad token now and then.
OAuthFairness ==
    \A r \in Refresher :
        /\ WF_oauthVars(Read(r))
        /\ WF_oauthVars(Rotate(r) \/ Refuse(r))
        /\ SF_oauthVars(Refuse(r) /\ job'[r].verdict = "revoked")
        /\ SF_oauthVars(DeleteRevoked(r))
        /\ WF_oauthVars(StoreRotated(r) \/ GiveUp(r))

LiveOAuthSpec == OAuthSpec /\ OAuthFairness

-----------------------------------------------------------------------------
\* Properties.

\* With answers that arrive, a stored credential works unless its grant is revoked: every
\* rotation reaches the row that the token came from, whoever refreshes at the time.
StoredTokenWorks ==
    held # NoToken /\ held.grant \notin revoked /\ (\A r \in Refresher : job[r].stage # "answered") =>
        Valid(held)

\* A refresh deletes a row only while the token in it is worthless, however many refreshes
\* and reconnects overlap.
WorkingTokenIsKept ==
    held # NoToken /\ held' = NoToken /\ ended' = ended => ~Valid(held)

\* A refresh never puts an older token over a newer one, nor one grant's over another's.
RotationsMoveForward ==
    \A r \in Refresher :
       job[r].stage = "answered" /\ job'[r].stage # "answered" /\ held' # held /\ held' # NoToken =>
           held'.grant = held.grant /\ held'.rotation > held.rotation

\* A broker is told that nothing is connected only when nothing is: the verdict on an
\* earlier token does not disconnect a credential that replaced it.
AbsentIsTrue ==
    \A r \in Refresher : job[r].stage # "absent" /\ job'[r].stage = "absent" => held' = NoToken

\* Refreshes that overlap each other, a reconnect or a disconnect neither lose a token that
\* works nor bring an old one back; and while no answer is lost, what is stored works.
RefreshesAreHarmless ==
    /\ []OAuthTypeOK
    /\ [][WorkingTokenIsKept /\ RotationsMoveForward /\ AbsentIsTrue]_oauthVars
    /\ [](~Lossy => StoredTokenWorks)

\* What the code's comments promise of two refreshes that race: a grant the provider
\* still honours is not deleted.
ValidGrantIsKept ==
    [][held # NoToken /\ held' = NoToken /\ ended' = ended => held.grant \in revoked]_oauthVars

\* A token that does not work any more does not stay in the row for ever.
WorthlessRowGoes == held # NoToken /\ ~Valid(held) ~> held = NoToken \/ Valid(held)
=============================================================================
