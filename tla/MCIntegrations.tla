--------------------------- MODULE MCIntegrations ---------------------------
(***************************************************************************)
(* The integrations of the control plane, for TLC.  They share no state:   *)
(* a behaviour is one of a single component, the part, and the others rest *)
(* in an initial state.                                                    *)
(***************************************************************************)
EXTENDS SlackSetup, TelegramSetup, UserOAuth, SharedLogins, TLC

CONSTANTS
    Parts

VARIABLES
    part,  \* the component that moves, chosen once and for all
    \* The state of that component; of the instances below, in the order in which
    \* their modules declare it.
    v1, v2, v3, v4, v5, v6, v7, v8

\* What a component of fewer variables leaves at rest.
Beyond7 == <<v7, v8>>
Rest7 ==
    v7 = 0 /\ v8 = 0
Beyond6 == <<v6, Beyond7>>
Rest6 ==
    v6 = 0 /\ Rest7
Beyond1 == <<v1, v2, v3, v4, v5, Beyond6>>
Rest1 ==
    v1 = 0 /\ v2 = 0 /\ v3 = 0 /\ v4 = 0 /\ v5 = 0 /\ Rest6

Google == INSTANCE GoogleConnect WITH
    App <- {"a1", "a2"}, Account <- {"c1"}, Session <- {"s1"}, MaxFlows <- 3,
    MaxPending <- 2, MaxTime <- 4, MayHideSub <- FALSE, NoAccount <- None,
    NoSession <- None, clock <- v1, row <- v2, flow <- v3, alive <- v4, narrowing <- v5,
    revoking <- v6, refresh <- v7, revoked <- v8
ASSUME Google!GoogleAssumption

TwoAccounts == INSTANCE GoogleConnect WITH
    App <- {"a1"}, Account <- {"c1", "c2"}, Session <- {"s1"}, MaxFlows <- 3,
    MaxPending <- 2, MaxTime <- 4, MayHideSub <- FALSE, NoAccount <- None,
    NoSession <- None, clock <- v1, row <- v2, flow <- v3, alive <- v4, narrowing <- v5,
    revoking <- v6, refresh <- v7, revoked <- v8
ASSUME TwoAccounts!GoogleAssumption

Alone == INSTANCE UserOAuth WITH
    Provider <- "x", Refresher <- {"r1", "r2"}, MaxGrants <- 2, MaxRotations <- 3,
    Lossy <- FALSE, held <- v1, newest <- v2, revoked <- v3, storing <- v4, job <- v5,
    ended <- v6
ASSUME Alone!OAuthAssumption

Edits == INSTANCE SharedLogins WITH
    Admin <- {"a1", "a2"}, Scope <- {"everyone", "platform"}, MaxRows <- 1, MaxLogins <- 2,
    MaxTurns <- 2, Retargets <- TRUE, MayDie <- TRUE, share <- v1, turns <- v2,
    withdrawn <- v3, holder <- v4, request <- v5
ASSUME Edits!SharedAssumption

Init ==
    /\ part \in Parts
    /\ SlackInit
    /\ part # "slack" => app.owner = "ana"
    /\ TelegramInit
    /\ part # "telegram" => owned.owner = "ana"
    /\ OAuthInit
    /\ SharedInit
    /\ \/ part \in {"slack", "telegram", "oauth", "shared"} /\ Rest1
       \/ part = "google" /\ Google!GoogleInit
       \/ part = "accounts" /\ TwoAccounts!GoogleInit
       \/ part = "alone" /\ Alone!OAuthInit /\ Rest7
       \/ part = "edits" /\ Edits!SharedInit /\ Rest6

\* One component takes a step of its own, the others rest.
OthersRest ==
    /\ part' = part
    /\ IF part = "slack" THEN TRUE ELSE UNCHANGED slackVars
    /\ IF part = "telegram" THEN TRUE ELSE UNCHANGED telegramVars
    /\ IF part = "oauth" THEN TRUE ELSE UNCHANGED oauthVars
    /\ IF part = "shared" THEN TRUE ELSE UNCHANGED sharedVars

Next ==
    \/ part = "slack" /\ SlackNext /\ OthersRest /\ UNCHANGED Beyond1
    \/ part = "telegram" /\ TelegramNext /\ OthersRest /\ UNCHANGED Beyond1
    \/ part = "google" /\ Google!GoogleNext /\ OthersRest
    \/ part = "accounts" /\ TwoAccounts!GoogleNext /\ OthersRest
    \/ part = "oauth" /\ OAuthNext /\ OthersRest /\ UNCHANGED Beyond1
    \/ part = "alone" /\ Alone!OAuthNext /\ OthersRest /\ UNCHANGED Beyond7
    \/ part = "shared" /\ SharedNext /\ OthersRest /\ UNCHANGED Beyond1
    \/ part = "edits" /\ Edits!SharedNext /\ OthersRest /\ UNCHANGED Beyond6

allVars == <<part,
            slackVars, telegramVars, oauthVars, sharedVars, v1, v2, v3, v4, v5, v6, v7, v8>>

Spec == Init /\ [][Next]_allVars

-----------------------------------------------------------------------------
\* The accounts and the Slack apps of the instance.
TwoApps == {[ws |-> "w1", mode |-> m] : m \in {"personal", "company"}}
Everyone == {<<"ana", "w1">>, <<"bob", "w1">>}

\* A Google app is connected by a flow of its own and disconnected by a
\* revocation, and its token is of the account it shows (GoogleConnect); a personal
\* login whose answers all arrive works at another provider too (UserOAuth), and
\* what is cached of a shared one is its own while its target moves (SharedLogins).
LoginsFollowConsent ==
    /\ [](part = "google" => Google!GoogleTypeOK)
    /\ [][part = "google" => Google!NoResurrection /\ Google!HealthyIsKept]_allVars
    /\ [](part = "accounts" => TwoAccounts!RowIsOneGrant)
    /\ [](part = "alone" => Alone!StoredTokenWorks)
    /\ [](part = "edits" => Edits!SharedLoginsStayValid)
=============================================================================
