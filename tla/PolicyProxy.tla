----------------------------- MODULE PolicyProxy -----------------------------
(***************************************************************************)
(* The policy proxy in front of one app: requests that await the control   *)
(* plane's decision, and the two caches of decisions.  Time is relative:   *)
(* cache entries hold what is left of their TTL, and two history variables *)
(* say how long ago access was last granted.  The upstream app and what is *)
(* proxied to it are left out.                                             *)
(***************************************************************************)
EXTENDS Naturals, FiniteSets

CONSTANTS
    Webapp,         \* slugs a hostname may carry
    User,           \* users with a valid session
    Agent, Nobody,  \* the bare agent host; a visit without a valid session cookie
    Visit,        \* requests that can be under way at once
    PdpTTL,         \* HUMR_PDP_CACHE_TTL_SECONDS
    PublicTTL,      \* HUMR_PUBLIC_CACHE_TTL_SECONDS
    MaxEntries,     \* PUBLIC_CACHE_MAX_ENTRIES
    Flight          \* how long an answer of the control plane may take to arrive

ASSUME ProxyAssumption ==
    /\ {PdpTTL, PublicTTL, Flight} \subseteq Nat
    /\ MaxEntries \in Nat \ {0}
    /\ Agent \notin Webapp /\ Nobody \notin User

VARIABLES
    granted,    \* the webapps with a live grant
    allowed,    \* the users whom the ABAC policies allow app:use
    public,     \* PublicWebappDecisionCache
    decisions,  \* PdpDecisionCache
    visit,    \* the requests being authorized
    closed,     \* history: how long each webapp has been without a live grant
    barred      \* history: how long each user has been without app:use

proxyVars == <<granted, allowed, public, decisions, visit, closed, barred>>

TTLs == 0 .. (PdpTTL + PublicTTL)
\* Ages are counted up to a value that no property tells from later ones.
Ages == 0 .. (PdpTTL + PublicTTL + Flight)
OneOlder(age) == IF age + 1 \in Ages THEN age + 1 ELSE age

Decision == {"allow", "deny"}
\* A cache entry, with what is left of its TTL; an expired one stays until it is read
\* or evicted.
NoEntry == [decision |-> "none", left |-> 0]
Entry(d, ttl) == [decision |-> d, left |-> ttl]
Entries == {NoEntry} \cup [decision : Decision, left : TTLs]
\* Bug: an entry that has expired is used all the same.
HitExpired(e) == e # NoEntry
Hit(e) == e.left > 0

Outcome == {"none", "anonymous", "identity", "sign_in", "forbidden", "unavailable"}

NoVisit == [stage |-> "idle", host |-> Agent, user |-> Nobody, answer |-> "none",
              age |-> 0, outcome |-> "none", lag |-> 0]

ProxyTypeOK ==
    /\ granted \subseteq Webapp
    /\ allowed \subseteq User
    /\ public \in [Webapp -> Entries]
    /\ Cardinality({w \in Webapp : public[w] # NoEntry}) <= MaxEntries
    /\ decisions \in [User -> Entries]
    /\ visit \in [Visit -> [stage : {"idle", "public", "identity", "done"},
           host : Webapp \cup {Agent}, user : User \cup {Nobody}, age : 0 .. Flight,
           answer : Decision \cup {"none"}, outcome : Outcome, lag : Ages]]
    /\ closed \in [Webapp -> Ages]
    /\ barred \in [User -> Ages]

ProxyInit ==
    /\ granted = Webapp
    /\ allowed = User
    /\ public = [w \in Webapp |-> NoEntry]
    /\ decisions = [u \in User |-> NoEntry]
    /\ visit = [r \in Visit |-> NoVisit]
    /\ closed = [w \in Webapp |-> 0]
    /\ barred = [u \in User |-> 0]

-----------------------------------------------------------------------------
(* The control plane: grants come and go, so do policies and memberships.  *)

GrantChanges(w) ==
    /\ granted' = IF w \in granted THEN granted \ {w} ELSE granted \cup {w}
    /\ closed' = [closed EXCEPT ![w] = 0]
    /\ UNCHANGED <<allowed, public, decisions, visit, barred>>

PolicyChanges(u) ==
    /\ allowed' = IF u \in allowed THEN allowed \ {u} ELSE allowed \cup {u}
    /\ barred' = [barred EXCEPT ![u] = 0]
    /\ UNCHANGED <<granted, public, decisions, visit, closed>>

\* pdp_evaluate_public and pdp_evaluate: the decision at the moment they are asked.
Decide(yes) == IF yes THEN "allow" ELSE "deny"

PdpAnswers(r) ==
    /\ visit[r].answer = "none"
    /\ \/ /\ visit[r].stage = "public"
          /\ visit' = [visit EXCEPT ![r].answer = Decide(visit[r].host \in granted)]
       \/ /\ visit[r].stage = "identity"
          /\ visit' = [visit EXCEPT ![r].answer = Decide(visit[r].user \in allowed)]
    /\ UNCHANGED <<granted, allowed, public, decisions, closed, barred>>

-----------------------------------------------------------------------------
(* The proxy: _authorize_session, in steps from one await to the next.     *)

\* The visit ends with an outcome, or awaits the control plane.
Ending(req, outcome, lag) ==
    [req EXCEPT !.stage = "done", !.answer = "none", !.age = 0, !.outcome = outcome, !.lag = lag]
Asking(req, stage) == [req EXCEPT !.stage = stage, !.answer = "none", !.age = 0]

IdentityDecided(req, d) ==
    IF d = "allow" THEN Ending(req, "identity", barred[req.user]) ELSE Ending(req, "forbidden", 0)

\* No cookie, or one whose token does not verify, is sent to sign in; a verified one is
\* looked up in the cache.
Session(req) ==
    IF req.user = Nobody THEN Ending(req, "sign_in", 0)
    ELSE IF Hit(decisions[req.user]) THEN IdentityDecided(req, decisions[req.user].decision)
    ELSE Asking(req, "identity")

\* The public check with what the cache or the control plane says.  A deny sends the
\* visit on to the session.
PublicDecided(req, d) ==
    IF d = "allow" THEN Ending(req, "anonymous", closed[req.host]) ELSE Session(req)

\* A visit for a webapp's hostname starts with the public check, any other with the
\* session.
Arrive(r, host, user) ==
    LET req == [NoVisit EXCEPT !.host = host, !.user = user] IN
    /\ visit[r].stage = "idle"
    /\ visit' = [visit EXCEPT ![r] =
           IF host = Agent THEN Session(req)
           ELSE IF Hit(public[host]) THEN PublicDecided(req, public[host].decision)
           ELSE Asking(req, "public")]
    /\ UNCHANGED <<granted, allowed, public, decisions, closed, barred>>

\* put: a full cache first drops an entry that expires soonest.
PublicPut(w, d) ==
    LET held == {x \in Webapp : public[x] # NoEntry}
        dropped == IF public[w] = NoEntry /\ Cardinality(held) >= MaxEntries
                   THEN {x \in held : \A y \in held : public[x].left <= public[y].left}
                   ELSE {w}
    IN IF PublicTTL = 0 THEN {public}
       ELSE {[public EXCEPT ![x] = NoEntry, ![w] = Entry(d, PublicTTL)] : x \in dropped}

\* The answer arrives: it is cached and used.
PublicArrives(r) ==
    /\ visit[r].stage = "public" /\ visit[r].answer # "none"
    /\ public' \in PublicPut(visit[r].host, visit[r].answer)
    /\ visit' = [visit EXCEPT ![r] = PublicDecided(@, visit[r].answer)]
    /\ UNCHANGED <<granted, allowed, decisions, closed, barred>>

IdentityArrives(r) ==
    /\ visit[r].stage = "identity" /\ visit[r].answer # "none"
    /\ decisions' = IF PdpTTL = 0 THEN decisions
                    ELSE [decisions EXCEPT ![visit[r].user] = Entry(visit[r].answer, PdpTTL)]
    /\ visit' = [visit EXCEPT ![r] = IdentityDecided(@, visit[r].answer)]
    /\ UNCHANGED <<granted, allowed, public, closed, barred>>

\* The call fails or times out: nobody is let in, nothing is cached.
PdpFails(r) ==
    /\ visit[r].stage \in {"public", "identity"}
    /\ visit' = [visit EXCEPT ![r] = Ending(@, "unavailable", 0)]
    /\ UNCHANGED <<granted, allowed, public, decisions, closed, barred>>

Finish(r) ==
    /\ visit[r].stage = "done"
    /\ visit' = [visit EXCEPT ![r] = NoVisit]
    /\ UNCHANGED <<granted, allowed, public, decisions, closed, barred>>

\* An answer of the control plane is used at most Flight after it was decided.
Tick ==
    /\ \A r \in Visit : visit[r].age < Flight
    /\ public' = [w \in Webapp |-> IF Hit(public[w]) THEN [public[w] EXCEPT !.left = @ - 1]
                                   ELSE public[w]]
    /\ decisions' = [u \in User |-> IF Hit(decisions[u]) THEN [decisions[u] EXCEPT !.left = @ - 1]
                                    ELSE decisions[u]]
    /\ visit' = [r \in Visit |-> IF visit[r].answer # "none"
                                     THEN [visit[r] EXCEPT !.age = @ + 1] ELSE visit[r]]
    /\ closed' = [w \in Webapp |-> IF w \in granted THEN 0 ELSE OneOlder(closed[w])]
    /\ barred' = [u \in User |-> IF u \in allowed THEN 0 ELSE OneOlder(barred[u])]
    /\ UNCHANGED <<granted, allowed>>

\* The container restarts with empty caches; its requests are cut off.
Restart ==
    /\ public' = [w \in Webapp |-> NoEntry]
    /\ decisions' = [u \in User |-> NoEntry]
    /\ visit' = [r \in Visit |-> NoVisit]
    /\ UNCHANGED <<granted, allowed, closed, barred>>

ProxyNext ==
    \/ \E w \in Webapp : GrantChanges(w)
    \/ \E u \in User : PolicyChanges(u)
    \/ \E r \in Visit :
          \/ \E h \in Webapp \cup {Agent}, u \in User \cup {Nobody} : Arrive(r, h, u)
          \/ PdpAnswers(r) \/ PublicArrives(r) \/ IdentityArrives(r) \/ PdpFails(r)
          \/ Finish(r)
    \/ Tick
    \/ Restart

ProxySpec == ProxyInit /\ [][ProxyNext]_proxyVars

-----------------------------------------------------------------------------
(* Properties                                                              *)

\* A stranger is let through only to a webapp whose grant was live less than the TTL
\* and one answer's flight ago, whatever mix of cached and late answers let them in; a
\* proxy that caches nothing relies on the flight alone.
StaleAnonymousAccess(bound) ==
    \A r \in Visit : visit[r].outcome = "anonymous" =>
        visit[r].lag < bound \/ (PublicTTL = 0 /\ visit[r].lag <= Flight)
AnonymousAccessEnds == StaleAnonymousAccess(PublicTTL + Flight)

\* The same of a user whose policy or membership went.
IdentityAccessEnds ==
    \A r \in Visit : visit[r].outcome = "identity" =>
        visit[r].lag < PdpTTL + Flight \/ (PdpTTL = 0 /\ visit[r].lag <= Flight)

\* Both: access that was taken away ends in bounded time, and the caches stay small.
AccessEnds == ProxyTypeOK /\ AnonymousAccessEnds /\ IdentityAccessEnds

\* The claim of config.py that the public TTL "bounds both grant latency (stale deny) and
\* revocation latency (stale allow)".
TTLBoundsRevocation == StaleAnonymousAccess(PublicTTL)

\* The claim of pdp_cache.py about two requests that miss at once: "both get the same
\* answer", so it does not matter which one is written last.
RacersAgree ==
    \A q, r \in Visit :
        /\ visit[q].stage = "identity" /\ visit[r].stage = "identity"
        /\ visit[q].user = visit[r].user
        /\ visit[q].answer # "none" /\ visit[r].answer # "none"
        => visit[q].answer = visit[r].answer
=============================================================================
